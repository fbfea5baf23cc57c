----------------------------- MODULE Interfaces -----------------------------
(***************************************************************************)
(* The Ethernet interfaces of a controller: their virtual interfaces, the  *)
(* compute nodes behind them, routes, and the sockets that are bound to    *)
(* their addresses when the ECU is made.                                   *)
(*                                                                         *)
(* A virtual interface: [name, vlan, multicast, addresses], an address     *)
(* being [family, ip, prefix] with ip a number of AddressBits bits.        *)
(* A compute node: [name, mac, vis, features]; an interface has also       *)
(* streams, nodes, routes and containers: a route is [gateway, via], a     *)
(* container [vlan, sockets], a socket [name, ip], ip being an address.    *)
(***************************************************************************)
EXTENDS Integers, Sequences, FiniteSets, SequencesExt

CONSTANT AddressBits

ASSUME AddressBitsAssumption == AddressBits \in Nat

Untagged == -1   \* None

VlanAccepted(v) == v = Untagged \/ v \in 0..4095

-----------------------------------------------------------------------------
(* One interface.                                                          *)

\* A virtual interface that is not valid is removed with a warning.
ValidVi(v) == VlanAccepted(v.vlan) /\ \A m \in v.multicast : m.multicast

Kept(vis) == FlattenSeq([k \in DOMAIN vis |-> IF ValidVi(vis[k]) THEN <<vis[k]>> ELSE << >>])

AllVis(i) == FlattenSeq([k \in DOMAIN i.nodes |-> Kept(i.nodes[k].vis)]) \o Kept(i.vis)

VlansUnique(vis) == IsInjective([k \in DOMAIN Kept(vis) |-> Kept(vis)[k].vlan])

Offloadable == {"ptp_config", "macsec_config", "ingress_streams", "traffic_classes"}

NotOnBoth(i) == \A c \in ToSet(i.nodes) : i.features \cap c.features \cap Offloadable = {}

StreamsAccepted(i) == \A s \in i.streams : s.ipv = {} /\ ~s.ats

\* gateway_in_subnet.
InSubnet(gateway, a) ==
  LET block == 2^(AddressBits - a.prefix)
  IN gateway.family = a.family /\ gateway.ip \div block = a.ip \div block

\* Of several virtual interfaces with one name, the last in the order of
\* vci_map, where those of the interface come first.
Egress(i, name) ==
  LET all == Kept(i.vis) \o FlattenSeq([k \in DOMAIN i.nodes |-> Kept(i.nodes[k].vis)])
      found == SelectSeq(all, LAMBDA v : v.name = name)
  IN IF found = << >> THEN {} ELSE {Last(found)}

RoutesAccepted(i) ==
  \A r \in ToSet(i.routes) :
    \E v \in Egress(i, r.via) : \E a \in ToSet(v.addresses) : InSubnet(r.gateway, a)

InterfaceAccepted(i) ==
  /\ AllVis(i) # << >>
  /\ VlansUnique(i.vis)
  /\ \A c \in ToSet(i.nodes) : VlansUnique(c.vis)
  /\ NotOnBoth(i)
  /\ StreamsAccepted(i)
  /\ RoutesAccepted(i)

-----------------------------------------------------------------------------
(* One controller: [name, ifaces, others, vports], with the number of its  *)
(* CAN and LIN interfaces and the names its virtual switch connects.       *)

ControllerAccepted(c) ==
  /\ c.ifaces # << >> \/ c.others > 0
  /\ IsInjective([k \in DOMAIN c.ifaces |-> c.ifaces[k].name])
  /\ c.vports \subseteq UNION {{i.name} \cup {d.name : d \in ToSet(i.nodes)} : i \in ToSet(c.ifaces)}

-----------------------------------------------------------------------------
(* Sockets.                                                                *)

AddressesOf(vis) == UNION {ToSet(v.addresses) : v \in ToSet(vis)}

IpOf(a) == [family |-> a.family, ip |-> a.ip]

\* get_all_ips, with those of the compute nodes.
\* Mutant: the addresses of the whole controller are looked at.
AllIpsOfController(c, i) == UNION {{IpOf(a) : a \in AddressesOf(AllVis(j))} : j \in ToSet(c.ifaces)}

AllIps(c, i) == {IpOf(a) : a \in AddressesOf(AllVis(i))}

SocketsOf(i) == UNION {ToSet(s.sockets) : s \in ToSet(i.containers)}

\* __bind_sockets_to_ip refuses a unicast socket without an address, and hangs
\* it on the addresses of the virtual interfaces, not those of the nodes.
SocketsHaveAddress(c, i) == \A s \in SocketsOf(i) : s.unicast => s.ip \in AllIps(c, i)

Attached(i, s) ==
  {k \in DOMAIN Kept(i.vis) : \E a \in ToSet(Kept(i.vis)[k].addresses) : IpOf(a) = s.ip}

\* validate_vlans_in_sockets.
VlansConfigured(i) == {s.vlan : s \in ToSet(i.containers)} \subseteq {v.vlan : v \in ToSet(Kept(i.vis))}

\* validate_unique_macs: a compute node without an address counts with None.
Macs(i) == SetToSeq(i.mac) \o [k \in DOMAIN i.nodes |-> i.nodes[k].mac]

MacsUnique(c) == IsInjective(FlattenSeq([k \in DOMAIN c.ifaces |-> Macs(c.ifaces[k])]))

\* Only warned about: an address that is used twice, the unspecified one aside.
RepeatedIps(c) ==
  LET ips == FlattenSeq([k \in DOMAIN c.ifaces |->
               FlattenSeq([m \in DOMAIN AllVis(c.ifaces[k]) |->
                 LET a == AllVis(c.ifaces[k])[m].addresses IN [x \in DOMAIN a |-> IpOf(a[x])]])])
  IN {ips[k] : k \in {k \in DOMAIN ips : ips[k].ip # 0 /\ \E m \in 1..(k - 1) : ips[m] = ips[k]}}

EcuAccepted(c) ==
  /\ ControllerAccepted(c)
  /\ \A i \in ToSet(c.ifaces) :
       InterfaceAccepted(i) /\ SocketsHaveAddress(c, i) /\ VlansConfigured(i)
  /\ MacsUnique(c)

-----------------------------------------------------------------------------
(* Properties.                                                             *)

\* In an accepted ECU a unicast socket can be reached: on an interface without
\* compute nodes it hangs on an address, and on one only when no address is
\* repeated; the VLAN of its container is one the interface can receive.  That
\* its address lies in that very VLAN is not checked by the code.
SocketsReachable(c) ==
  EcuAccepted(c) =>
    \A i \in ToSet(c.ifaces) : i.nodes = << >> =>
      \A s \in ToSet(i.containers) : \A k \in ToSet(s.sockets) : k.unicast =>
        /\ Attached(i, k) # {}
        /\ RepeatedIps(c) = {} /\ k.ip.ip # 0 => Cardinality(Attached(i, k)) = 1
        /\ \E v \in ToSet(AllVis(i)) : v.vlan = s.vlan

\* What __bind_sockets_to_ip is to do: each unicast socket is associated with the
\* address it names on its interface, one of a compute node too.
SocketsAssociated(c) ==
  EcuAccepted(c) => \A i \in ToSet(c.ifaces) : \A s \in SocketsOf(i) : s.unicast =>
    Attached(i, s) # {}

=============================================================================
