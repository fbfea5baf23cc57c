----------------------------- MODULE Switching -----------------------------
(***************************************************************************)
(* What a switch document may say: its ports, its VLANs, its TCAM rules    *)
(* and the traffic classes and streams of its ports; and what a loaded     *)
(* switch makes of rules that leave their ports open.                      *)
(*                                                                         *)
(* The bits of a register or of a pattern are sets of bit positions.       *)
(***************************************************************************)
EXTENDS Qos

Unique(s) == IsInjective(s)

Column(s, f) == [k \in DOMAIN s |-> s[k][f]]

-----------------------------------------------------------------------------
(* TCAM rules.                                                             *)

\* A byte pattern: where it starts, how many bits of data and of mask are
\* written, and how many bytes of a frame can be inspected.
FrameMask(offset, data, mask, window) ==
  [offset |-> offset, data |-> data, mask |-> mask, window |-> window]

\* The bytes that so many bits take.
\* Mutant: a byte that is only begun is not counted.
ByteSpanDown(bits) == bits \div 8

ByteSpan(bits) == -((-bits) \div 8)

FrameMaskAccepted(f) ==
  /\ f.data = f.mask
  /\ f.offset \in 0..(f.window - 1)
  /\ f.offset + ByteSpan(f.data) <= f.window

\* An action: its type and the ports it is for, none for all.
Exclusive == {"drop", "force_egress", "mirror"}
OnVlans   == {"remove_vlan", "vlan_overwrite"}

PortsOf(actions, types) ==
  FlattenSeq([k \in DOMAIN actions |-> IF actions[k].type \in types THEN actions[k].ports ELSE << >>])

VehicleBits == 0..7

\* A rule: [name, id, filter, frames, state, smask, ports, actions], where
\* frames, state and smask are sets of at most one frame mask or set of bits.
\* A state without a mask gets the mask of all bits.
StateMask(r) == IF r.smask = {} THEN VehicleBits ELSE UNION r.smask

VehicleStateAccepted(r) ==
  IF r.state = {} THEN r.smask = {} ELSE (UNION r.state) \ StateMask(r) = {}

RuleAccepted(r) ==
  /\ \A f \in r.frames : FrameMaskAccepted(f)
  /\ VehicleStateAccepted(r)
  /\ r.filter <=> r.frames = {}
  /\ Unique(PortsOf(r.actions, Exclusive))
  /\ Unique(PortsOf(r.actions, OnVlans))

\* _fill_empty_tcam_port_lists, when the switch is made of accepted rules.
Filled(ports, names) == IF ports = << >> THEN names ELSE ports

FilledRule(r, names) ==
  [r EXCEPT !.ports = Filled(@, names),
            !.actions = [k \in DOMAIN r.actions |-> [r.actions[k] EXCEPT !.ports = Filled(@, names)]]]

-----------------------------------------------------------------------------
(* Traffic classes and streams of a port.                                  *)

\* A traffic class: [prio, pcps, ipvs, mechanism]; a stream:
\* [filters, policer, ipv, ats], where ipv is a set of at most one value.
\* check_pcps_different and check_ipvs_unique compare with the classes before.
DifferentClasses(classes, f) ==
  \A i, j \in DOMAIN classes : i < j => ToSet(classes[i][f]) \cap ToSet(classes[j][f]) = {}

TrafficClassesAccepted(classes) ==
  /\ Unique(Column(classes, "prio"))
  /\ DifferentClasses(classes, "pcps")
  /\ DifferentClasses(classes, "ipvs")

StreamsOf(ports) == UNION {ToSet(ports[k].streams) : k \in DOMAIN ports}
ClassesOf(ports) == UNION {ToSet(ports[k].classes) : k \in DOMAIN ports}

\* validate_ipv_mapping and validate_ats_instances: anywhere on the switch.
IpvMapped(ports) ==
  \A c \in ClassesOf(ports) : \A iv \in ToSet(c.ipvs) : \E s \in StreamsOf(ports) : s.ipv = {iv}

AtsMapped(ports) ==
  \A c \in ClassesOf(ports) : c.mechanism = "ats" => \E s \in StreamsOf(ports) : s.ats

-----------------------------------------------------------------------------
(* A switch: [ports, vlans, rules].  VLANs name ports without being        *)
(* checked against the switch.                                             *)

VlanIdAccepted(id) == id \in 0..4095

LoadedRules(s) == [k \in DOMAIN s.rules |-> FilledRule(s.rules[k], Column(s.ports, "name"))]

PortsExist(s) ==
  \A r \in ToSet(LoadedRules(s)) :
    ToSet(r.ports) \cup ToSet(PortsOf(r.actions, Exclusive \cup OnVlans)) \subseteq ToSet(Column(s.ports, "name"))

SwitchAccepted(s) ==
  /\ \A p \in ToSet(s.ports) : TrafficClassesAccepted(p.classes)
  /\ \A c \in ClassesOf(s.ports) : TrafficClassValid(c)
  /\ \A x \in StreamsOf(s.ports) : StreamAccepted(x)
  /\ \A r \in ToSet(s.rules) : RuleAccepted(r)
  /\ \A v \in ToSet(s.vlans) : VlanIdAccepted(v.id)
  /\ Unique(Column(s.ports, "silicon"))
  /\ Unique(Column(s.ports, "name"))
  /\ IpvMapped(s.ports)
  /\ AtsMapped(s.ports)
  /\ PortsExist(s)
  /\ Unique(Column(s.rules, "id"))
  /\ Unique(Column(s.rules, "name"))

-----------------------------------------------------------------------------
(* Properties.                                                             *)

\* What a frame meets at a port: the exclusive actions of the rule there.
ActionsAt(r, p) == {k \in DOMAIN r.actions : r.actions[k].type \in Exclusive /\ p \in ToSet(r.actions[k].ports)}

\* A frame meets one exclusive action at most, wherever the rule is applied.
OneExclusive(s, r) ==
  \A p \in ToSet(Column(s.ports, "name")) :
    Cardinality(ActionsAt(FilledRule(r, Column(s.ports, "name")), p)) <= 1

\* A rule names the ports of its exclusive actions, or has only one of them.
PortsNamed(r) ==
  LET exclusive == {k \in DOMAIN r.actions : r.actions[k].type \in Exclusive}
  IN (\A k \in exclusive : r.actions[k].ports # << >>) \/ (\A k, l \in exclusive : k = l)

\* "A TCAM Rule can either drop OR force egress OR mirror on one port": true of
\* the loaded rules of an accepted switch that name their ports or have nothing
\* to mix up.  Ports that are left open are filled in after the check, and then
\* it need not hold.  And every accepted rule can match: there is a vehicle
\* state it is for, and its pattern lies in the bytes that can be inspected to
\* the last bit.
RulesWork(s) ==
  SwitchAccepted(s) =>
    \A r \in ToSet(s.rules) :
      /\ PortsNamed(r) => OneExclusive(s, r)
      /\ \A b \in r.state : \E now \in SUBSET VehicleBits : now \cap StateMask(r) = b
      /\ \A f \in r.frames : \A i \in 0..(f.data - 1) : f.offset * 8 + i < f.window * 8

\* The same for all rules, also those with ports left open: it does not hold.
OneActionPerPort(s) == SwitchAccepted(s) => \A r \in ToSet(s.rules) : OneExclusive(s, r)

=============================================================================
