------------------------------ MODULE Topology ------------------------------
(***************************************************************************)
(* The network a loaded workspace describes, and what the validators of    *)
(* ECU and FLYNCModel leave behind in it: which component is connected to  *)
(* which, the multicast memberships, the paths of the multicast groups,    *)
(* the forwarding entries of the switches and the warnings.                *)
(*                                                                         *)
(* All of this lives on the instances of the components, and an update of  *)
(* one document replaces only the instances of that document: the ECU and  *)
(* the root model are built again around the old instances of all others,  *)
(* and the validators run on them once more.                               *)
(*                                                                         *)
(* One VLAN is modelled.  Every document loads and every connection can be *)
(* resolved (Workspace models documents that do not load, Wiring the       *)
(* ones that cannot be resolved); a controller has one interface.          *)
(***************************************************************************)
EXTENDS Integers, Sequences, FiniteSets, SequencesExt

CONSTANTS
  EcuPort, SwitchPort, Interface,   \* the components, by name
  Ecus,          \* FLYNCModel.ecus, in order
  InterfacesOf,  \* [ECU -> its controller interfaces in order]
  DocOf,         \* [component -> the document it is written in]
  EcuOf,         \* [document -> its ECU]
  Internal,      \* [ECU -> the connections of its topology, as pairs]
  External,      \* ExternalConnections of the system topology, as pairs
  Offered,       \* [document -> what may be written in it]
  MaxVersions    \* how often a document is loaded

Component == EcuPort \cup SwitchPort \cup Interface
Document  == {DocOf[c] : c \in Component}
Switch    == {DocOf[c] : c \in SwitchPort}

\* What a document says about its components, as far as it matters here.  A
\* switch: its ports in the VLAN.  A controller: what its interface does.  The
\* ports of an ECU: their MDI role.
Setting == (SUBSET SwitchPort) \cup (SUBSET {"vlan", "tx", "rx", "v6"}) \cup {{"master"}, {"slave"}}

\* The connections of the network, without their order.
Connection == ToSet(External) \cup UNION {ToSet(Internal[e]) : e \in ToSet(Ecus)}

ASSUME TopologyAssumption ==
  /\ MaxVersions \in Nat \ {0}
  /\ IsFiniteSet(Component)
  /\ EcuPort \cap SwitchPort = {} /\ EcuPort \cap Interface = {} /\ SwitchPort \cap Interface = {}

\* Every document is one of an ECU, and a switch says which of its own ports
\* are in the VLAN.
ASSUME DocumentAssumption ==
  /\ EcuOf \in [Document -> ToSet(Ecus)] /\ Offered \in [Document -> SUBSET Setting]
  /\ \A p \in SwitchPort : \A v \in Offered[DocOf[p]] : v \subseteq {q \in SwitchPort : DocOf[q] = DocOf[p]}

\* An ECU connects components of its own, ECU ports are connected outside, and
\* a switch port is an end of one connection (Wiring refuses other topologies).
ASSUME ConnectionAssumption ==
  /\ Ecus \in Seq(ToSet(Ecus))
  /\ InterfacesOf \in [ToSet(Ecus) -> Seq(Interface)]
  /\ \A e \in ToSet(Ecus) : \A i \in ToSet(InterfacesOf[e]) : EcuOf[DocOf[i]] = e
  /\ Internal \in [ToSet(Ecus) -> Seq(Component \X Component)]
  /\ \A e \in ToSet(Ecus) : \A conn \in ToSet(Internal[e]) : \A i \in {1, 2} : EcuOf[DocOf[conn[i]]] = e
  /\ External \in Seq(EcuPort \X EcuPort)
  /\ \A c, d \in Connection : \A i, j \in {1, 2} : c[i] = d[j] /\ c[i] \in SwitchPort => c = d /\ i = j

Version  == 1..MaxVersions
Instance == Component \X Version

\* The configured group, and the solicited-node group of an address.
Configured == <<"configured">>
Group      == {Configured} \cup {<<"solicited", i>> : i \in Interface}

VARIABLES
  versions,    \* what was loaded from each document since the last full load
  links,       \* _connected_component(s) of every instance
  groups,      \* multicast_groups of every ECU
  forwarding,  \* for every instance of a switch, the ports of each group
  report       \* the paths and the warnings of the latest root model

vars == <<versions, links, groups, forwarding, report>>

Live(ver, c)    == <<c, Len(ver[DocOf[c]])>>
Written(ver, x) == ver[DocOf[x[1]]][x[2]]

Member(ver, x) == CASE x[1] \in SwitchPort -> x[1] \in Written(ver, x)
                    [] x[1] \in Interface  -> "vlan" \in Written(ver, x)
                    [] OTHER               -> TRUE

-----------------------------------------------------------------------------
(* Connections.  A switch port knows one partner and forgets it when it is *)
(* bound again.  An ECU port collects partners inside its ECU by name, and *)
(* partners outside without looking; so does an interface.                 *)

\* Mutants: an interface looks for the name before it adds one; a switch port
\* that has a partner keeps it.
AttachByName(ln, x, y) ==
  CASE x[1] \in SwitchPort -> [ln EXCEPT ![x] = <<y>>]
    [] \E k \in DOMAIN ln[x] : ln[x][k][1] = y[1] -> ln
    [] OTHER -> [ln EXCEPT ![x] = Append(@, y)]

AttachOnce(ln, x, y) ==
  IF x[1] \in SwitchPort /\ ln[x] # << >> THEN ln ELSE [ln EXCEPT ![x] = Append(@, y)]

Attach(ln, x, y) ==
  CASE x[1] \in SwitchPort -> [ln EXCEPT ![x] = <<y>>]
    [] x[1] \in EcuPort /\ y[1] \notin EcuPort ->
         IF \E k \in DOMAIN ln[x] : ln[x][k][1] = y[1] THEN ln
         ELSE [ln EXCEPT ![x] = Append(@, y)]
    [] OTHER -> [ln EXCEPT ![x] = Append(@, y)]

Bind(ver, ln, conn) ==
  LET x == Live(ver, conn[1])
      y == Live(ver, conn[2])
  IN Attach(Attach(ln, x, y), y, x)

BindAll(ver, ln, conns) ==
  LET bound[k \in 0..Len(conns)] == IF k = 0 THEN ln ELSE Bind(ver, bound[k - 1], conns[k])
  IN bound[Len(conns)]

\* What is bound when the ECUs in es are built: their connections, then those
\* between ECUs.
Rebound(es) ==
  FlattenSeq([k \in DOMAIN Ecus |-> IF Ecus[k] \in es THEN Internal[Ecus[k]] ELSE << >>]) \o External

-----------------------------------------------------------------------------
(* Memberships.                                                            *)

Membr(g, mode, x, sol) == [group |-> g, mode |-> mode, iface |-> x, solicited |-> sol]

Having(ver, e, what) ==
  FlattenSeq([k \in DOMAIN InterfacesOf[e] |->
    LET x == Live(ver, InterfacesOf[e][k])
    IN IF {"vlan", what} \subseteq Written(ver, x) THEN <<x>> ELSE << >>])

\* From the multicast sockets and the virtual interfaces of an ECU.
EcuMemberships(ver, e) ==
  LET tx == Having(ver, e, "tx")
      rx == Having(ver, e, "rx")
  IN [k \in DOMAIN tx |-> Membr(Configured, "tx", tx[k], FALSE)]
     \o [k \in DOMAIN rx |-> Membr(Configured, "rx", rx[k], FALSE)]

\* Mutant: a rebuilt ECU is given the memberships of the old one.
OwnMembershipsHanded(ver, es, gr) ==
  [e \in DOMAIN gr |-> IF e \in es THEN gr[e] \o EcuMemberships(ver, e) ELSE gr[e]]

OwnMemberships(ver, es, gr) ==
  [e \in DOMAIN gr |-> IF e \in es THEN EcuMemberships(ver, e) ELSE gr[e]]

\* The last element of a sequence, as a sequence: a dictionary with one entry
\* for the ECU keeps the last group that was put in.
LastOnly(s) == IF s = << >> THEN << >> ELSE <<Last(s)>>

SolicitedRx(ver, e) ==
  LET v6 == Having(ver, e, "v6")
  IN LastOnly([k \in DOMAIN v6 |-> Membr(<<"solicited", v6[k][1]>>, "rx", v6[k], TRUE)])

\* The interfaces of v6 that send to the group of m: all but the one it is of.
Others(v6, m) == {n \in DOMAIN v6 : v6[n][1] # m.iface[1]}

\* For each solicited-node membership in ms, the interfaces that send to its
\* group: what is put in last is for the last membership that any sends to.
SolicitedTx(ver, e, ms) ==
  LET v6    == Having(ver, e, "v6")
      heard == {k \in DOMAIN ms : ms[k].solicited /\ Others(v6, ms[k]) # {}}
      m     == ms[Max(heard)]
  IN IF heard = {} THEN << >> ELSE <<Membr(m.group, "tx", v6[Max(Others(v6, m))], TRUE)>>

AllMemberships(gr) == FlattenSeq([k \in DOMAIN Ecus |-> gr[Ecus[k]]])

WithSolicited(ver, gr) ==
  LET rx == [e \in DOMAIN gr |-> gr[e] \o SolicitedRx(ver, e)]
      ms == AllMemberships(rx)
  IN [e \in DOMAIN gr |-> rx[e] \o SolicitedTx(ver, e, ms)]

-----------------------------------------------------------------------------
(* compute_path.  Components are compared by name, never by instance.      *)

Named(xs) == {x[1] : x \in xs}

\* Mutant: the VLAN is not looked at.
UsableAnyVlan(ver, x, seen) == x[1] \notin Named(seen)

Usable(ver, x, seen) == Member(ver, x) /\ x[1] \notin Named(seen)

Neighbours(ver, ln, x) ==
  ToSet(ln[x]) \cup
  (IF x[1] \in SwitchPort THEN {<<p, x[2]>> : p \in Written(ver, x)} ELSE {})

\* The first round looks at what it has just added, the later ones do not.
FirstRound(ver, ln, x) ==
  LET added(k) == {ln[x][j] : j \in {j \in 1..(k - 1) : Member(ver, ln[x][j])}}
  IN {ln[x][k] : k \in {k \in DOMAIN ln[x] : Usable(ver, ln[x][k], {x} \cup added(k))}}

Path(ver, ln, x) ==
  LET walk[k \in 0..Cardinality(Component)] ==
        IF k = 0 THEN [done |-> {x}, new |-> FirstRound(ver, ln, x)]
        ELSE LET w    == walk[k - 1]
                 seen == w.done \cup w.new
             IN [done |-> seen,
                 new  |-> {y \in UNION {Neighbours(ver, ln, z) : z \in w.new} :
                             Usable(ver, y, seen)}]
  IN walk[Cardinality(Component)].done

-----------------------------------------------------------------------------
(* What the root model finds.                                              *)

Sent(ms) == {m.group : m \in {m \in ToSet(ms) : m.mode = "tx"}}

\* The path of a group starts at the first interface that sends to it.
Paths(ver, ln, gr) ==
  LET ms == AllMemberships(gr)
  IN [g \in Sent(ms) |->
        Path(ver, ln, ms[Min({k \in DOMAIN ms : ms[k].mode = "tx" /\ ms[k].group = g})].iface)]

MulticastWarnings(gr, paths) ==
  LET ms == ToSet(AllMemberships(gr))
  IN {<<"unreached", m.mode, m.group, m.iface[1]>> :
        m \in {m \in ms : m.group \in DOMAIN paths /\ m.iface[1] \notin Named(paths[m.group])}}
     \cup {<<"no sender", m.group>> :
        m \in {m \in ms : m.mode = "rx" /\ m.group \notin DOMAIN paths}}

ConnectionWarnings(ver) ==
  {<<"roles", conn>> : conn \in {conn \in ToSet(External) :
     Written(ver, Live(ver, conn[1])) = Written(ver, Live(ver, conn[2]))}}

UnconnectedWarnings(ver, ln) ==
  {<<"unconnected", p>> : p \in {p \in EcuPort :
     \A k \in DOMAIN ln[Live(ver, p)] : ln[Live(ver, p)][k][1] \notin EcuPort}}

\* load_switch_multicast: every switch port of a path is entered at its switch.
Forward(fw, paths) ==
  [s \in DOMAIN fw |-> [g \in Group |->
     fw[s][g] \cup {p \in SwitchPort : /\ g \in DOMAIN paths
                                       /\ DocOf[p] = s[1]
                                       /\ <<p, s[2]>> \in paths[g]}]]

-----------------------------------------------------------------------------
(* Building the model: the ECUs in es anew, the others as they are.        *)

Build(ver, es, ln, gr, fw) ==
  LET ln1   == BindAll(ver, ln, Rebound(es))
      gr1   == WithSolicited(ver, OwnMemberships(ver, es, gr))
      paths == Paths(ver, ln1, gr1)
  IN [links |-> ln1, groups |-> gr1, forwarding |-> Forward(fw, paths),
      report |-> [paths    |-> paths,
                  warnings |-> MulticastWarnings(gr1, paths) \cup ConnectionWarnings(ver)
                               \cup UnconnectedWarnings(ver, ln1)]]

NoLinks      == [x \in Instance |-> << >>]
NoGroups     == [e \in ToSet(Ecus) |-> << >>]
NoForwarding == [s \in Switch \X Version |-> [g \in Group |-> {}]]

\* load_workspace: nothing is there before.
Loaded(ver) == Build(ver, ToSet(Ecus), NoLinks, NoGroups, NoForwarding)

Become(m) ==
  /\ links' = m.links
  /\ groups' = m.groups
  /\ forwarding' = m.forwarding
  /\ report' = m.report

Init ==
  /\ versions \in [Document -> {<<v>> : v \in UNION {Offered[d] : d \in Document}}]
  /\ \A d \in Document : versions[d][1] \in Offered[d]
  /\ LET m == Loaded(versions)
     IN links = m.links /\ groups = m.groups /\ forwarding = m.forwarding /\ report = m.report

\* update_document of a document that is saved with the setting v: its own
\* instances, then its ECU, then the root model.
UpdateDocument(d, v) ==
  LET ver == [versions EXCEPT ![d] = Append(@, v)]
  IN /\ Len(versions[d]) < MaxVersions
     /\ versions' = ver
     /\ Become(Build(ver, {EcuOf[d]}, links, groups, forwarding))

\* load_workspace once more: new instances of everything, and nothing in the
\* model leads to the old ones.
Reload ==
  LET ver == [d \in Document |-> <<Last(versions[d])>>]
  IN /\ versions' = ver
     /\ Become(Loaded(ver))

Next == Reload \/ \E d \in Document : \E v \in Offered[d] : UpdateDocument(d, v)

Spec == Init /\ [][Next]_vars

-----------------------------------------------------------------------------
(* Properties.                                                             *)

\* What a full load of the same documents would report.
Fresh == Loaded(versions).report

Covers(r, f) ==
  /\ f.warnings \subseteq r.warnings
  /\ DOMAIN f.paths \subseteq DOMAIN r.paths
  /\ \A g \in DOMAIN f.paths : Named(r.paths[g]) = Named(f.paths[g])

\* However documents are replaced, the components in the model that are joined
\* by an internal connection find each other: a switch port has its partner of
\* now, and an interface has it among its partners.  (An ECU port need not.)
PartnersFound ==
  \A e \in ToSet(Ecus) : \A k \in DOMAIN Internal[e] : \A i \in {1, 2} :
    LET x == Live(versions, Internal[e][k][i])
        y == Live(versions, Internal[e][k][3 - i])
    IN x[1] \notin EcuPort =>
         /\ y \in ToSet(links[x])
         /\ x[1] \in SwitchPort => links[x] = <<y>>

\* Running the validators again on instances that are still in the model may
\* repeat a membership; it loses none that a full load would find, and every
\* membership is one of an interface that is in the model.
MembershipsKept ==
  /\ ToSet(AllMemberships(WithSolicited(versions, OwnMemberships(versions, ToSet(Ecus), NoGroups))))
       \subseteq ToSet(AllMemberships(groups))
  /\ \A m \in ToSet(AllMemberships(groups)) : m.iface = Live(versions, m.iface[1])

\* The components whose partners are kept in a list that an update does not
\* clear: those next to an ECU port or to an interface.
KeptByPartner ==
  {c \in Component : \E e \in ToSet(Ecus) : \E k \in DOMAIN Internal[e] : \E i \in {1, 2} :
     Internal[e][k][i] = c /\ Internal[e][k][3 - i] \notin SwitchPort}

\* Since the last full load.
LoadedAgain(d) == Len(versions[d]) > 1

ChangedSinceLoad(d) == \E n \in DOMAIN versions[d] : versions[d][n] # Last(versions[d])

\* Documents are only saved again as they are, or none is reloaded whose
\* components an ECU port or an interface lists as a partner.
StaleUnseen ==
  \/ \A d \in Document : ~ChangedSinceLoad(d)
  \/ \A c \in KeptByPartner : ~LoadedAgain(DocOf[c])

\* A warning about a solicited-node group.
OnSolicited(w) ==
  \E g \in Group \ {Configured} : w = <<"no sender", g>> \/ \E mode \in {"tx", "rx"}, i \in Interface :
    w = <<"unreached", mode, g, i>>

\* A partial reload then reports every path of a full load, that of the
\* configured group as it is, and every warning but those on solicited-node
\* groups.  (It may report more, and a path of such a group may start at another
\* sender: an ECU that is not rebuilt keeps its memberships in the groups of
\* addresses that are gone, or that it has not been sending to last.)
ReportCurrent ==
  LET fresh == Fresh IN
  StaleUnseen =>
    /\ {w \in fresh.warnings : ~OnSolicited(w)} \subseteq report.warnings
    /\ DOMAIN fresh.paths \subseteq DOMAIN report.paths
    /\ Configured \in DOMAIN fresh.paths => Named(report.paths[Configured]) = Named(fresh.paths[Configured])

\* The components that frames of the VLAN reach from x, defined from the
\* connections and the VLAN alone.
Adjacent(a, b) ==
  \/ \E e \in ToSet(Ecus) : {<<a, b>>, <<b, a>>} \cap ToSet(Internal[e]) # {}
  \/ {<<a, b>>, <<b, a>>} \cap ToSet(External) # {}
  \/ {a, b} \subseteq SwitchPort /\ DocOf[a] = DocOf[b]

InVlan == {c \in Component : Member(versions, Live(versions, c))}

Reachable(c) ==
  LET reach[k \in 0..Cardinality(Component)] ==
        IF k = 0 THEN {c}
        ELSE LET r == reach[k - 1]
             IN r \cup {b \in InVlan : \E a \in r : Adjacent(a, b)}
  IN reach[Cardinality(Component)]

\* Under the same condition the path of a group holds exactly what one of its
\* senders can reach; after a full load the switches forward the group to just
\* those of their ports.
JustLoaded == \A d \in Document : ~LoadedAgain(d)

PathsReach ==
  /\ StaleUnseen =>
       \A g \in DOMAIN report.paths :
         \E m \in ToSet(AllMemberships(groups)) :
           /\ m.group = g /\ m.mode = "tx"
           /\ Named(report.paths[g]) = Reachable(m.iface[1])
  /\ JustLoaded =>
       \A d \in Switch : \A g \in Group :
         forwarding[<<d, Len(versions[d])>>][g] =
           {p \in SwitchPort : DocOf[p] = d /\ g \in DOMAIN report.paths
                                           /\ p \in Named(report.paths[g])}

\* Updating a document keeps the references between documents right without a
\* full load: what update_document promises.
ReportAlwaysCurrent == Covers(report, Fresh)

=============================================================================
