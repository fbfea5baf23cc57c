--------------------------- MODULE RuleDocuments ---------------------------
(***************************************************************************)
(* Documents, written item by item, as the rule modules check them: after  *)
(* every item the properties of the kind are looked at.  The first item of *)
(* a document, its head, is chosen from a list of its own.  In documents   *)
(* that are sets, items are written in one order only.                     *)
(***************************************************************************)
EXTENDS Wiring, Switching, Interfaces, Payload, Encodings, StateManagement, SomeIp,
        Forwarding, Projection, Datatypes, ModelGraph, Saving, TLC

CONSTANT Kinds   \* the kinds of documents that are written

VARIABLES kind, items

vars == <<kind, items>>

Written == Tail(items)

Write(k, heads, menu, max) ==
  /\ kind = k
  /\ Len(items) <= max
  /\ \E x \in IF items = << >> THEN heads ELSE menu : items' = Append(items, x)
  /\ UNCHANGED kind

\* A document that is a set: the items have the places of their list.
WriteSet(k, heads, list) ==
  /\ kind = k
  /\ IF items = << >>
     THEN \E x \in heads : items' = <<x>>
     ELSE \E n \in {n \in DOMAIN list : \A m \in ToSet(Written) : n > m} : items' = Append(items, n)
  /\ UNCHANGED kind

Chosen(list, tag) == {list[n].item : n \in {n \in ToSet(Written) : list[n].tag = tag}}

ItemsAt(list, ns, tag) ==
  FlattenSeq([k \in DOMAIN ns |-> LET x == list[ns[k]] IN IF x.tag = tag THEN <<x.item>> ELSE << >>])

ChosenSeq(list, tag) == ItemsAt(list, Written, tag)

T(tag, item) == [tag |-> tag, item |-> item]

-----------------------------------------------------------------------------
(* The connections of an ECU; the head says what one switch port is like.  *)

Phy(mode, speed) == [mode |-> mode, speed |-> speed, type |-> "rgmii"]
Plain(mii)       == Config(mii, 0, {}, {}, << >>, << >>)
Ptp(sync)        == [ports |-> <<[domain |-> 0, sync |-> sync]>>, cmlds |-> FALSE]

WiringHeads == {Plain({Phy("mac", 100)}), Plain({Phy("phy", 100)}), Plain({}),
                Config({Phy("mac", 100)}, 0, {}, {Ptp("transmitter")}, << >>, <<100001>>)}

WiringParts ==
  {Part("ecu_port", "e", "P", Config({}, 100, {}, {}, << >>, << >>)),
   Part("switch_port", "s", "a", Plain({Phy("mac", 100)})),
   Part("switch_port", "s", "b", items[1]),
   Part("switch_port", "t", "b", Plain({Phy("phy", 100)})),
   Part("interface", "c", "i", Config({Phy("phy", 100)}, 0, {}, {Ptp("receiver")}, <<60, 40>>, << >>)),
   Part("interface", "d", "i", Plain({Phy("phy", 100)}))}

ConnectionMenu ==
  {<<End("ecu_port", Unsaid, "P"), End("switch_port", "s", "a")>>,
   <<End("ecu_port", Unsaid, "P"), End("interface", "c", "i")>>,
   <<End("ecu_port", Unsaid, "P"), End("interface", "d", "i")>>,
   <<End("switch_port", "s", "b"), End("interface", "c", "i")>>,
   <<End("switch_port", Unsaid, "b"), End("interface", "c", "i")>>,
   <<End("switch_port", Unsaid, "a"), End("interface", "c", "i")>>,
   <<End("switch_port", "s", "a"), End("switch_port", "t", "b")>>,
   <<End("switch_port", "t", "b"), End("switch_port", "s", "a")>>,
   <<End("switch_port", "s", "b"), End("switch_port", "s", "b")>>}

WriteConnection == Write("wiring", WiringHeads, ConnectionMenu, 3)

\* Topology builds on connections that both of their ends remember (Wiring).
ConnectionsKept == kind = "wiring" /\ items # << >> => EndsKnowEachOther(WiringParts, Written)

-----------------------------------------------------------------------------
(* The rules of a switch; the head is the traffic classes of a port.       *)

ClassOf(mechanism, ipvs) == [prio |-> 0, pcps |-> <<0>>, ipvs |-> ipvs, mechanism |-> mechanism]

SwitchHeads == {<< >>, <<ClassOf("cbs", << >>)>>, <<ClassOf("ats", <<3>>)>>}

SwitchPortOf(name, n, classes) ==
  [name |-> name, silicon |-> n, classes |-> classes,
   streams |-> <<[filters |-> <<[vlans |-> <<1>>, pcps |-> <<7>>, ports |-> <<80>>]>>,
                  policer |-> {[type |-> "double_rate_three_color", cir |-> 1, cbs |-> 1, eir |-> 1, ebs |-> 1]},
                  ipv |-> {3}, ats |-> FALSE]>>]

Act(type, ports) == [type |-> type, ports |-> ports]

RuleOf(id, frames, state, smask, actions) ==
  [name |-> id, id |-> id, filter |-> frames = {}, frames |-> frames, state |-> state, smask |-> smask,
   ports |-> << >>, actions |-> actions]

RuleMenu ==
  {RuleOf(1, {}, {{0}}, {{0, 1}}, <<Act("drop", <<"p">>), Act("mirror", <<"q">>)>>),
   RuleOf(1, {}, {}, {}, <<Act("drop", << >>), Act("mirror", << >>)>>),
   RuleOf(1, {FrameMask(0, 8, 8, 4)}, {{2}}, {{0, 1}}, <<Act("drop", <<"p">>)>>),
   RuleOf(2, {FrameMask(3, 8, 8, 4)}, {}, {}, <<Act("drop", <<"p">>), Act("force_egress", <<"p">>)>>),
   RuleOf(2, {FrameMask(3, 9, 9, 4)}, {{1}}, {}, <<Act("drop", <<"q">>), Act("remove_vlan", <<"q">>)>>),
   RuleOf(2, {FrameMask(2, 12, 12, 4)}, {}, {{1}}, <<Act("mirror", <<"r">>)>>),
   RuleOf(3, {FrameMask(1, 12, 12, 4)}, {{}}, {{1}}, <<Act("remove_vlan", << >>), Act("drop", <<"q">>)>>)}

WriteRule == Write("switch", SwitchHeads, RuleMenu, 3)

SwitchDoc ==
  [ports |-> <<SwitchPortOf("p", 1, items[1]), SwitchPortOf("q", 2, << >>)>>,
   vlans |-> <<[id |-> 1, ports |-> <<"p">>]>>,
   rules |-> Written]

\* The TCAM rules of an accepted switch (Switching).
RulesApply == kind = "switch" /\ items # << >> => RulesWork(SwitchDoc)

-----------------------------------------------------------------------------
(* The token buckets of an interface; the head is the speed of its link.   *)

ClassMenu == [parent : 0..2, rate : 1..3, ceil : 2..3]

WriteHtbClass == Write("htb", {0, 3}, {c \in ClassMenu : c.parent < Len(items)}, 4)

HtbDoc == [k \in DOMAIN Written |-> [id |-> k, prio |-> k, parent |-> Written[k].parent,
                                     rate |-> Written[k].rate, ceil |-> Written[k].ceil]]

\* The rates of a tree can be given all at once (Qos).
BucketsFit ==
  kind = "htb" /\ items # << >> => RatesCanBeGiven(HtbDoc, {Len(HtbDoc)}, items[1])

-----------------------------------------------------------------------------
(* The addresses and sockets of two interfaces of a controller.            *)

Ip4(ip)       == [family |-> 4, ip |-> ip]
Address(ip)   == [family |-> 4, ip |-> ip, prefix |-> 1]
Vi(name, v, ips) == [name |-> name, vlan |-> v, multicast |-> {}, addresses |-> [k \in DOMAIN ips |-> Address(ips[k])]]
SocketOn(ip, unicast) == [name |-> "socket", ip |-> Ip4(ip), unicast |-> unicast]
NodeOf(mac, vi)  == [name |-> "node", mac |-> mac, vis |-> <<vi>>, features |-> {"ptp_config"}]

InterfaceItems ==
  <<T("vi", Vi("v1", 1, <<1>>)), T("vi", Vi("v2", 2, <<2, 3>>)), T("vi", Vi("v3", 2, <<1>>)),
    T("vi", Vi("v4", 4096, <<3>>)),
    T("node", NodeOf("m1", Vi("n1", 1, <<4>>))), T("node", NodeOf("m1", Vi("n2", 1, <<5>>))),
    T("route", [gateway |-> Ip4(3), via |-> "v1"]), T("route", [gateway |-> Ip4(5), via |-> "v1"]),
    T("sockets", [vlan |-> 1, sockets |-> <<SocketOn(1, TRUE)>>]),
    T("sockets", [vlan |-> 2, sockets |-> <<SocketOn(4, TRUE)>>]),
    T("sockets", [vlan |-> 2, sockets |-> <<SocketOn(3, TRUE), SocketOn(9, FALSE)>>]),
    T("sockets", [vlan |-> 3, sockets |-> <<SocketOn(2, TRUE)>>])>>

InterfaceHeads == {{}, {"ptp_config"}}

WriteInterface == WriteSet("interface", InterfaceHeads, InterfaceItems)

InterfaceDoc ==
  [name |-> "i1", mac |-> {"m0"}, features |-> items[1], streams |-> {},
   vis |-> ChosenSeq(InterfaceItems, "vi"), nodes |-> ChosenSeq(InterfaceItems, "node"),
   routes |-> ChosenSeq(InterfaceItems, "route"), containers |-> ChosenSeq(InterfaceItems, "sockets")]

OtherInterface ==
  [name |-> "i2", mac |-> {"m2"}, features |-> {}, streams |-> {}, vis |-> <<Vi("w", 2, <<4>>)>>,
   nodes |-> << >>, routes |-> << >>, containers |-> << >>]

ControllerDoc == [name |-> "c", ifaces |-> <<InterfaceDoc, OtherInterface>>, others |-> 0, vports |-> {"i1"}]

\* The unicast sockets of an accepted ECU (Interfaces).
SocketsBound == kind = "interface" /\ items # << >> => SocketsReachable(ControllerDoc)

-----------------------------------------------------------------------------
(* Two standard PDUs and their places in a frame; the head is the place of *)
(* a signal group in the first.                                            *)

Standard(name, length, signals, groups) ==
  [type |-> "standard", name |-> name, length |-> length, signals |-> signals, groups |-> groups]

PayloadMenu ==
  {T("signal", Placed({at}, 4)) : at \in {0, 4, 6, 12}}
  \cup {T("pdu", [ref |-> "p", at |-> at]) : at \in {{}, {0}, {8}, {16}}}
  \cup {T("pdu", [ref |-> "q", at |-> at]) : at \in {{0}, {8}, {16}, {24}, {25}}}

PayloadHeads == {{}, {0}, {6}}

WritePayload == Write("payload", PayloadHeads, PayloadMenu, 3)

Tagged(tag) ==
  FlattenSeq([k \in DOMAIN Written |-> IF Written[k].tag = tag THEN <<Written[k].item>> ELSE << >>])

PayloadDoc ==
  LET g == [at |-> items[1], members |-> <<Placed({4}, 2), Placed({}, 3), Placed({0}, 2)>>]
  IN [pdus |-> <<Standard("p", 2, <<Placed({8}, 4)>> \o Tagged("signal"), <<g>>),
                 Standard("q", 1, <<Placed({0}, 4)>>, << >>)>>,
      containers |-> <<[name |-> "r", length |-> 16, idBits |-> 32, lengthBits |-> 32, contained |-> <<"p", "q">>]>>,
      cans |-> <<[name |-> "b", rate |-> 500, fd |-> FALSE, fdRate |-> {}, frames |->
                  <<[name |-> "f", type |-> "can", length |-> 4, id |-> 1, format |-> "standard_11bit",
                     remote |-> FALSE, pdus |-> Tagged("pdu")]>>]>>,
      lins |-> << >>]

-----------------------------------------------------------------------------
(* A multiplexed PDU; the head is its selector.                            *)

MuxPdus ==
  {Standard("m", 2, <<Placed({3}, 4)>>, << >>), Standard("m", 2, <<Placed({1}, 2)>>, << >>),
   Standard("m", 2, << >>, <<[at |-> {1}, members |-> <<Placed({2}, 2)>>]>>)}

StaticPdus ==
  {Standard("s", 2, <<Placed({1}, 4)>>, << >>), Standard("s", 2, <<Placed({8}, 4)>>, << >>),
   Standard("s", 2, << >>, <<[at |-> {1}, members |-> <<Placed({2}, 2)>>]>>)}

MuxMenu == {T("mux", g) : g \in [value : {0, 1, 3}, pdu : MuxPdus]} \cup {T("static", s) : s \in StaticPdus}

MuxHeads == {Placed({0}, 2), Placed({3}, 1), Placed({}, 2)}

WriteMux == Write("mux", MuxHeads, MuxMenu, 3)

MuxDoc == [name |-> "x", length |-> 2, selector |-> items[1], mux |-> Tagged("mux"),
           static |-> IF Tagged("static") = << >> THEN {} ELSE {Last(Tagged("static"))}]

\* The signals of accepted channels, and the selector of an accepted
\* multiplexed PDU (Payload).
SignalsApart ==
  /\ kind = "payload" /\ items # << >> => SignalsHaveOwnBits(PayloadDoc)
  /\ kind = "mux" /\ items # << >> => SelectorReadable(MuxDoc)

-----------------------------------------------------------------------------
(* A signal and its encoding; the head is the signal without the entries.  *)

SignalHeads ==
  {[type |-> t, bits |-> b, initial |-> i, encoding |-> e] :
     t \in {"uint8", "int8"}, b \in {3, 4, 9}, i \in {{}, {-8}, {-4}, {7}},
     e \in {"none", "text_table", "bitfield_text_table"}}

Entry(label, from, to) == [label |-> label, from |-> from, to |-> to]

EntryMenu == {Entry("x", 0, 0), Entry("y", 0, 3), Entry("z", 2, 5), Entry("n", -4, -1), Entry("w", 7, 8),
              Entry("x", 6, 6)}

Groups ==
  {[name |-> "A", mask |-> {0, 1}, states |-> <<Entry("x", 0, 1), Entry("y", 2, 3)>>],
   [name |-> "A", mask |-> {0, 1}, states |-> <<Entry("x", 0, 1), Entry("y", 1, 3)>>],
   [name |-> "B", mask |-> {2}, states |-> <<Entry("x", 0, 0), Entry("y", 4, 4)>>],
   [name |-> "C", mask |-> {1, 2}, states |-> <<Entry("x", 2, 2), Entry("y", 6, 6)>>],
   [name |-> "D", mask |-> {3}, states |-> <<Entry("x", 0, 8)>>]}

EncodingMenu(encoding) ==
  CASE encoding = "none"       -> {}
    [] encoding = "text_table" -> EntryMenu
    [] OTHER                   -> Groups

WriteSignal == Write("signal", SignalHeads, EncodingMenu(items[1].encoding), 2)

SignalDoc ==
  [type |-> items[1].type, bits |-> items[1].bits, factor |-> 1, lower |-> {}, upper |-> {},
   initial |-> items[1].initial, encoding |-> [type |-> items[1].encoding, items |-> Written]]

-----------------------------------------------------------------------------
(* Who takes part in a network management group; the head is the flags of  *)
(* its PDU and the cycles of its frame.                                    *)

Ref(role)   == [group |-> "g", role |-> role, bits |-> << >>]
Iface(ecu, bus, on, sends, receives) ==
  T("iface", [ecu |-> ecu, iface |-> [kind |-> on, bus |-> bus, master |-> ecu = "E", sends |-> sends, receives |-> receives]])

MemberItems ==
  <<T("ecu", [of |-> "E", ref |-> Ref("participant")]), T("ecu", [of |-> "F", ref |-> Ref("observer")]),
    T("controller", [of |-> "F", ref |-> Ref("participant")]),
    T("bus", [of |-> "can1", ref |-> Ref("participant")]), T("bus", [of |-> "lin1", ref |-> Ref("participant")]),
    T("send", [of |-> "E"]), T("receive", [of |-> "E"]), T("send", [of |-> "F"]), T("receive", [of |-> "F"]),
    Iface("E", "can1", "can", {1}, {}), Iface("F", "can1", "can", {}, {1}), Iface("F", "lin1", "lin", {}, {}),
    Iface("E", "lin1", "lin", {}, {})>>

WriteMember ==
  WriteSet("state", {[flags |-> {}, cycles |-> {}], [flags |-> {"E", "c", "lin1", "can1"}, cycles |-> {100}],
                    [flags |-> {}, cycles |-> {400}]}, MemberItems)

RefsOf(tag, of) == {i.ref : i \in {i \in Chosen(MemberItems, tag) : i.of = of}}

NmOf(tag, ecu) == {"nm" : i \in {i \in Chosen(MemberItems, tag) : i.of = ecu}}

EcuDoc(e) ==
  [name |-> e, memberships |-> RefsOf("ecu", e),
   controllers |-> {[name |-> "c", memberships |-> RefsOf("controller", e),
                     sends |-> NmOf("send", e), receives |-> NmOf("receive", e),
                     ifaces |-> {i.iface : i \in {i \in Chosen(MemberItems, "iface") : i.ecu = e}}]}]

StateDoc ==
  [groups   |-> {[name |-> "g", pdu |-> "nm", profile |-> "t"]},
   profiles |-> {[name |-> "t", cycle |-> 100, timeout |-> 300, burst |-> {<<2, 20, 50>>}]},
   pdus     |-> {[name |-> "nm", usage |-> "network_management", flags |-> items[1].flags, contained |-> {}]},
   buses    |-> {[kind |-> "can", name |-> "can1", rate |-> 1, memberships |-> RefsOf("bus", "can1"),
                  frames |-> {[id |-> 1, packed |-> {"nm"}, length |-> 6, cycles |-> items[1].cycles]}],
                 [kind |-> "lin", name |-> "lin1", rate |-> 9, frames |-> {}, memberships |-> RefsOf("bus", "lin1")]},
   ecus     |-> {EcuDoc("E"), EcuDoc("F")}]

\* Who takes part in a group of an accepted network (StateManagement).
MembersKnow == kind = "state" /\ items # << >> => MembersInformed(StateDoc)

-----------------------------------------------------------------------------
(* Services and their consumers; the head is the timing profiles.          *)

Element(of, name, id, e2e, timing) ==
  [kind |-> of, name |-> name, ids |-> {id}, notifies |-> TRUE, e2e |-> e2e, timing |-> timing]

Inline == Element("event", "z", 9, {<<"P1", 2>>}, {"nowhere"})

ServiceItems ==
  <<T("event 1", Element("event", "x", 1, {<<"P1", 1>>}, {"t"})), T("event 1", Element("event", "y", 2, {}, {"u"})),
    T("field 1", Element("field", "x", 3, {<<"P1", 2>>}, {"t"})),
    T("event 2", Element("event", "x", 1, {<<"P1", 1>>}, {"t"})), T("field 2", Element("field", "w", 1, {<<"P1", 2>>}, {})),
    T("group 1", [name |-> "g", entries |-> <<[by |-> "name", name |-> "x"]>>]),
    T("group 1", [name |-> "h", entries |-> <<[by |-> "name", name |-> "y"], [by |-> "element", element |-> Inline]>>]),
    T("group 2", [name |-> "g", entries |-> <<[by |-> "name", name |-> "w"]>>]),
    T("deployment", [role |-> "consumer", service |-> 1, major |-> 1, sd |-> "sd", groups |-> {"g"}]),
    T("deployment", [role |-> "consumer", service |-> 1, major |-> 1, sd |-> "sd", groups |-> {"g", "h"}]),
    T("deployment", [role |-> "provider", service |-> 2, major |-> 1, sd |-> "sd", multicast |-> {"m"}, tx |-> {"m"}])>>

ServiceHeads == {{<<"event", "t">>}, {<<"event", "t">>, <<"event", "u">>, <<"field", "t">>}}

WriteService == WriteSet("someip", ServiceHeads, ServiceItems)

ServiceOf(n, name, event, field, group) ==
  [name |-> name, id |-> n, major |-> 1, methods |-> << >>,
   events |-> ChosenSeq(ServiceItems, event), fields |-> ChosenSeq(ServiceItems, field),
   groups |-> ChosenSeq(ServiceItems, group)]

SomeIpDoc ==
  [services |-> <<ServiceOf(1, "service 1", "event 1", "field 1", "group 1"),
                 ServiceOf(2, "service 2", "event 2", "field 2", "group 2")>>,
   timings |-> items[1], sd |-> {"sd"},
   deployments |-> Chosen(ServiceItems, "deployment"), apps |-> {[name |-> "a", refs |-> {<<"service 1", 1>>}]},
   bound |-> {"a"}]

\* What a consumer of an accepted network gets (SomeIp).
ConsumersServed == kind = "someip" /\ items # << >> => SubscriptionsWork(SomeIpDoc)

-----------------------------------------------------------------------------
(* The values of an enumeration; the head is its base type.                *)

BaseTypes  == {[bits |-> 8, signed |-> b] : b \in BOOLEAN}
EnumValues == {-129, -128, -1, 0, 127, 128, 255, 256}

WriteEnumValue == Write("enum", BaseTypes, EnumValues, 3)

\* What the raw values of an accepted signal, and of an accepted enumeration,
\* read as (Encodings, SomeIp).
SignalsRead ==
  /\ kind = "signal" /\ items # << >> => EncodingsRead(SignalDoc)
  /\ kind = "enum" /\ items # << >> => EnumsReadBack(items[1], Written)

-----------------------------------------------------------------------------
(* Forwarders of two ECUs; the head is a frame of a second bus.            *)

ToCan(bus, id)       == [kind |-> "can", to |-> bus, id |-> id, extract |-> {}]
ToEth(socket, extract) == [kind |-> "eth", to |-> socket, id |-> 0, extract |-> extract]

PduForwarder(ecu, at, ref, egresses) ==
  T("fwd", [kind |-> "pdu", ecu |-> ecu, ctrl |-> "c" \o ecu, at |-> at, ref |-> ref, egresses |-> egresses])
CanForwarder(ecu, at, ref, egresses) ==
  T("fwd", [kind |-> "can", ecu |-> ecu, ctrl |-> "c" \o ecu, at |-> at, ref |-> ref, egresses |-> egresses])

ForwarderItems ==
  <<PduForwarder("E", "s1", "p", <<ToCan("b1", 1)>>), PduForwarder("E", "s1", "k", <<ToEth("s2", {"p"})>>),
    PduForwarder("E", "s2", "p", <<ToEth("s1", {})>>), PduForwarder("F", "s1", "p", <<ToCan("b2", 2)>>),
    CanForwarder("E", "b1", "x", <<ToCan("b2", 2)>>), CanForwarder("E", "b1", "x", <<ToEth("s1", {})>>),
    CanForwarder("E", "b2", "y", <<ToCan("b1", 1)>>), CanForwarder("F", "b1", "x", <<ToEth("s1", {})>>),
    CanForwarder("F", "b1", "x", <<ToEth("s2", {})>>), CanForwarder("F", "b2", "y", <<ToCan("b1", 1)>>),
    CanForwarder("F", "b1", "y", <<ToEth("s1", {})>>)>>

FrameOf(name, bus, id) == [name |-> name, bus |-> bus, id |-> id, length |-> 8, packed |-> <<"p">>]

ForwarderHeads == {FrameOf("y", "b2", 2), FrameOf("y", "b2", 1), FrameOf("x", "b2", 2)}

WriteForwarder == WriteSet("forwarding", ForwarderHeads, ForwarderItems)

SocketOf(ecu, name, group) ==
  [ecu |-> ecu, ctrl |-> "c" \o ecu, name |-> name, sends |-> {"p", "k"}, receives |-> {"p"}, group |-> group]
CanOf(ecu, bus, id) == [ecu |-> ecu, ctrl |-> "c" \o ecu, bus |-> bus, sends |-> {id}]

ForwardingDoc ==
  [pdus    |-> {[name |-> "p", length |-> 4, contained |-> {}], [name |-> "k", length |-> 8, contained |-> {<<"p">>}]},
   frames  |-> <<FrameOf("x", "b1", 1), items[1]>>,
   sockets |-> <<SocketOf("E", "s1", {"m"}), SocketOf("E", "s2", {}), SocketOf("F", "s1", {"m"})>>,
   ifaces  |-> <<CanOf("E", "b1", 1), CanOf("E", "b2", 2), CanOf("F", "b1", 1), CanOf("F", "b2", 2)>>,
   fwds    |-> ChosenSeq(ForwarderItems, "fwd")]

\* Forwarding ends in an accepted network whose forwarders the cycle search
\* can tell apart, on all buses and at the sockets of each ECU (Forwarding).
CyclesFound == kind = "forwarding" /\ items # << >> => ForwardingEndsIfApart(ForwardingDoc)

-----------------------------------------------------------------------------
(* ARXML files around a FLYNC element, the head; nodes come with the place *)
(* of their parent, the base being 1 and 2, two packages, and what is in   *)
(* them: a cluster, 3, and the methods of a service, 4 and 5.              *)

Number(n, int, written) == [number |-> {n}, word |-> "", int |-> int, written |-> written]
Num(n)        == Number(n, TRUE, "17")
Hex(n)        == Number(n, TRUE, "0x11")
Decimal(n)    == Number(n, FALSE, "17.0")
Word(w)       == [number |-> {}, word |-> w, int |-> FALSE, written |-> w]
Leaf(leaf, v) == [leaf |-> leaf, value |-> v]
Arx(parent, tag, name, leaves, refs) ==
  [parent |-> parent, tag |-> tag, name |-> name, leaves |-> leaves, refs |-> refs]
Package(name) == Arx(0, "AR-PACKAGE", <<name>>, {}, {})

To(path, dest)     == [path |-> path, absolute |-> Len(path) > 1, dest |-> dest, type |-> FALSE, rank |-> 1]
Type(rank, path)   == [path |-> path, absolute |-> Len(path) > 1, dest |-> "any", type |-> TRUE, rank |-> rank]

P == <<"P">>
Q == <<"Q">>

Base == <<Package("P"), Package("Q"), Arx(2, "CAN-CLUSTER", <<"net">>, {}, {}),
          Arx(1, "SERVICE-INTERFACE", <<"S">>, {}, {}), Arx(4, "METHODS", << >>, {}, {})>>

Id(v) == Leaf("IDENTIFIER", v)
Frame(length) == Leaf("FRAME-LENGTH", Num(length))

MappingNodes ==
  <<Arx(1, "CAN-FRAME", <<"f">>, {Id(Hex(17)), Frame(8)}, {}),
    Arx(6, "VARIANT", << >>, {Id(Num(18))}, {}),
    Arx(3, "CAN-FRAME-TRIGGERING", <<"f", "t">>, {Id(Num(17)), Frame(8)}, {To(<<P, <<"f">>>>, "CAN-FRAME")}),
    Arx(2, "CAN-FRAME", <<"f">>, {Id(Num(17)), Frame(8)}, {To(<<<<"f">>>>, "any")}),
    Arx(2, "MULTIPLEXED-I-PDU", <<"f">>, {Leaf("LENGTH", Num(8)), Leaf("HEADER-ID", Num(17))}, {}),
    Arx(1, "N-PDU", <<"n">>, {Leaf("LENGTH", Num(8)), Leaf("HEADER-ID-LONG-HEADER", Hex(17))}, {To(<<<<"f">>>>, "any")}),
    Arx(5, "CLIENT-SERVER-OPERATION", <<"f">>, {Leaf("METHOD-ID", Num(1))}, {}),
    Arx(4, "CLIENT-SERVER-OPERATION", <<"g">>, {Leaf("METHOD-IDENTIFIER", Num(1)), Leaf("METHOD-ID", Num(2))}, {}),
    Arx(1, "SOCKET-ADDRESS", <<"f">>, {Leaf("PORT-NUMBER", Num(80)), Leaf("PROTOCOL", Word("udp"))}, {To(<<<<"ep">>>>, "NETWORK-ENDPOINT")}),
    Arx(2, "SOCKET-ADDRESS", <<"s">>,
        {Leaf("PORT-NUMBER", Num(80)), Leaf("PROTOCOL", Word("udp")), Leaf("IPV-4-ADDRESS", Word("a"))}, {}),
    Arx(1, "NETWORK-ENDPOINT", <<"ep">>, {Leaf("IPV-4-ADDRESS", Word("a"))}, {}),
    Arx(2, "NETWORK-ENDPOINT", <<"ep">>, {Leaf("IPV-4-ADDRESS", Word("b"))}, {}),
    Arx(1, "MACHINE", <<"f">>, {}, {To(<<Q, <<"ep">>>>, "NETWORK-ENDPOINT")}),
    Arx(2, "ETHERNET-PHYSICAL-CHANNEL", <<"v">>, {Leaf("VLAN-IDENTIFIER", Decimal(17))}, {})>>

FlyncElement(category, name, context, properties) ==
  [category |-> category, name |-> name, context |-> context, properties |-> properties,
   socket |-> [vlan |-> Num(1)] @@ [ip |-> Word("a"), port |-> Num(80), protocol |-> Word("udp")]]

MappingHeads ==
  {FlyncElement("can_frame", <<"f">>, [network |-> <<"net">>], [can_id |-> Num(17), length |-> Num(8)]),
   FlyncElement("can_frame", <<"x">>, << >>, [can_id |-> Num(18), length |-> Num(8)]),
   FlyncElement("pdu", <<"n">>, << >>, [length |-> Num(8), pdu_id |-> Num(17)]),
   FlyncElement("someip_method", <<"f">>, << >>, [id |-> Num(1)]),
   FlyncElement("socket", <<"f">>, << >>, [port_no |-> Num(80), protocol |-> Word("udp"), endpoint_address |-> Word("a")]),
   FlyncElement("ecu", <<"f">>, << >>, << >>),
   FlyncElement("vlan", <<"w">>, << >>, [id |-> Num(17)])}

\* Nodes whose parents were not written are left out.
TreeOf(base, nodes) ==
  LET all     == base \o nodes
      written == DOMAIN base \cup {Len(base) + n : n \in ToSet(Written)}
  IN [i \in {i \in written : all[i].parent \in written \cup {0}} |-> all[i]]

WriteArxml == Len(items) <= 5 /\ WriteSet("mapping", MappingHeads, MappingNodes)

\* What a mapped row stands for (Mapping).
RowsHold == kind = "mapping" /\ items # << >> => MappedTruly(TreeOf(Base, MappingNodes), items[1])

\* The reverse mapping of what was mapped (Projection).
RowsComeBack == kind = "mapping" /\ items # << >> => ComesBack(TreeOf(Base, MappingNodes), items[1])

-----------------------------------------------------------------------------
(* ARXML types; the head is a parameter with its datatype.                 *)

RecordName == <<"r">>

TypeNodes ==
  <<Arx(1, "ARGUMENT-DATA-PROTOTYPE", <<"p">>, {}, {Type(1, <<P, RecordName>>)}),
    Arx(2, "ARGUMENT-DATA-PROTOTYPE", <<"p">>, {}, {Type(1, <<RecordName>>)}),
    Arx(1, "APPLICATION-RECORD-DATA-TYPE", RecordName, {}, {Type(1, <<<<"uint16">>>>), Type(2, <<<<"uint8">>>>)}),
    Arx(1, "APPLICATION-PRIMITIVE-DATA-TYPE", <<"uint8">>, {}, {}),
    Arx(1, "APPLICATION-PRIMITIVE-DATA-TYPE", <<"uint16">>, {}, {}),
    Arx(2, "IMPLEMENTATION-DATA-TYPE", <<"uint8">>, {}, {}),
    Arx(2, "APPLICATION-RECORD-DATA-TYPE", RecordName, {}, {Type(1, <<RecordName>>)}),
    Arx(2, "IMPLEMENTATION-DATA-TYPE", RecordName, {Leaf("CATEGORY", Word("STRUCTURE"))}, {Type(1, <<<<"list">>>>)}),
    Arx(2, "APPLICATION-ARRAY-DATA-TYPE", <<"list">>, {}, {Type(1, <<<<"uint8">>>>)})>>

Plainly(type)  == Datatype(type, << >>)
Struct(types)  == Datatype("struct", types)
Parameter(type) == [category |-> "datatype", name |-> <<"p">>, datatype |-> type]

TypeHeads ==
  {Parameter(t) : t \in {Plainly("uint8"), Struct(<<Plainly("uint16"), Plainly("uint8")>>), Struct(<<Plainly("uint16")>>),
                         Struct(<<Struct(<<Plainly("uint8")>>)>>), Struct(<<Datatype("array", <<Plainly("uint8")>>)>>)}}

WriteType == WriteSet("datatype", TypeHeads, TypeNodes)

\* The datatype of a mapped parameter (Datatypes).
DatatypesFound ==
  kind = "datatype" /\ items # << >> => TypesFound(TreeOf(SubSeq(Base, 1, 2), TypeNodes), items[1])

-----------------------------------------------------------------------------
(* The fields of the models under a root, the head.                        *)

Whole   == {"single_file", "ommit_root"}
Keyed   == {"single_file"}
Folder  == {"folder"}

ModelFields ==
  <<Field("Root", "bs", {"B"}, Folder, TRUE), Field("Root", "a", {"A", "C"}, {}, TRUE),
    Field("Root", "c", {"C"}, Whole, TRUE), Field("A", "c", {"C"}, {}, TRUE),
    Field("A", "kids", {"A"}, {}, TRUE), Field("B", "a", {"A"}, Keyed, TRUE),
    Field("B", "bs", {"B"}, {}, FALSE), Field("C", "b", {"B"}, {}, TRUE),
    Field("C", "d", {"D"}, Keyed, TRUE), Field("A", "d", {"D"}, {}, TRUE),
    Field("D", "c", {"A", "C"}, {}, TRUE), Field("D", "root", {"Root"}, {}, TRUE)>>

\* The models by name.
Places == [A |-> 1, B |-> 2, C |-> 3, D |-> 4, Root |-> 5]

SchemaDoc == {ModelFields[n] : n \in ToSet(Written)}

ModelHeads == {"Root", "B"}

WriteField == WriteSet("models", ModelHeads, ModelFields)

\* What the files of external fields are validated as (ModelGraph).
TypesRebuilt ==
  kind = "models" /\ items # << >> => FilesFound(SchemaDoc, items[1], Places)

-----------------------------------------------------------------------------
(* A workspace that is saved over the files of another one, the head.      *)

FileTypes ==
  LET folder(name, list, of, optional)      == External(name, name, "folder", list, of, optional)
      file(name, style, list, of, optional) == External(name, name, style, list, of, optional)
      plain(implied)                        == ModelType(implied, << >>)
  IN [Root |-> ModelType("none", <<folder("ecus", TRUE, "ECU", FALSE), folder("topology", FALSE, "Topology", FALSE),
                                   External("metadata", "system_metadata", "whole", FALSE, "Plain", FALSE)>>),
      Topology |-> ModelType("none", <<file("system_topology", "whole", FALSE, "Plain", FALSE)>>),
      ECU |-> ModelType("folder", <<file("ports", "named", TRUE, "Named", FALSE), folder("controllers", TRUE, "Controller", FALSE),
                                    folder("switches", TRUE, "Named", TRUE)>>),
      Controller |-> ModelType("folder", <<file("controller_metadata", "named", FALSE, "Plain", FALSE),
                                           folder("can_interfaces", TRUE, "CANInterface", TRUE),
                                           file("virtual_switch", "whole", FALSE, "Plain", TRUE)>>),
      CANInterface |-> plain("file"), Named |-> plain("none"), Plain |-> plain("none")]

\* The names of the items, sorted.
FileOrder == <<<<"a">>, <<"a", "b">>, <<"b">>, <<"c">>, <<"p">>>>

Small(type, name, own)       == Model(type, name, {<<fact, <<fact>>>> : fact \in own}, << >>)
Metadata                     == <<Small("Plain", << >>, {"author"})>>
ControllerOf(name, cans, vs) == Model("Controller", name, {}, <<Metadata, cans, vs>>)
EcuWith(name, ports, controllers, switches) == Model("ECU", name, {}, <<ports, controllers, switches>>)

FileItems ==
  <<T("ecu", EcuWith(<<"a", "b">>, <<Small("Named", <<"p">>, {})>>, <<ControllerOf(<<"b">>, << >>, << >>)>>, << >>)),
    T("port", Small("Named", <<"p">>, {})), T("port", Small("Named", <<"a", "b">>, {"mdi"})),
    T("controller", ControllerOf(<<"a", "b">>, << >>, Metadata)), T("can", Small("CANInterface", <<"a">>, {"bus"})),
    T("can", Small("CANInterface", <<"b">>, {"bus"})), T("can", Small("CANInterface", <<"c">>, {})),
    T("switch", Small("Named", <<"c">>, {"mdi"})), T("switch", Small("Named", <<"a">>, {"mdi"})),
    T("switch", Small("Named", <<"a", "b">>, {"mdi"})), T("meta", "author")>>

\* The workspace of some of the items; there is always one controller.
SavedModel(ns) ==
  LET of(tag)     == ItemsAt(FileItems, ns, tag)
      controllers == of("controller") \o <<ControllerOf(<<"b">>, of("can"), << >>)>>
  IN Model("Root", << >>, {},
       <<of("ecu") \o <<EcuWith(<<"b">>, of("port"), controllers, of("switch"))>>,
         <<Model("Topology", << >>, {}, <<Metadata>>)>>, IF of("meta") = << >> THEN << >> ELSE Metadata>>)

FileHeads == {<< >>, <<2, 5, 8, 11>>, <<1, 2, 3, 4>>}

WriteFiles == WriteSet("files", FileHeads, FileItems)

\* Saving a model and loading its files (Saving).
SavedLoads ==
  kind = "files" /\ items # << >> =>
    SavedComesBack(FileTypes, FileOrder, SavedModel(items[1]), SavedModel(Written))

-----------------------------------------------------------------------------

Init == kind \in Kinds /\ items = << >>

StartOver == items # << >> /\ items' = << >> /\ UNCHANGED kind

NextRule ==
  \/ WriteConnection \/ WriteRule \/ WriteHtbClass \/ WriteInterface
  \/ WritePayload \/ WriteMux \/ WriteSignal
  \/ WriteMember \/ WriteService \/ WriteEnumValue
  \/ WriteForwarder \/ WriteArxml \/ WriteType \/ WriteField \/ WriteFiles \/ StartOver

RuleSpec == Init /\ [][NextRule]_vars

=============================================================================
