------------------------------- MODULE Wiring -------------------------------
(***************************************************************************)
(* The internal topology of one ECU: how a connection finds its two ends,  *)
(* what binding leaves at them, and when the ECU is refused.               *)
(*                                                                         *)
(* A part is an ECU port, a switch port or a controller interface, owned   *)
(* by the ECU, a switch or a controller.  An optional configuration is a   *)
(* set of at most one record.                                              *)
(***************************************************************************)
EXTENDS Integers, Sequences, FiniteSets, SequencesExt

Part(kind, owner, name, cfg) == [kind |-> kind, owner |-> owner, name |-> name, cfg |-> cfg]

\* What compatibility looks at: the MII, MACsec and PTP configurations, the
\* speed of the MDI (0: none), the rates of the HTB classes of the compute
\* nodes and the idle slopes of the CBS traffic classes.
Config(mii, mdi, macsec, ptp, rates, slopes) ==
  [mii |-> mii, mdi |-> mdi, macsec |-> macsec, ptp |-> ptp, rates |-> rates, slopes |-> slopes]

\* An end of a connection names a part, and its owner where it says so.
Unsaid == "unsaid"
End(kind, owner, name) == [kind |-> kind, owner |-> owner, name |-> name]

Candidates(parts, end) ==
  {p \in parts : p.kind = end.kind /\ p.name = end.name /\ end.owner \in {Unsaid, p.owner}}

\* _find_switch_port, _find_controller_interface, resolve_ecu_port.  An owner
\* that does not exist, a name found twice and a name not found are errors.
Resolved(parts, end) == Cardinality(Candidates(parts, end)) = 1

The(parts, end) == CHOOSE p \in Candidates(parts, end) : TRUE

Ends(parts, conn) == <<The(parts, conn[1]), The(parts, conn[2])>>

-----------------------------------------------------------------------------
(* Compatibility of the two ends.                                          *)

\* Returns early when one side has no MII, so that this is never an error.
OptionalMii(x, y) ==
  \A m \in x.cfg.mii : \A n \in y.cfg.mii : m.mode # n.mode /\ m.speed = n.speed /\ m.type = n.type

CompulsoryMii(x, y) == x.cfg.mii # {} /\ y.cfg.mii # {} /\ OptionalMii(x, y)

SumOf(s) == FoldLeft(LAMBDA a, b : a + b, 0, s)

Speed(mii) == IF mii = {} THEN 0 ELSE (CHOOSE m \in mii : TRUE).speed

\* Only the compute nodes are added up, and not without a link speed.
Htb(x, speed) == speed = 0 \/ SumOf(x.cfg.rates) <= speed

IdleSlopes(x, speed) == x.cfg.slopes = << >> \/ (speed # 0 /\ SumOf(x.cfg.slopes) <= speed * 1000)

\* Again nothing is said when one side has no configuration.
Macsec(x, y) ==
  \A m \in x.cfg.macsec : \A n \in y.cfg.macsec : m.mka = n.mka /\ m.mode = n.mode

DomainsOf(ptp) == {ptp.ports[k].domain : k \in DOMAIN ptp.ports}

FirstOf(ptp, d) == ptp.ports[Min({k \in DOMAIN ptp.ports : ptp.ports[k].domain = d})]

GptpDomains(m, n) ==
  \A k \in DOMAIN m.ports :
    LET d == m.ports[k].domain
    IN d \in DomainsOf(n) /\ {m.ports[k].sync} \cap {FirstOf(n, d).sync} \subseteq {"none"}

Gptp(x, y) ==
  \A m \in x.cfg.ptp : \A n \in y.cfg.ptp :
    GptpDomains(m, n) /\ GptpDomains(n, m) /\ m.cmlds = n.cmlds

\* validate_compatibility of the five kinds of connections.
Compatible(x, y) ==
  CASE <<x.kind, y.kind>> = <<"ecu_port", "switch_port">> ->
         /\ OptionalMii(x, y)
         /\ x.cfg.mdi # 0 => IdleSlopes(y, x.cfg.mdi)
    [] <<x.kind, y.kind>> = <<"ecu_port", "interface">> ->
         OptionalMii(x, y) /\ Htb(y, x.cfg.mdi)
    [] <<x.kind, y.kind>> = <<"switch_port", "interface">> ->
         CompulsoryMii(x, y) /\ Htb(y, Speed(y.cfg.mii)) /\ Macsec(x, y) /\ Gptp(x, y)
    [] <<x.kind, y.kind>> = <<"switch_port", "switch_port">> ->
         CompulsoryMii(x, y) /\ Macsec(x, y) /\ Gptp(x, y)
    [] <<x.kind, y.kind>> = <<"interface", "interface">> ->
         /\ CompulsoryMii(x, y)
         /\ Htb(x, Speed(x.cfg.mii)) /\ Htb(y, Speed(y.cfg.mii))
         /\ Macsec(x, y) /\ Gptp(x, y)

-----------------------------------------------------------------------------
(* resolve_topology_connections.                                           *)

\* get_switch_port_refs: the switch ports among the ends.
SwitchPortRefs(parts, conn) ==
  LET ref(p) == IF p.kind = "switch_port" THEN <<p>> ELSE << >>
      e      == Ends(parts, conn)
  IN ref(e[1]) \o ref(e[2])

ToItself(parts, conn) ==
  LET refs == SwitchPortRefs(parts, conn) IN Len(refs) = 2 /\ refs[1] = refs[2]

AllRefs(parts, conns) == FlattenSeq([k \in DOMAIN conns |-> SwitchPortRefs(parts, conns[k])])

\* Mutant: only the first switch port of a connection is looked at.
UsedOnceFirst(parts, conns) ==
  IsInjective([k \in {k \in DOMAIN conns : SwitchPortRefs(parts, conns[k]) # << >>} |->
                 SwitchPortRefs(parts, conns[k])[1]])

UsedOnce(parts, conns) == IsInjective(AllRefs(parts, conns))

\* An ECU port has one speed on both sides; a switch port's traffic classes
\* fit its own MII already when it is read.
PartAccepted(p) ==
  /\ p.kind = "ecu_port" /\ p.cfg.mii # {} => Speed(p.cfg.mii) = p.cfg.mdi
  /\ p.kind = "switch_port" /\ p.cfg.mii # {} => IdleSlopes(p, Speed(p.cfg.mii))

WiringVerdict(parts, conns) ==
  CASE \E p \in parts : ~PartAccepted(p) -> "part"
    [] \E k \in DOMAIN conns : ~(Resolved(parts, conns[k][1]) /\ Resolved(parts, conns[k][2])) -> "unresolved"
    [] \E k \in DOMAIN conns : ToItself(parts, conns[k]) -> "self"
    [] ~UsedOnce(parts, conns) -> "used twice"
    [] \E k \in DOMAIN conns : LET e == Ends(parts, conns[k]) IN ~Compatible(e[1], e[2]) -> "incompatible"
    [] OTHER -> "accepted"

\* What bind finds at p, one connection after the other.
Met(parts, conns, p) ==
  FlattenSeq([k \in DOMAIN conns |->
    LET e == Ends(parts, conns[k])
    IN (IF e[1] = p THEN <<e[2]>> ELSE << >>) \o (IF e[2] = p THEN <<e[1]>> ELSE << >>)])

\* What it leaves: a switch port knows its last partner, an ECU port the first
\* of each name, an interface all of them.
Partners(parts, conns, p) ==
  LET met == Met(parts, conns, p)
  IN CASE p.kind = "switch_port" -> IF met = << >> THEN {} ELSE {Last(met)}
       [] p.kind = "ecu_port"    ->
            {met[k] : k \in {k \in DOMAIN met : \A j \in 1..(k - 1) : met[j].name # met[k].name}}
       [] OTHER                  -> ToSet(met)

\* validate_no_unconnected_components.
Unconnected(parts, conns) == {p \in parts : Partners(parts, conns, p) = {}}

\* What compute_path collects from a part, all of one VLAN: their partners, and
\* the other ports of a switch.
PathFrom(parts, conns, part) ==
  LET hops(p)  == Partners(parts, conns, p)
                    \cup {q \in parts : {p.kind, q.kind} = {"switch_port"} /\ q.owner = p.owner}
      path[n \in 0..Cardinality(parts)] ==
        IF n = 0 THEN {part} ELSE path[n - 1] \cup UNION {hops(p) : p \in path[n - 1]}
  IN path[Cardinality(parts)]

-----------------------------------------------------------------------------
(* Properties.                                                             *)

\* p has the part q among its partners, or p is an ECU port and has another of
\* that name.
Knows(parts, conns, p, q) ==
  \E r \in Partners(parts, conns, p) : r = q \/ (p.kind = "ecu_port" /\ r.name = q.name)

\* In an accepted ECU the two ends of every connection still know each other
\* when all connections are bound: no later connection has taken a switch port
\* away from an earlier one, which Topology builds on; and no part that a
\* connection ends at is warned about as unconnected.  What an ECU port knows
\* may be another part of the same name.
EndsKnowEachOther(parts, conns) ==
  WiringVerdict(parts, conns) = "accepted" =>
    \A k \in DOMAIN conns :
      LET e == Ends(parts, conns[k])
      IN /\ Knows(parts, conns, e[1], e[2]) /\ Knows(parts, conns, e[2], e[1])
         /\ {e[1], e[2]} \cap Unconnected(parts, conns) = {}

\* "collects every component reachable": what is on a path goes on to whatever
\* it is connected to.
PathsCollectAll(parts, conns) ==
  WiringVerdict(parts, conns) = "accepted" =>
    \A p \in parts : \A k \in DOMAIN conns :
      LET e    == Ends(parts, conns[k])
          path == PathFrom(parts, conns, p)
      IN p.kind = "interface" => (e[1] \in path <=> e[2] \in path)

=============================================================================
