----------------------------- MODULE RuleProofs -----------------------------
(***************************************************************************)
(* What accepted documents of any size have: the rules of a module, as     *)
(* they are checked one by one, add up to what its property says.          *)
(***************************************************************************)
EXTENDS RuleDocuments, SavingProofs, ListFacts, FiniteSetTheorems

-----------------------------------------------------------------------------
(* Connections (Wiring).                                                   *)

\* p is an end of the connection, and q is the other.
Meets(parts, conn, p, q) ==
  \/ The(parts, conn[1]) = p /\ The(parts, conn[2]) = q
  \/ The(parts, conn[2]) = p /\ The(parts, conn[1]) = q

LEMMA ResolvedIs ==
  ASSUME NEW parts, IsFiniteSet(parts), NEW end, Resolved(parts, end)
  PROVE  The(parts, end) \in parts
<1>1. IsFiniteSet(Candidates(parts, end))
  BY FS_Subset DEF Candidates
<1>2. Candidates(parts, end) # {}
  BY <1>1, FS_EmptySet DEF Resolved
<1>3. QED
  BY <1>2 DEF The, Candidates

LEMMA EndsAre ==
  ASSUME NEW parts, NEW conn
  PROVE  Ends(parts, conn)[1] = The(parts, conn[1]) /\ Ends(parts, conn)[2] = The(parts, conn[2])
BY DEF Ends

LEMMA PartnerPieces ==
  ASSUME NEW parts, NEW conn, NEW p, The(parts, conn[1]) \in parts, The(parts, conn[2]) \in parts,
         NEW piece,
         piece = (IF Ends(parts, conn)[1] = p THEN <<Ends(parts, conn)[2]>> ELSE << >>)
                 \o (IF Ends(parts, conn)[2] = p THEN <<Ends(parts, conn)[1]>> ELSE << >>)
  PROVE  piece \in Seq(parts) /\ \A q : q \in ToSet(piece) <=> Meets(parts, conn, p, q)
<1> DEFINE x == The(parts, conn[1])
           y == The(parts, conn[2])
           a == IF x = p THEN <<y>> ELSE << >>
           b == IF y = p THEN <<x>> ELSE << >>
<1>1. piece = a \o b
  BY EndsAre
<1>2. a \in Seq(parts) /\ \A q : q \in ToSet(a) <=> x = p /\ q = y
  BY DEF ToSet
<1>3. b \in Seq(parts) /\ \A q : q \in ToSet(b) <=> y = p /\ q = x
  BY DEF ToSet
<1> HIDE DEF a, b
<1>4. a \o b \in Seq(parts) /\ ToSet(a \o b) = ToSet(a) \cup ToSet(b)
  BY <1>2, <1>3, ConcatSet
<1>5. QED
  BY <1>1, <1>2, <1>3, <1>4 DEF Meets

LEMMA SwitchPortPieces ==
  ASSUME NEW parts, NEW conn, The(parts, conn[1]) \in parts, The(parts, conn[2]) \in parts
  PROVE  /\ SwitchPortRefs(parts, conn) \in Seq(parts)
         /\ \A p, q : Meets(parts, conn, p, q) /\ p.kind = "switch_port" => p \in ToSet(SwitchPortRefs(parts, conn))
<1> DEFINE x == The(parts, conn[1])
           y == The(parts, conn[2])
           a == IF x.kind = "switch_port" THEN <<x>> ELSE << >>
           b == IF y.kind = "switch_port" THEN <<y>> ELSE << >>
<1>1. SwitchPortRefs(parts, conn) = a \o b
  BY EndsAre DEF SwitchPortRefs
<1>2. a \in Seq(parts) /\ (x.kind = "switch_port" => x \in ToSet(a))
  BY DEF ToSet
<1>3. b \in Seq(parts) /\ (y.kind = "switch_port" => y \in ToSet(b))
  BY DEF ToSet
<1> HIDE DEF a, b
<1>4. a \o b \in Seq(parts) /\ ToSet(a \o b) = ToSet(a) \cup ToSet(b)
  BY <1>2, <1>3, ConcatSet
<1>5. QED
  BY <1>1, <1>2, <1>3, <1>4 DEF Meets

\* A switch port is an end of one connection only.
LEMMA OneConnection ==
  ASSUME NEW parts, NEW conns, NEW C, conns \in Seq(C),
         \A k \in DOMAIN conns : The(parts, conns[k][1]) \in parts /\ The(parts, conns[k][2]) \in parts,
         UsedOnce(parts, conns),
         NEW k \in DOMAIN conns, NEW l \in DOMAIN conns, NEW p, NEW q, NEW r,
         Meets(parts, conns[k], p, q), Meets(parts, conns[l], p, r), p.kind = "switch_port"
  PROVE  k = l
<1> DEFINE s == [n \in DOMAIN conns |-> SwitchPortRefs(parts, conns[n])]
<1>1. \A n \in DOMAIN conns : s[n] \in Seq(parts)
  BY SwitchPortPieces
<1>2. DOMAIN conns = 1..Len(conns) /\ Len(conns) \in Nat
  OBVIOUS
<1>3. s \in Seq(Seq(parts)) /\ Len(s) = Len(conns)
  BY <1>1, <1>2
<1>4. IsInjective(FlattenSeq(s))
  BY DEF UsedOnce, AllRefs
<1>5. p \in ToSet(s[k]) /\ p \in ToSet(s[l])
  BY SwitchPortPieces
<1> HIDE DEF s
<1>6. k \in 1..Len(s) /\ l \in 1..Len(s) /\ s[k] \in Seq(parts) /\ s[l] \in Seq(parts)
  BY <1>1, <1>2, <1>3
<1>7. PICK i \in 1..Len(s[k]) : s[k][i] = p
  BY <1>5, <1>6 DEF ToSet
<1>8. PICK j \in 1..Len(s[l]) : s[l][j] = p
  BY <1>5, <1>6 DEF ToSet
<1>9. s[k][i] = s[l][j]
  BY <1>7, <1>8
<1>10. QED
  BY <1>3, <1>4, <1>6, <1>9, FlattenApart

LEMMA LastIsMember ==
  ASSUME NEW S, NEW s \in Seq(S), s # << >>
  PROVE  Last(s) \in ToSet(s)
BY DEF Last, ToSet

\* Among the places where a sequence has a name there is a first one.
LEMMA FirstOfName ==
  ASSUME NEW S, NEW s \in Seq(S), NEW q \in ToSet(s)
  PROVE  \E k \in DOMAIN s : s[k].name = q.name /\ \A j \in 1..(k - 1) : s[j].name # s[k].name
<1> DEFINE at == {k \in DOMAIN s : s[k].name = q.name}
<1>1. DOMAIN s = 1..Len(s) /\ Len(s) \in Nat
  OBVIOUS
<1>2. at \subseteq Nat /\ at # {}
  BY <1>1 DEF ToSet
<1>3. PICK k \in at : \A m \in at : k <= m
  BY <1>2, LeastNat
<1>4. ASSUME NEW j \in 1..(k - 1) PROVE s[j].name # s[k].name
  <2>1. k \in 1..Len(s) /\ s[k].name = q.name
    BY <1>1, <1>3
  <2>2. j \in 1..Len(s) /\ ~(k <= j)
    BY <1>1, <1>4, <2>1
  <2>3. j \notin at
    BY <1>3, <2>2
  <2>4. QED
    BY <1>1, <2>1, <2>2, <2>3
<1>5. QED
  BY <1>3, <1>4

\* After all connections are bound the two ends of each know each other.
LEMMA EndsKnow ==
  ASSUME NEW parts, IsFiniteSet(parts), NEW C, NEW conns \in Seq(C),
         WiringVerdict(parts, conns) = "accepted",
         NEW k \in DOMAIN conns, NEW p, NEW q, Meets(parts, conns[k], p, q)
  PROVE  Knows(parts, conns, p, q)
<1>1. /\ \A n \in DOMAIN conns : Resolved(parts, conns[n][1]) /\ Resolved(parts, conns[n][2])
      /\ UsedOnce(parts, conns)
  BY DEF WiringVerdict
<1>2. \A n \in DOMAIN conns : The(parts, conns[n][1]) \in parts /\ The(parts, conns[n][2]) \in parts
  BY <1>1, ResolvedIs
<1> DEFINE piece(n) == (IF Ends(parts, conns[n])[1] = p THEN <<Ends(parts, conns[n])[2]>> ELSE << >>)
                       \o (IF Ends(parts, conns[n])[2] = p THEN <<Ends(parts, conns[n])[1]>> ELSE << >>)
           s == [n \in DOMAIN conns |-> piece(n)]
           met == FlattenSeq(s)
<1>3. \A n \in DOMAIN conns : s[n] \in Seq(parts) /\ \A r : r \in ToSet(s[n]) <=> Meets(parts, conns[n], p, r)
  <2>1. TAKE n \in DOMAIN conns
  <2>2. s[n] = piece(n)
    OBVIOUS
  <2>3. QED
    BY <1>2, <2>2, PartnerPieces
<1>4. DOMAIN conns = 1..Len(conns) /\ Len(conns) \in Nat
  OBVIOUS
<1>5. s \in Seq(Seq(parts)) /\ Len(s) = Len(conns)
  <2>1. \A n \in 1..Len(conns) : s[n] \in Seq(parts)
    BY <1>3, <1>4
  <2>2. s = [n \in 1..Len(conns) |-> s[n]]
    BY <1>4
  <2> HIDE DEF s
  <2>3. QED
    BY <1>4, <2>1, <2>2
<1>6. Met(parts, conns, p) = met
  BY DEF Met
<1> HIDE DEF s
<1>7. \A r : r \in ToSet(met) <=> \E n \in DOMAIN conns : Meets(parts, conns[n], p, r)
  BY <1>3, <1>4, <1>5, FlattenElements
<1>8. met \in Seq(parts)
  BY <1>5, FlattenPlaces
<1> HIDE DEF met
<1>9. q \in ToSet(met) /\ met # << >>
  <2>1. q \in ToSet(met)
    BY <1>7
  <2>2. \A r : r \notin ToSet(<< >>)
    BY DEF ToSet
  <2>3. QED
    BY <2>1, <2>2
<1>10. CASE p.kind = "switch_port"
  <2>1. Partners(parts, conns, p) = {Last(met)}
    BY <1>6, <1>9, <1>10 DEF Partners
  <2>2. Last(met) \in ToSet(met)
    BY <1>8, <1>9, LastIsMember
  <2>3. PICK n \in DOMAIN conns : Meets(parts, conns[n], p, Last(met))
    BY <1>7, <2>2
  <2>4. n = k
    BY <1>1, <1>2, <1>10, <2>3, OneConnection
  <2>5. Last(met) = q
    BY <2>3, <2>4 DEF Meets
  <2>6. QED
    BY <2>1, <2>5 DEF Knows
<1>11. CASE p.kind = "ecu_port"
  <2>1. PICK n \in DOMAIN met : met[n].name = q.name /\ \A j \in 1..(n - 1) : met[j].name # met[n].name
    BY <1>8, <1>9, FirstOfName
  <2>2. Partners(parts, conns, p) =
          {met[i] : i \in {i \in DOMAIN met : \A j \in 1..(i - 1) : met[j].name # met[i].name}}
    BY <1>6, <1>11 DEF Partners
  <2>3. met[n] \in Partners(parts, conns, p)
    BY <2>1, <2>2
  <2>4. QED
    BY <1>11, <2>1, <2>3 DEF Knows
<1>12. CASE p.kind \notin {"switch_port", "ecu_port"}
  <2>1. Partners(parts, conns, p) = ToSet(met)
    BY <1>6, <1>12 DEF Partners
  <2>2. QED
    BY <1>9, <2>1 DEF Knows
<1>13. QED
  BY <1>10, <1>11, <1>12

LEMMA WiringKeeps ==
  ASSUME NEW parts, IsFiniteSet(parts), NEW C, NEW conns \in Seq(C)
  PROVE  EndsKnowEachOther(parts, conns)
<1> SUFFICES ASSUME WiringVerdict(parts, conns) = "accepted", NEW k \in DOMAIN conns
             PROVE  LET e == Ends(parts, conns[k])
                    IN /\ Knows(parts, conns, e[1], e[2]) /\ Knows(parts, conns, e[2], e[1])
                       /\ {e[1], e[2]} \cap Unconnected(parts, conns) = {}
  BY DEF EndsKnowEachOther
<1> DEFINE x == The(parts, conns[k][1])
           y == The(parts, conns[k][2])
<1>1. Meets(parts, conns[k], x, y) /\ Meets(parts, conns[k], y, x)
  BY DEF Meets
<1>2. Knows(parts, conns, x, y) /\ Knows(parts, conns, y, x)
  BY <1>1, EndsKnow
<1>3. {x, y} \cap Unconnected(parts, conns) = {}
  BY <1>2 DEF Knows, Unconnected
<1>4. QED
  BY <1>2, <1>3, EndsAre

-----------------------------------------------------------------------------
(* TCAM rules (Switching).                                                 *)

LEMMA AtMostOne ==
  ASSUME NEW S, \A x, y \in S : x = y
  PROVE  Cardinality(S) <= 1
<1>1. CASE S = {}
  BY <1>1, FS_EmptySet
<1>2. CASE S # {}
  <2>1. PICK x \in S : TRUE
    BY <1>2
  <2>2. S = {x}
    BY <2>1
  <2>3. QED
    BY <2>2, FS_Singleton
<1>3. QED
  BY <1>1, <1>2

\* Rules on ports with names in Name.
Rule(Types, Name) ==
  [name : Int, id : Int, filter : BOOLEAN,
   frames : SUBSET [offset : Int, data : Int, mask : Int, window : Int],
   state : SUBSET SUBSET VehicleBits, smask : SUBSET SUBSET VehicleBits,
   ports : Seq(Name), actions : Seq([type : Types, ports : Seq(Name)])]

\* Of the exclusive actions that name their ports, one at most is for a port.
LEMMA OneActionAt ==
  ASSUME NEW Types, NEW Name, NEW r \in Rule(Types, Name), NEW names, Unique(PortsOf(r.actions, Exclusive)),
         \A k \in DOMAIN r.actions : r.actions[k].type \in Exclusive => r.actions[k].ports # << >>,
         NEW p
  PROVE  Cardinality(ActionsAt(FilledRule(r, names), p)) <= 1
<1> DEFINE acts == r.actions
           full == FilledRule(r, names).actions
           s == [k \in DOMAIN acts |-> IF acts[k].type \in Exclusive THEN acts[k].ports ELSE << >>]
<1>1. acts \in Seq([type : Types, ports : Seq(Name)]) /\ DOMAIN acts = 1..Len(acts) /\ Len(acts) \in Nat
  BY DEF Rule
<1>2. full = [k \in DOMAIN acts |-> [acts[k] EXCEPT !.ports = Filled(@, names)]]
  BY DEF FilledRule, Rule
<1>3. \A k \in DOMAIN acts : acts[k] \in [type : Types, ports : Seq(Name)] /\ acts[k] \in ToSet(acts)
  <2> HIDE DEF acts
  <2>1. TAKE k \in DOMAIN acts
  <2>2. acts[k] \in [type : Types, ports : Seq(Name)]
    BY <1>1, ElementIn
  <2>3. QED
    BY <2>2 DEF ToSet
<1>4. DOMAIN full = DOMAIN acts /\ \A k \in DOMAIN acts : full[k] = [acts[k] EXCEPT !.ports = Filled(@, names)]
  BY <1>2
<1>5. \A k \in DOMAIN acts : s[k] = IF acts[k].type \in Exclusive THEN acts[k].ports ELSE << >>
  OBVIOUS
<1>6. \A k \in DOMAIN acts : s[k] \in Seq(Name)
  BY <1>3, <1>5
<1>7. s \in Seq(Seq(Name)) /\ Len(s) = Len(acts)
  <2>1. s = [k \in 1..Len(acts) |-> s[k]]
    BY <1>1
  <2> HIDE DEF s, acts
  <2>2. QED
    BY <1>1, <1>6, <2>1, FunctionIsSeq
<1>8. IsInjective(FlattenSeq(s))
  BY DEF PortsOf, Unique
<1>9. \A k \in ActionsAt(FilledRule(r, names), p) : k \in DOMAIN acts /\ p \in ToSet(s[k])
  <2>1. TAKE k \in ActionsAt(FilledRule(r, names), p)
  <2>2. k \in DOMAIN full /\ full[k].type \in Exclusive /\ p \in ToSet(full[k].ports)
    BY DEF ActionsAt
  <2> HIDE DEF full, s, acts
  <2>3. k \in DOMAIN acts /\ full[k] = [acts[k] EXCEPT !.ports = Filled(@, names)]
    BY <1>4, <2>2
  <2>4. acts[k] \in [type : Types, ports : Seq(Name)] /\ acts[k] \in ToSet(acts)
    BY <1>3, <2>3
  <2>5. full[k].type = acts[k].type /\ full[k].ports = Filled(acts[k].ports, names)
    BY <2>3, <2>4
  <2>6. acts[k].ports # << >>
    BY <2>2, <2>3, <2>5 DEF acts
  <2>7. full[k].ports = acts[k].ports /\ s[k] = acts[k].ports
    BY <1>5, <2>2, <2>3, <2>5, <2>6 DEF Filled
  <2>8. QED
    BY <2>2, <2>3, <2>7
<1> HIDE DEF s, acts, full
<1>10. \A k, l \in ActionsAt(FilledRule(r, names), p) : k = l
  <2>1. TAKE k, l \in ActionsAt(FilledRule(r, names), p)
  <2>2. k \in 1..Len(s) /\ l \in 1..Len(s) /\ p \in ToSet(s[k]) /\ p \in ToSet(s[l])
    BY <1>1, <1>7, <1>9
  <2>3. s[k] \in Seq(Name) /\ s[l] \in Seq(Name)
    BY <1>7, <2>2
  <2>4. PICK i \in 1..Len(s[k]) : s[k][i] = p
    BY <2>2, <2>3 DEF ToSet
  <2>5. PICK j \in 1..Len(s[l]) : s[l][j] = p
    BY <2>2, <2>3 DEF ToSet
  <2>6. s[k][i] = s[l][j]
    BY <2>4, <2>5
  <2>7. QED
    BY <1>7, <1>8, <2>2, <2>6, FlattenApart
<1>11. QED
  BY <1>10, AtMostOne

LEMMA FilledTypes ==
  ASSUME NEW Types, NEW Name, NEW r \in Rule(Types, Name), NEW names, NEW p
  PROVE  \A k \in ActionsAt(FilledRule(r, names), p) : k \in DOMAIN r.actions /\ r.actions[k].type \in Exclusive
<1> DEFINE acts == r.actions
           full == FilledRule(r, names).actions
<1>1. acts \in Seq([type : Types, ports : Seq(Name)]) /\ DOMAIN acts = 1..Len(acts)
  BY DEF Rule
<1>2. full = [k \in DOMAIN acts |-> [acts[k] EXCEPT !.ports = Filled(@, names)]]
  BY DEF FilledRule, Rule
<1>3. SUFFICES ASSUME NEW k \in DOMAIN full, full[k].type \in Exclusive
               PROVE  k \in DOMAIN acts /\ acts[k].type \in Exclusive
  BY DEF ActionsAt
<1> HIDE DEF full, acts
<1>4. k \in DOMAIN acts /\ full[k] = [acts[k] EXCEPT !.ports = Filled(@, names)]
  BY <1>2
<1>5. acts[k] \in [type : Types, ports : Seq(Name)]
  BY <1>1, <1>4, ElementIn
<1>6. full[k].type = acts[k].type
  BY <1>4, <1>5
<1>7. QED
  BY <1>3, <1>4, <1>6

LEMMA ByteSpanCovers ==
  ASSUME NEW bits \in Int
  PROVE  ByteSpan(bits) \in Int /\ bits <= 8 * ByteSpan(bits)
BY DEF ByteSpan

LEMMA SwitchWorks ==
  ASSUME NEW Types, NEW Name, NEW s, s.rules \in Seq(Rule(Types, Name))
  PROVE  RulesWork(s)
<1> SUFFICES ASSUME SwitchAccepted(s), NEW r \in ToSet(s.rules)
             PROVE  /\ PortsNamed(r) => OneExclusive(s, r)
                    /\ \A b \in r.state : \E now \in SUBSET VehicleBits : now \cap StateMask(r) = b
                    /\ \A f \in r.frames : \A i \in 0..(f.data - 1) : f.offset * 8 + i < f.window * 8
  BY DEF RulesWork
<1>1. r \in Rule(Types, Name)
  BY MemberOfSeq
<1>2. RuleAccepted(r)
  BY DEF SwitchAccepted
<1>3. ASSUME PortsNamed(r), NEW p \in ToSet(Column(s.ports, "name"))
      PROVE  Cardinality(ActionsAt(FilledRule(r, Column(s.ports, "name")), p)) <= 1
  <2> DEFINE names == Column(s.ports, "name")
  <2>1. CASE \A k \in DOMAIN r.actions : r.actions[k].type \in Exclusive => r.actions[k].ports # << >>
    BY <1>1, <1>2, <2>1, OneActionAt DEF RuleAccepted
  <2>2. CASE \A k, l \in DOMAIN r.actions :
               r.actions[k].type \in Exclusive /\ r.actions[l].type \in Exclusive => k = l
    <3> HIDE DEF names
    <3>1. \A k \in ActionsAt(FilledRule(r, names), p) : k \in DOMAIN r.actions /\ r.actions[k].type \in Exclusive
      BY <1>1, FilledTypes
    <3>2. \A k, l \in ActionsAt(FilledRule(r, names), p) : k = l
      BY <2>2, <3>1
    <3>3. QED
      BY <3>2, AtMostOne DEF names
  <2>3. QED
    BY <1>3, <2>1, <2>2 DEF PortsNamed
<1>4. ASSUME NEW b \in r.state PROVE \E now \in SUBSET VehicleBits : now \cap StateMask(r) = b
  <2>1. b \in SUBSET VehicleBits
    BY <1>1 DEF Rule
  <2>2. b \subseteq StateMask(r)
    <3> DEFINE U == UNION r.state
    <3>1. r.state # {} /\ VehicleStateAccepted(r)
      BY <1>2 DEF RuleAccepted
    <3>2. U \ StateMask(r) = {}
      BY <3>1 DEF VehicleStateAccepted
    <3>3. \A z \in b : z \in U
      OBVIOUS
    <3> HIDE DEF U
    <3>4. QED
      BY <3>2, <3>3
  <2>3. b \cap StateMask(r) = b
    BY <2>2
  <2>4. QED
    BY <2>1, <2>3
<1>5. ASSUME NEW f \in r.frames, NEW i \in 0..(f.data - 1) PROVE f.offset * 8 + i < f.window * 8
  <2>1. f.offset \in Int /\ f.data \in Int /\ f.window \in Int
    BY <1>1 DEF Rule
  <2>2. f.offset + ByteSpan(f.data) <= f.window
    BY <1>2 DEF RuleAccepted, FrameMaskAccepted
  <2>3. ByteSpan(f.data) \in Int /\ f.data <= 8 * ByteSpan(f.data)
    BY <2>1, ByteSpanCovers
  <2>4. QED
    BY <2>1, <2>2, <2>3
<1>6. QED
  BY <1>3, <1>4, <1>5 DEF OneExclusive

-----------------------------------------------------------------------------
(* Sockets and addresses (Interfaces).                                     *)

\* A controller whose lists are lists.
Lists(c, Ifc, Node, V, Adr) ==
  /\ c.ifaces \in Seq(Ifc)
  /\ \A i \in Ifc : i.vis \in Seq(V) /\ i.nodes \in Seq(Node)
  /\ \A n \in Node : n.vis \in Seq(V)
  /\ \A v \in V : v.addresses \in Seq(Adr)

LEMMA KeptType ==
  ASSUME NEW V, NEW vis \in Seq(V)
  PROVE  Kept(vis) \in Seq(V)
<1> DEFINE s == [k \in DOMAIN vis |-> IF ValidVi(vis[k]) THEN <<vis[k]>> ELSE << >>]
<1>1. s = [k \in 1..Len(vis) |-> s[k]] /\ Len(vis) \in Nat /\ \A k \in 1..Len(vis) : s[k] \in Seq(V)
  OBVIOUS
<1>2. Kept(vis) = FlattenSeq(s)
  BY DEF Kept
<1> HIDE DEF s
<1>3. QED
  BY <1>1, <1>2, KeptOf

\* Without compute nodes the virtual interfaces are those of the interface.
LEMMA OwnVis ==
  ASSUME NEW V, NEW i, i.vis \in Seq(V), i.nodes = << >>
  PROVE  AllVis(i) = Kept(i.vis)
<1> DEFINE s == [k \in DOMAIN i.nodes |-> Kept(i.nodes[k].vis)]
<1>1. s = << >>
  OBVIOUS
<1>2. FlattenSeq(<< >>) = << >>
  <2> DEFINE e == << >>
  <2>1. Len(e) = 0
    OBVIOUS
  <2> HIDE DEF e
  <2>2. FlattenSeq(e) = << >>
    BY <2>1 DEF FlattenSeq
  <2>3. QED
    BY <2>2 DEF e
<1>3. Kept(i.vis) \in Seq(V)
  BY KeptType
<1>4. AllVis(i) = FlattenSeq(s) \o Kept(i.vis)
  BY DEF AllVis
<1> HIDE DEF s
<1>5. << >> \o Kept(i.vis) = Kept(i.vis)
  BY <1>3
<1>6. QED
  BY <1>1, <1>2, <1>4, <1>5

LEMMA AllVisType ==
  ASSUME NEW V, NEW Node, \A n \in Node : n.vis \in Seq(V), NEW i, i.vis \in Seq(V), i.nodes \in Seq(Node)
  PROVE  AllVis(i) \in Seq(V)
<1> DEFINE s == [k \in DOMAIN i.nodes |-> Kept(i.nodes[k].vis)]
<1>1. s = [k \in 1..Len(i.nodes) |-> s[k]] /\ Len(i.nodes) \in Nat
  OBVIOUS
<1>2. \A k \in 1..Len(i.nodes) : s[k] \in Seq(V)
  <2>1. TAKE k \in 1..Len(i.nodes)
  <2>2. i.nodes[k].vis \in Seq(V)
    BY ElementIn
  <2>3. QED
    BY <2>2, KeptType
<1> HIDE DEF s
<1>3. FlattenSeq(s) \in Seq(V)
  BY <1>1, <1>2, KeptOf
<1>4. Kept(i.vis) \in Seq(V)
  BY KeptType
<1>5. AllVis(i) = FlattenSeq(s) \o Kept(i.vis)
  BY DEF AllVis, s
<1>6. QED
  BY <1>3, <1>4, <1>5, ConcatSet

\* The addresses of one interface, in order.
IpLists(vis) == [m \in DOMAIN vis |-> LET a == vis[m].addresses IN [x \in DOMAIN a |-> IpOf(a[x])]]
IpsIn(vis)   == FlattenSeq(IpLists(vis))

AddressLists(V, Adr) == \A v \in V : v.addresses \in Seq(Adr)
Covers(Ip, Adr)      == \A a \in Adr : IpOf(a) \in Ip

\* The lists are those of the interfaces, one by one.
Listed(vis, s) ==
  /\ Len(s) = Len(vis)
  /\ \A m \in 1..Len(vis) : /\ Len(s[m]) = Len(vis[m].addresses)
                            /\ \A x \in 1..Len(s[m]) : s[m][x] = IpOf(vis[m].addresses[x])

LEMMA IpPieces ==
  ASSUME NEW V, NEW Adr, AddressLists(V, Adr), NEW vis \in Seq(V),
         NEW Ip, Covers(Ip, Adr)
  PROVE  IpLists(vis) \in Seq(Seq(Ip)) /\ Listed(vis, IpLists(vis))
<1> DEFINE s == IpLists(vis)
<1>1. s = [m \in 1..Len(vis) |-> s[m]] /\ Len(vis) \in Nat /\ DOMAIN vis = 1..Len(vis)
  BY DEF IpLists
<1>2. ASSUME NEW m \in 1..Len(vis)
      PROVE  /\ s[m] \in Seq(Ip) /\ Len(s[m]) = Len(vis[m].addresses)
             /\ \A x \in 1..Len(s[m]) : s[m][x] = IpOf(vis[m].addresses[x])
  <2> DEFINE a == vis[m].addresses
             t == [x \in DOMAIN a |-> IpOf(a[x])]
  <2>1. a \in Seq(Adr)
    BY ElementIn DEF AddressLists
  <2>2. s[m] = t
    BY <1>1 DEF IpLists
  <2> HIDE DEF a, s
  <2>3. t = [x \in 1..Len(a) |-> t[x]] /\ Len(a) \in Nat /\ DOMAIN a = 1..Len(a)
    BY <2>1
  <2>4. \A x \in 1..Len(a) : t[x] \in Ip /\ t[x] = IpOf(a[x])
    <3>1. TAKE x \in 1..Len(a)
    <3>2. a[x] \in Adr /\ t[x] = IpOf(a[x])
      BY <2>1, <2>3, ElementIn DEF Covers
    <3>3. QED
      BY <3>2 DEF Covers
  <2> HIDE DEF t
  <2>5. t \in Seq(Ip) /\ Len(t) = Len(a)
    BY <2>3, <2>4, FunctionIsSeq
  <2>6. QED
    BY <2>2, <2>4, <2>5 DEF a
<1>3. s \in Seq(Seq(Ip)) /\ Len(s) = Len(vis)
  <2>1. \A m \in 1..Len(vis) : s[m] \in Seq(Ip)
    BY <1>2
  <2> HIDE DEF s
  <2>2. QED
    BY <1>1, <2>1, FunctionIsSeq
<1>4. QED
  BY <1>2, <1>3 DEF Listed

LEMMA IpsInType ==
  ASSUME NEW V, NEW Adr, AddressLists(V, Adr), NEW vis \in Seq(V),
         NEW Ip, Covers(Ip, Adr)
  PROVE  IpsIn(vis) \in Seq(Ip)
<1>1. IpLists(vis) \in Seq(Seq(Ip))
  BY IpPieces
<1>2. QED
  BY <1>1, FlattenPlaces DEF IpsIn

HasAt(vis, m, x, ip) ==
  m \in 1..Len(vis) /\ x \in 1..Len(vis[m].addresses) /\ IpOf(vis[m].addresses[x]) = ip

\* An address that two virtual interfaces have is twice in the list.
LEMMA TwiceInside ==
  ASSUME NEW V, NEW Adr, AddressLists(V, Adr), NEW vis \in Seq(V),
         NEW m, NEW n, m < n, NEW x, NEW y, NEW ip, HasAt(vis, m, x, ip), HasAt(vis, n, y, ip)
  PROVE  InOrder(IpsIn(vis), ip, ip)
<1> DEFINE s  == IpLists(vis)
           Ip == {IpOf(a) : a \in Adr}
<1>1. Covers(Ip, Adr)
  BY DEF Covers
<1> HIDE DEF Ip
<1>2. s \in Seq(Seq(Ip)) /\ Listed(vis, s)
  BY <1>1, IpPieces
<1> HIDE DEF s
<1>3. /\ m \in 1..Len(s) /\ n \in 1..Len(s) /\ x \in 1..Len(s[m]) /\ y \in 1..Len(s[n])
      /\ s[m][x] = ip /\ s[n][y] = ip
  BY <1>2 DEF Listed, HasAt
<1>4. InOrder(FlattenSeq(s), s[m][x], s[n][y])
  <2>1. PlaceOf(s, m, x) /\ PlaceOf(s, n, y) /\ Before(m, x, n, y)
    BY <1>3 DEF PlaceOf, Before
  <2>2. QED
    BY <1>2, <2>1, FlattenOrder
<1>5. QED
  BY <1>3, <1>4 DEF IpsIn, s

LEMMA TwiceInController ==
  ASSUME NEW Ifc, NEW Node, NEW V, NEW Adr, NEW c, Lists(c, Ifc, Node, V, Adr),
         NEW j \in 1..Len(c.ifaces),
         NEW m, NEW n, m < n, NEW x, NEW y, NEW ip,
         HasAt(AllVis(c.ifaces[j]), m, x, ip), HasAt(AllVis(c.ifaces[j]), n, y, ip), ip.ip # 0
  PROVE  ip \in RepeatedIps(c)
<1> DEFINE Ip == {IpOf(a) : a \in Adr}
           s == [k \in DOMAIN c.ifaces |-> IpsIn(AllVis(c.ifaces[k]))]
           ips == FlattenSeq(s)
<1>1. RepeatedIps(c) = {ips[k] : k \in {k \in DOMAIN ips : ips[k].ip # 0 /\ \E l \in 1..(k - 1) : ips[l] = ips[k]}}
  BY DEF RepeatedIps, IpsIn, IpLists
<1>2. c.ifaces \in Seq(Ifc) /\ Len(c.ifaces) \in Nat /\ DOMAIN c.ifaces = 1..Len(c.ifaces)
  BY DEF Lists
<1>3. \A k \in 1..Len(c.ifaces) : AllVis(c.ifaces[k]) \in Seq(V)
  <2>1. TAKE k \in 1..Len(c.ifaces)
  <2>2. c.ifaces[k] \in Ifc
    BY <1>2, ElementIn
  <2>3. /\ c.ifaces[k].vis \in Seq(V) /\ c.ifaces[k].nodes \in Seq(Node)
        /\ \A d \in Node : d.vis \in Seq(V)
    BY <2>2 DEF Lists
  <2>4. QED
    BY <2>3, AllVisType
<1>4. AddressLists(V, Adr)
  BY DEF Lists, AddressLists
<1>5. \A k \in 1..Len(c.ifaces) : IpsIn(AllVis(c.ifaces[k])) \in Seq(Ip)
  <2>1. Covers(Ip, Adr)
    BY DEF Covers
  <2> HIDE DEF Ip
  <2>2. QED
    BY <1>3, <1>4, <2>1, IpsInType
<1>6. s \in Seq(Seq(Ip)) /\ Len(s) = Len(c.ifaces) /\ s[j] = IpsIn(AllVis(c.ifaces[j]))
  <2>1. s = [k \in 1..Len(c.ifaces) |-> s[k]] /\ \A k \in 1..Len(c.ifaces) : s[k] = IpsIn(AllVis(c.ifaces[k]))
    BY <1>2
  <2> HIDE DEF s, Ip
  <2>2. \A k \in 1..Len(c.ifaces) : s[k] \in Seq(Ip)
    BY <1>5, <2>1
  <2>3. QED
    BY <1>2, <2>1, <2>2, FunctionIsSeq
<1> HIDE DEF s, Ip
<1>7. PICK p, q \in 1..Len(s[j]) : p < q /\ s[j][p] = ip /\ s[j][q] = ip
  <2>1. AllVis(c.ifaces[j]) \in Seq(V)
    BY <1>3
  <2>2. InOrder(IpsIn(AllVis(c.ifaces[j])), ip, ip)
    BY <1>4, <2>1, TwiceInside
  <2>3. QED
    BY <1>6, <2>2 DEF InOrder
<1>8. InOrder(FlattenSeq(s), s[j][p], s[j][q])
  <2>1. PlaceOf(s, j, p) /\ PlaceOf(s, j, q) /\ Before(j, p, j, q)
    BY <1>6, <1>7 DEF PlaceOf, Before
  <2>2. QED
    BY <1>6, <2>1, FlattenOrder
<1>9. PICK u, w \in 1..Len(ips) : u < w /\ ips[u] = ip /\ ips[w] = ip
  BY <1>7, <1>8 DEF InOrder
<1>10. ips \in Seq(Ip)
  BY <1>6, FlattenPlaces
<1> HIDE DEF ips
<1>11. w \in DOMAIN ips /\ u \in 1..(w - 1)
  BY <1>9, <1>10
<1>12. ips[w].ip # 0
  BY <1>9
<1>13. w \in {k \in DOMAIN ips : ips[k].ip # 0 /\ \E l \in 1..(k - 1) : ips[l] = ips[k]}
  BY <1>9, <1>11, <1>12
<1>14. QED
  BY <1>1, <1>9, <1>13

LEMMA AttachedSome ==
  ASSUME NEW V, NEW Node, NEW i, i.vis \in Seq(V), i.nodes = << >>,
         NEW c, NEW k, k.ip \in AllIps(c, i)
  PROVE  Attached(i, k) # {}
<1> DEFINE K == Kept(i.vis)
<1>1. K \in Seq(V) /\ AllVis(i) = K
  BY KeptType, OwnVis
<1> HIDE DEF K
<1>2. PICK a \in AddressesOf(K) : IpOf(a) = k.ip
  BY <1>1 DEF AllIps
<1>3. PICK v \in ToSet(K) : a \in ToSet(v.addresses)
  <2> DEFINE U == {ToSet(v.addresses) : v \in ToSet(K)}
  <2>1. a \in UNION U
    BY DEF AddressesOf
  <2>2. \A u \in U : \E v \in ToSet(K) : u = ToSet(v.addresses)
    OBVIOUS
  <2> HIDE DEF U
  <2>3. QED
    BY <2>1, <2>2
<1>4. PICK n \in 1..Len(K) : K[n] = v
  BY <1>1, <1>3, IndexOf
<1>5. n \in DOMAIN K /\ a \in ToSet(K[n].addresses)
  BY <1>1, <1>3, <1>4
<1>6. n \in Attached(i, k)
  BY <1>2, <1>5 DEF Attached, K
<1>7. QED
  BY <1>6

LEMMA AttachedOnce ==
  ASSUME NEW Ifc, NEW Node, NEW V, NEW Adr, NEW c, Lists(c, Ifc, Node, V, Adr),
         RepeatedIps(c) = {}, NEW i \in ToSet(c.ifaces), i.nodes = << >>,
         NEW k, k.ip.ip # 0,
         NEW m \in Attached(i, k), NEW n \in Attached(i, k)
  PROVE  m = n
<1> DEFINE K == Kept(i.vis)
<1>1. PICK j \in 1..Len(c.ifaces) : c.ifaces[j] = i
  BY IndexOf DEF Lists
<1>2. i \in Ifc /\ i.vis \in Seq(V)
  BY <1>1, ElementIn DEF Lists
<1>3. K \in Seq(V) /\ AllVis(i) = K
  BY <1>2, KeptType, OwnVis
<1>4. ASSUME NEW p \in Attached(i, k)
      PROVE  p \in 1..Len(K) /\ \E x : HasAt(K, p, x, k.ip)
  <2>1. p \in DOMAIN K /\ \E a \in ToSet(K[p].addresses) : IpOf(a) = k.ip
    BY DEF Attached
  <2> HIDE DEF K
  <2>2. p \in 1..Len(K)
    BY <1>3, <2>1
  <2>3. PICK a \in ToSet(K[p].addresses) : IpOf(a) = k.ip
    BY <2>1
  <2>4. K[p].addresses \in Seq(Adr)
    BY <1>3, <2>2, ElementIn DEF Lists
  <2>5. PICK x \in 1..Len(K[p].addresses) : K[p].addresses[x] = a
    BY <2>4, IndexOf
  <2>6. HasAt(K, p, x, k.ip)
    BY <2>2, <2>3, <2>5 DEF HasAt
  <2>7. QED
    BY <2>2, <2>6
<1> HIDE DEF K
<1>5. ASSUME NEW p \in Attached(i, k), NEW q \in Attached(i, k), p < q PROVE FALSE
  <2>1. PICK x : HasAt(K, p, x, k.ip)
    BY <1>4
  <2>2. PICK y : HasAt(K, q, y, k.ip)
    BY <1>4
  <2>3. HasAt(AllVis(c.ifaces[j]), p, x, k.ip) /\ HasAt(AllVis(c.ifaces[j]), q, y, k.ip)
    BY <1>1, <1>3, <2>1, <2>2
  <2>4. k.ip \in RepeatedIps(c)
    BY <1>5, <2>3, TwiceInController
  <2>5. QED
    BY <2>4
<1>6. m \in Nat /\ n \in Nat
  BY <1>3, <1>4
<1>7. m < n \/ n < m \/ m = n
  BY <1>6
<1>8. QED
  BY <1>5, <1>7

LEMMA SocketsReach ==
  ASSUME NEW Ifc, NEW Node, NEW V, NEW Adr, NEW c, Lists(c, Ifc, Node, V, Adr)
  PROVE  SocketsReachable(c)
<1> SUFFICES ASSUME EcuAccepted(c), NEW i \in ToSet(c.ifaces), i.nodes = << >>,
                    NEW s \in ToSet(i.containers), NEW k \in ToSet(s.sockets), k.unicast
             PROVE  /\ Attached(i, k) # {}
                    /\ RepeatedIps(c) = {} /\ k.ip.ip # 0 => Cardinality(Attached(i, k)) = 1
                    /\ \E v \in ToSet(AllVis(i)) : v.vlan = s.vlan
  BY DEF SocketsReachable
<1>1. i \in Ifc /\ i.vis \in Seq(V)
  BY MemberOfSeq DEF Lists
<1>2. SocketsHaveAddress(c, i) /\ VlansConfigured(i)
  BY DEF EcuAccepted
<1>3. k \in SocketsOf(i)
  BY DEF SocketsOf
<1>4. Attached(i, k) # {}
  BY <1>1, <1>2, <1>3, AttachedSome DEF SocketsHaveAddress
<1>5. ASSUME RepeatedIps(c) = {}, k.ip.ip # 0 PROVE Cardinality(Attached(i, k)) = 1
  <2>1. \A m, n \in Attached(i, k) : m = n
    BY <1>5, AttachedOnce
  <2>2. PICK m \in Attached(i, k) : Attached(i, k) = {m}
    BY <1>4, <2>1
  <2>3. QED
    BY <2>2, FS_Singleton
<1>6. \E v \in ToSet(AllVis(i)) : v.vlan = s.vlan
  <2>1. s.vlan \in {v.vlan : v \in ToSet(Kept(i.vis))}
    BY <1>2 DEF VlansConfigured
  <2>2. AllVis(i) = Kept(i.vis)
    BY <1>1, OwnVis
  <2>3. QED
    BY <2>1, <2>2
<1>7. QED
  BY <1>4, <1>5, <1>6

-----------------------------------------------------------------------------
(* Where signals lie (Payload).                                            *)

Inst  == [at : SUBSET Nat, bits : Nat]
Group == [at : SUBSET Nat, members : Seq(Inst)]
Pair  == {r \in Nat \X Nat : r[1] <= r[2]}

RangeOf(x) == <<Start(x.at), Start(x.at) + x.bits>>

LEMMA RangeIsPair ==
  ASSUME NEW x \in Inst, x.at # {}
  PROVE  RangeOf(x) \in Pair /\ RangeOf(x)[1] = Start(x.at) /\ RangeOf(x)[2] = Start(x.at) + x.bits
         /\ Start(x.at) \in Nat /\ x.bits \in Nat
<1>1. x.at \subseteq Nat /\ x.bits \in Nat
  BY DEF Inst
<1>2. Start(x.at) \in Nat
  BY <1>1 DEF Start
<1>3. QED
  BY <1>1, <1>2 DEF RangeOf, Pair

LEMMA PairBits ==
  ASSUME NEW r \in Pair
  PROVE  Bits(r) \in SUBSET Nat /\ r[1] \in Nat /\ r[2] \in Nat /\ \A i : i \in Bits(r) <=> i \in Nat /\ r[1] <= i /\ i < r[2]
<1>1. r[1] \in Nat /\ r[2] \in Nat
  BY DEF Pair
<1>2. QED
  BY <1>1 DEF Bits

LEMMA ApartBits ==
  ASSUME NEW r \in Pair, NEW q \in Pair, r[1] >= q[2] \/ q[1] >= r[2]
  PROVE  Bits(r) \cap Bits(q) = {}
<1>1. SUFFICES ASSUME NEW i, i \in Bits(r), i \in Bits(q) PROVE FALSE
  OBVIOUS
<1>2. r[1] <= i /\ i < r[2] /\ q[1] <= i /\ i < q[2] /\ i \in Nat
  BY <1>1, PairBits
<1>3. r[1] \in Nat /\ r[2] \in Nat /\ q[1] \in Nat /\ q[2] \in Nat
  BY PairBits
<1>4. QED
  BY <1>2, <1>3

RangePieces(s) ==
  [k \in DOMAIN s |-> IF s[k].at = {} THEN << >> ELSE << <<Start(s[k].at), Start(s[k].at) + s[k].bits>> >>]

LEMMA RangePiecesAre ==
  ASSUME NEW s \in Seq(Inst)
  PROVE  /\ Ranges(s) = FlattenSeq(RangePieces(s))
         /\ RangePieces(s) \in Seq(Seq(Pair)) /\ Len(RangePieces(s)) = Len(s)
         /\ \A k \in 1..Len(s) : RangePieces(s)[k] = IF s[k].at = {} THEN << >> ELSE <<RangeOf(s[k])>>
<1> DEFINE t == RangePieces(s)
<1>1. t = [k \in 1..Len(s) |-> t[k]] /\ Len(s) \in Nat
  BY DEF RangePieces
<1>2. \A k \in 1..Len(s) : t[k] = IF s[k].at = {} THEN << >> ELSE <<RangeOf(s[k])>>
  BY DEF RangePieces, RangeOf
<1>3. Ranges(s) = FlattenSeq(t)
  BY DEF Ranges, RangePieces
<1> HIDE DEF t
<1>4. \A k \in 1..Len(s) : t[k] \in Seq(Pair)
  <2>1. TAKE k \in 1..Len(s)
  <2>2. s[k] \in Inst
    BY ElementIn
  <2>3. CASE s[k].at = {}
    <3>1. t[k] = << >>
      BY <1>2, <2>3
    <3>2. << >> \in Seq(Pair)
      OBVIOUS
    <3>3. QED
      BY <3>1, <3>2
  <2>4. CASE s[k].at # {}
    <3>1. t[k] = <<RangeOf(s[k])>> /\ RangeOf(s[k]) \in Pair
      BY <1>2, <2>2, <2>4, RangeIsPair
    <3>2. QED
      BY <3>1
  <2>5. QED
    BY <2>3, <2>4
<1>5. t \in Seq(Seq(Pair)) /\ Len(t) = Len(s)
  BY <1>1, <1>4, FunctionIsSeq
<1>6. QED
  BY <1>2, <1>3, <1>5 DEF t

LEMMA RangesAre ==
  ASSUME NEW s \in Seq(Inst)
  PROVE  /\ Ranges(s) \in Seq(Pair)
         /\ \A r : r \in ToSet(Ranges(s)) <=> \E k \in 1..Len(s) : s[k].at # {} /\ r = RangeOf(s[k])
<1> DEFINE t == RangePieces(s)
<1>1. /\ Ranges(s) = FlattenSeq(t) /\ t \in Seq(Seq(Pair)) /\ Len(t) = Len(s)
      /\ \A k \in 1..Len(s) : t[k] = IF s[k].at = {} THEN << >> ELSE <<RangeOf(s[k])>>
  BY RangePiecesAre
<1> HIDE DEF t
<1>2. \A k \in 1..Len(s) : \A r : r \in ToSet(t[k]) <=> s[k].at # {} /\ r = RangeOf(s[k])
  <2>1. TAKE k \in 1..Len(s)
  <2>2. CASE s[k].at = {}
    <3>1. t[k] = << >>
      BY <1>1, <2>2
    <3>2. QED
      BY <2>2, <3>1 DEF ToSet
  <2>3. CASE s[k].at # {}
    <3>1. t[k] = <<RangeOf(s[k])>>
      BY <1>1, <2>3
    <3>2. QED
      BY <2>3, <3>1 DEF ToSet
  <2>4. QED
    BY <2>2, <2>3
<1>3. /\ FlattenSeq(t) \in Seq(Pair)
      /\ \A r : r \in ToSet(FlattenSeq(t)) <=> \E k \in 1..Len(t) : r \in ToSet(t[k])
  BY <1>1, FlattenPlaces, FlattenElements
<1>4. QED
  BY <1>1, <1>2, <1>3

\* Instances that are placed have ranges apart from each other.
LEMMA InstancesApart ==
  ASSUME NEW s \in Seq(Inst), NoOverlap(Ranges(s)), NEW k \in 1..Len(s), NEW l \in 1..Len(s), k # l,
         s[k].at # {}, s[l].at # {}
  PROVE  Bits(RangeOf(s[k])) \cap Bits(RangeOf(s[l])) = {}
<1> DEFINE t == RangePieces(s)
           c == Ranges(s)
<1>1. /\ c = FlattenSeq(t) /\ t \in Seq(Seq(Pair)) /\ Len(t) = Len(s)
      /\ \A n \in 1..Len(s) : t[n] = IF s[n].at = {} THEN << >> ELSE <<RangeOf(s[n])>>
  BY RangePiecesAre
<1>2. c \in Seq(Pair) /\ NoOverlap(c)
  BY RangesAre
<1> HIDE DEF t, c
<1>3. ASSUME NEW m \in 1..Len(s), NEW n \in 1..Len(s), m < n, s[m].at # {}, s[n].at # {}
      PROVE  Bits(RangeOf(s[m])) \cap Bits(RangeOf(s[n])) = {}
  <2>1. t[m] = <<RangeOf(s[m])>> /\ t[n] = <<RangeOf(s[n])>>
    BY <1>1, <1>3
  <2>2. PlaceOf(t, m, 1) /\ PlaceOf(t, n, 1) /\ Before(m, 1, n, 1)
    BY <1>1, <1>3, <2>1 DEF PlaceOf, Before
  <2>3. InOrder(FlattenSeq(t), t[m][1], t[n][1])
    BY <1>1, <2>2, FlattenOrder
  <2>4. PICK p, q \in 1..Len(c) : p < q /\ c[p] = RangeOf(s[m]) /\ c[q] = RangeOf(s[n])
    BY <1>1, <2>1, <2>3 DEF InOrder
  <2>5. p \in DOMAIN c /\ q \in DOMAIN c
    BY <1>2
  <2>6. RangeOf(s[m]) \in Pair /\ RangeOf(s[n]) \in Pair
    BY <1>2, <2>4, ElementIn
  <2>7. c[p][1] >= c[q][2] \/ c[q][1] >= c[p][2]
    BY <1>2, <2>4, <2>5 DEF NoOverlap
  <2>8. QED
    BY <2>4, <2>6, <2>7, ApartBits
<1>4. k < l \/ l < k
  OBVIOUS
<1>5. CASE k < l
  BY <1>3, <1>5
<1>6. CASE l < k
  <2>1. Bits(RangeOf(s[l])) \cap Bits(RangeOf(s[k])) = {}
    BY <1>3, <1>6
  <2>2. QED
    BY <2>1
<1>7. QED
  BY <1>4, <1>5, <1>6

RangeBits(a) == [k \in DOMAIN a |-> Bits(a[k])]

LEMMA NoOverlapBits ==
  ASSUME NEW a \in Seq(Pair), NoOverlap(a),
         NEW p \in 1..Len(a), NEW q \in 1..Len(a), p < q
  PROVE  Bits(a[p]) \cap Bits(a[q]) = {}
<1>1. p \in DOMAIN a /\ q \in DOMAIN a /\ a[p] \in Pair /\ a[q] \in Pair
  OBVIOUS
<1>2. a[p][1] >= a[q][2] \/ a[q][1] >= a[p][2]
  BY <1>1 DEF NoOverlap
<1>3. QED
  BY <1>1, <1>2, ApartBits

LEMMA RangeBitsAre ==
  ASSUME NEW a \in Seq(Pair)
  PROVE  /\ RangeBits(a) \in Seq(SUBSET Nat) /\ Len(RangeBits(a)) = Len(a)
         /\ \A k \in 1..Len(a) : RangeBits(a)[k] = Bits(a[k])
         /\ NoOverlap(a) => Disjoint(RangeBits(a))
<1> DEFINE b == RangeBits(a)
<1>1. b = [k \in 1..Len(a) |-> b[k]] /\ Len(a) \in Nat /\ \A k \in 1..Len(a) : b[k] = Bits(a[k])
  BY DEF RangeBits
<1> HIDE DEF b
<1>2. \A k \in 1..Len(a) : b[k] \in SUBSET Nat
  <2>1. TAKE k \in 1..Len(a)
  <2>2. a[k] \in Pair
    BY ElementIn
  <2>3. Bits(a[k]) \in SUBSET Nat
    BY <2>2, PairBits
  <2>4. QED
    BY <1>1, <2>3
<1>3. b \in Seq(SUBSET Nat) /\ Len(b) = Len(a) /\ DOMAIN b = 1..Len(a)
  BY <1>1, <1>2, FunctionIsSeq
<1>4. ASSUME NoOverlap(a) PROVE Disjoint(b)
  <2>1. SUFFICES ASSUME NEW i \in 1..Len(a), NEW j \in 1..Len(a), i < j PROVE b[i] \cap b[j] = {}
    BY <1>3 DEF Disjoint
  <2>2. Bits(a[i]) \cap Bits(a[j]) = {}
    BY <1>4, <2>1, NoOverlapBits
  <2>3. QED
    BY <1>1, <2>2
<1>5. QED
  BY <1>1, <1>3, <1>4 DEF b

LEMMA ConcatPlaces ==
  ASSUME NEW S, NEW a \in Seq(S), NEW b \in Seq(S)
  PROVE  /\ a \o b \in Seq(S) /\ Len(a \o b) = Len(a) + Len(b) /\ Len(a) \in Nat /\ Len(b) \in Nat
         /\ \A k \in 1..Len(a) : (a \o b)[k] = a[k] /\ k \in 1..Len(a \o b)
         /\ \A k \in 1..Len(b) : (a \o b)[Len(a) + k] = b[k] /\ Len(a) + k \in 1..Len(a \o b)
OBVIOUS

LEMMA NoOverlapParts ==
  ASSUME NEW a \in Seq(Pair), NEW b \in Seq(Pair), NoOverlap(a \o b)
  PROVE  /\ NoOverlap(a) /\ NoOverlap(b)
         /\ \A r \in ToSet(a), q \in ToSet(b) : Bits(r) \cap Bits(q) = {}
<1> DEFINE c == a \o b
           n == Len(a)
<1>1. /\ c \in Seq(Pair) /\ Len(c) = n + Len(b) /\ n \in Nat /\ Len(b) \in Nat
      /\ \A k \in 1..n : c[k] = a[k] /\ k \in 1..Len(c)
      /\ \A k \in 1..Len(b) : c[n + k] = b[k] /\ n + k \in 1..Len(c)
  BY ConcatPlaces
<1>2. NoOverlap(c) /\ DOMAIN c = 1..Len(c) /\ DOMAIN a = 1..n /\ DOMAIN b = 1..Len(b)
  BY <1>1
<1> HIDE DEF c, n
<1>3. NoOverlap(a)
  <2>1. SUFFICES ASSUME NEW i \in 1..n, NEW j \in 1..n, i < j PROVE a[i][1] >= a[j][2] \/ a[j][1] >= a[i][2]
    BY <1>2 DEF NoOverlap
  <2>2. c[i][1] >= c[j][2] \/ c[j][1] >= c[i][2]
    BY <1>1, <1>2, <2>1 DEF NoOverlap
  <2>3. QED
    BY <1>1, <2>2
<1>4. NoOverlap(b)
  <2>1. SUFFICES ASSUME NEW i \in 1..Len(b), NEW j \in 1..Len(b), i < j PROVE b[i][1] >= b[j][2] \/ b[j][1] >= b[i][2]
    BY <1>2 DEF NoOverlap
  <2>2. n + i \in DOMAIN c /\ n + j \in DOMAIN c /\ n + i < n + j
    BY <1>1, <1>2, <2>1
  <2>3. c[n + i][1] >= c[n + j][2] \/ c[n + j][1] >= c[n + i][2]
    BY <1>2, <2>2 DEF NoOverlap
  <2>4. c[n + i] = b[i] /\ c[n + j] = b[j]
    BY <1>1
  <2>5. QED
    BY <2>3, <2>4
<1>5. ASSUME NEW r \in ToSet(a), NEW q \in ToSet(b) PROVE Bits(r) \cap Bits(q) = {}
  <2>1. PICK i \in 1..n : a[i] = r
    BY IndexOf DEF n
  <2>2. PICK j \in 1..Len(b) : b[j] = q
    BY IndexOf
  <2>3. i \in 1..Len(c) /\ n + j \in 1..Len(c) /\ i < n + j /\ c[i] = r /\ c[n + j] = q
    BY <1>1, <2>1, <2>2
  <2>4. Bits(c[i]) \cap Bits(c[n + j]) = {}
    BY <1>1, <1>2, <2>3, NoOverlapBits
  <2>5. QED
    BY <2>3, <2>4
<1>6. QED
  BY <1>3, <1>4, <1>5

LEMMA ConcatDisjoint ==
  ASSUME NEW S, NEW a \in Seq(S), NEW b \in Seq(S), Disjoint(a), Disjoint(b),
         \A x \in ToSet(a), y \in ToSet(b) : x \cap y = {}
  PROVE  Disjoint(a \o b)
<1> DEFINE c == a \o b
           n == Len(a)
<1>1. /\ c \in Seq(S) /\ Len(c) = n + Len(b) /\ n \in Nat /\ Len(b) \in Nat
      /\ \A k \in 1..n : c[k] = a[k]
      /\ \A k \in 1..Len(b) : c[n + k] = b[k]
  BY ConcatPlaces
<1>2. DOMAIN c = 1..(n + Len(b)) /\ DOMAIN a = 1..n /\ DOMAIN b = 1..Len(b)
  BY <1>1
<1> HIDE DEF c, n
<1>3. SUFFICES ASSUME NEW i \in 1..(n + Len(b)), NEW j \in 1..(n + Len(b)), i < j PROVE c[i] \cap c[j] = {}
  BY <1>2 DEF Disjoint, c
<1>4. CASE j <= n
  <2>1. i \in 1..n /\ j \in 1..n
    BY <1>1, <1>3, <1>4
  <2>2. a[i] \cap a[j] = {}
    BY <1>2, <1>3, <2>1 DEF Disjoint
  <2>3. QED
    BY <1>1, <2>1, <2>2
<1>5. CASE n < i
  <2>1. i - n \in 1..Len(b) /\ j - n \in 1..Len(b) /\ i - n < j - n /\ n + (i - n) = i /\ n + (j - n) = j
    BY <1>1, <1>3, <1>5
  <2>2. b[i - n] \cap b[j - n] = {}
    BY <1>2, <2>1 DEF Disjoint
  <2>3. c[i] = b[i - n] /\ c[j] = b[j - n]
    BY <1>1, <2>1
  <2>4. QED
    BY <2>2, <2>3
<1>6. CASE i <= n /\ n < j
  <2>1. i \in 1..n /\ j - n \in 1..Len(b) /\ n + (j - n) = j
    BY <1>1, <1>3, <1>6
  <2>2. c[i] = a[i] /\ c[j] = b[j - n]
    BY <1>1, <2>1
  <2>3. a[i] \in ToSet(a) /\ b[j - n] \in ToSet(b)
    BY <1>2, <2>1 DEF ToSet
  <2>4. QED
    BY <2>2, <2>3
<1>7. QED
  BY <1>1, <1>3, <1>4, <1>5, <1>6

LEMMA FlattenDisjoint ==
  ASSUME NEW S, NEW s \in Seq(Seq(S)),
         \A k, i, l, j : PlaceOf(s, k, i) /\ PlaceOf(s, l, j) /\ Before(k, i, l, j) => s[k][i] \cap s[l][j] = {}
  PROVE  Disjoint(FlattenSeq(s))
<1> DEFINE c == FlattenSeq(s)
<1>1. DOMAIN c = 1..Len(c)
  BY FlattenPlaces
<1>2. SUFFICES ASSUME NEW p \in 1..Len(c), NEW q \in 1..Len(c), p < q PROVE c[p] \cap c[q] = {}
  BY <1>1 DEF Disjoint
<1>3. PICK k, i, l, j : /\ PlaceOf(s, k, i) /\ PlaceOf(s, l, j) /\ Before(k, i, l, j)
                        /\ c[p] = s[k][i] /\ c[q] = s[l][j]
  BY <1>2, FlattenOrigin
<1> HIDE DEF c
<1>4. s[k][i] \cap s[l][j] = {}
  BY <1>3
<1>5. QED
  BY <1>3, <1>4

LEMMA MaxExists ==
  ASSUME NEW n \in Nat, NEW v \in [1..n -> Nat]
  PROVE  LET M == {0} \cup {v[k] : k \in 1..n}
         IN Max(M) \in Nat /\ \A x \in M : x <= Max(M)
<1> DEFINE M(m) == {0} \cup {v[k] : k \in 1..m}
           Good == {m \in 0..n : \E p \in M(m) : \A x \in M(m) : x <= p}
<1>1. 0 \in Good
  <2>1. M(0) = {0}
    OBVIOUS
  <2>2. QED
    BY <2>1
<1>2. \A m \in 1..n : m - 1 \in Good => m \in Good
  <2> SUFFICES ASSUME NEW m \in 1..n, m - 1 \in Good
               PROVE  m \in Good
    OBVIOUS
  <2>1. PICK p \in M(m - 1) : \A x \in M(m - 1) : x <= p
    OBVIOUS
  <2>2. M(m) = M(m - 1) \cup {v[m]} /\ v[m] \in Nat /\ M(m - 1) \subseteq Nat
    <3>1. 1..m = (1..(m - 1)) \cup {m} /\ m \in 1..n
      OBVIOUS
    <3>2. {v[k] : k \in 1..m} = {v[k] : k \in 1..(m - 1)} \cup {v[m]}
      BY <3>1
    <3>3. \A k \in 1..(m - 1) : v[k] \in Nat
      OBVIOUS
    <3>4. QED
      BY <3>2, <3>3
  <2> HIDE DEF M
  <2>3. CASE v[m] <= p
    <3>1. \E q \in M(m) : \A x \in M(m) : x <= q
      BY <2>1, <2>2, <2>3
    <3>2. QED
      BY <3>1
  <2>4. CASE ~(v[m] <= p)
    <3>1. \A x \in M(m) : x <= v[m]
      BY <2>1, <2>2, <2>4
    <3>2. \E q \in M(m) : \A x \in M(m) : x <= q
      BY <2>2, <3>1
    <3>3. QED
      BY <3>2
  <2>5. QED
    BY <2>3, <2>4
<1>3. n \in Good
  <2> HIDE DEF Good
  <2>1. 0..n \subseteq Good
    BY <1>1, <1>2, UpTo
  <2>2. QED
    BY <2>1
<1>4. PICK p \in M(n) : \A x \in M(n) : x <= p
  BY <1>3
<1>5. M(n) \subseteq Int /\ M(n) \subseteq Nat
  OBVIOUS
<1> HIDE DEF M
<1>6. Max(M(n)) = p
  BY <1>4, <1>5, MaxIs
<1>7. QED
  BY <1>4, <1>5, <1>6 DEF M

LEMMA FootprintCovers ==
  ASSUME NEW g \in Group
  PROVE  Footprint(g) \in Nat /\ \A r \in ToSet(Ranges(g.members)) : r[2] <= Footprint(g)
<1> DEFINE c == Ranges(g.members)
           v == [k \in 1..Len(c) |-> c[k][2]]
<1>1. c \in Seq(Pair) /\ Len(c) \in Nat
  BY RangesAre, LenIsNat DEF Group
<1>2. Footprint(g) = Max({0} \cup {r[2] : r \in ToSet(c)})
  BY DEF Footprint
<1> HIDE DEF c
<1>3. \A k \in 1..Len(c) : c[k] \in Pair /\ c[k][2] \in Nat
  BY <1>1, ElementIn, PairBits
<1>4. v \in [1..Len(c) -> Nat] /\ \A k \in 1..Len(c) : v[k] = c[k][2]
  BY <1>3
<1>5. ToSet(c) = {c[k] : k \in 1..Len(c)}
  BY <1>1 DEF ToSet
<1>6. {r[2] : r \in ToSet(c)} = {v[k] : k \in 1..Len(c)}
  BY <1>4, <1>5
<1> HIDE DEF v
<1> DEFINE M == {0} \cup {v[k] : k \in 1..Len(c)}
<1>7. Max(M) \in Nat /\ \A x \in M : x <= Max(M)
  BY <1>1, <1>4, MaxExists
<1>8. Footprint(g) = Max(M)
  BY <1>2, <1>6
<1>9. \A r \in ToSet(c) : r[2] \in M
  BY <1>6
<1> HIDE DEF M
<1>10. QED
  BY <1>7, <1>8, <1>9 DEF c

LEMMA ShiftedBits ==
  ASSUME NEW x, x \subseteq Nat, NEW y, y \subseteq Nat, NEW a \in Nat
  PROVE  /\ Shifted(x, a) \in SUBSET Nat
         /\ x \cap y = {} => Shifted(x, a) \cap Shifted(y, a) = {}
         /\ \A i \in Shifted(x, a) : i - a \in x
<1>1. \A i \in Shifted(x, a) : \E j \in x : i = a + j
  BY DEF Shifted
<1>2. \A i \in Shifted(y, a) : \E j \in y : i = a + j
  BY DEF Shifted
<1>3. \A i \in Shifted(x, a) : i \in Nat /\ i - a \in x
  BY <1>1
<1>4. \A i \in Shifted(y, a) : i - a \in y
  BY <1>2
<1>5. QED
  BY <1>3, <1>4

\* Lists of sets, moved to another place.
Moved(s, a) == [k \in DOMAIN s |-> Shifted(s[k], a)]

LEMMA MovedSets ==
  ASSUME NEW s \in Seq(SUBSET Nat), NEW a \in Nat
  PROVE  /\ Moved(s, a) \in Seq(SUBSET Nat) /\ Len(Moved(s, a)) = Len(s)
         /\ \A k \in 1..Len(s) : Moved(s, a)[k] = Shifted(s[k], a)
         /\ Disjoint(s) => Disjoint(Moved(s, a))
<1> DEFINE t == Moved(s, a)
<1>1. t = [k \in 1..Len(s) |-> t[k]] /\ Len(s) \in Nat /\ DOMAIN s = 1..Len(s)
      /\ \A k \in 1..Len(s) : t[k] = Shifted(s[k], a)
  BY DEF Moved
<1> HIDE DEF t
<1>2. \A k \in 1..Len(s) : t[k] \in SUBSET Nat
  <2>1. TAKE k \in 1..Len(s)
  <2>2. s[k] \in SUBSET Nat
    BY ElementIn
  <2>3. QED
    BY <1>1, <2>2, ShiftedBits
<1>3. t \in Seq(SUBSET Nat) /\ Len(t) = Len(s) /\ DOMAIN t = 1..Len(s)
  BY <1>1, <1>2, FunctionIsSeq
<1>4. ASSUME Disjoint(s) PROVE Disjoint(t)
  <2>1. SUFFICES ASSUME NEW i \in 1..Len(s), NEW j \in 1..Len(s), i < j PROVE t[i] \cap t[j] = {}
    BY <1>3 DEF Disjoint
  <2>2. s[i] \cap s[j] = {}
    BY <1>1, <1>4, <2>1 DEF Disjoint
  <2>3. s[i] \subseteq Nat /\ s[j] \subseteq Nat
    BY ElementIn
  <2>4. Shifted(s[i], a) \cap Shifted(s[j], a) = {}
    BY <2>2, <2>3, ShiftedBits
  <2>5. QED
    BY <1>1, <2>4
<1>5. QED
  BY <1>1, <1>3, <1>4 DEF t

\* The signals of a group lie in the room that the group takes up.
LEMMA GroupBitsAre ==
  ASSUME NEW g \in Group
  PROVE  /\ GroupInstance(g) \in Inst
         /\ GroupBits(g) \in Seq(SUBSET Nat)
         /\ \A x \in ToSet(GroupBits(g)) :
              x # {} => GroupInstance(g).at # {} /\ x \subseteq Bits(RangeOf(GroupInstance(g)))
         /\ NoOverlap(Ranges(g.members)) => Disjoint(GroupBits(g))
<1> DEFINE r == IF g.at = {} THEN << >> ELSE Ranges(g.members)
           b == RangeBits(r)
           a == Start(g.at)
           F == Footprint(g)
<1>1. g.at \subseteq Nat /\ g.members \in Seq(Inst)
  BY DEF Group
<1>2. F \in Nat /\ \A q \in ToSet(Ranges(g.members)) : q[2] <= F
  BY FootprintCovers
<1>3. GroupInstance(g) \in Inst /\ GroupInstance(g).at = (IF F = 0 THEN {} ELSE g.at) /\ GroupInstance(g).bits = F
  BY <1>1, <1>2 DEF GroupInstance, Placed, Inst
<1>4. GroupBits(g) = [k \in DOMAIN r |-> Shifted(Bits(r[k]), a)]
  BY DEF GroupBits
<1>5. CASE g.at = {}
  <2>1. GroupBits(g) = << >>
    BY <1>4, <1>5
  <2>2. ToSet(<< >>) = {} /\ << >> \in Seq(SUBSET Nat) /\ Disjoint(<< >>)
    BY DEF ToSet, Disjoint
  <2>3. QED
    BY <1>3, <2>1, <2>2
<1>6. CASE g.at # {}
  <2>1. r = Ranges(g.members) /\ r \in Seq(Pair) /\ a \in Nat
    BY <1>1, <1>6, RangesAre DEF Start
  <2> HIDE DEF r, a
  <2>2. /\ b \in Seq(SUBSET Nat) /\ Len(b) = Len(r) /\ \A k \in 1..Len(r) : b[k] = Bits(r[k])
        /\ NoOverlap(r) => Disjoint(b)
    BY <2>1, RangeBitsAre
  <2>3. GroupBits(g) = Moved(b, a)
    <3>1. DOMAIN b = DOMAIN r /\ \A k \in DOMAIN r : b[k] = Bits(r[k])
      BY DEF RangeBits
    <3> HIDE DEF b
    <3>2. QED
      BY <1>4, <3>1 DEF Moved
  <2> HIDE DEF b
  <2>4. /\ Moved(b, a) \in Seq(SUBSET Nat) /\ Len(Moved(b, a)) = Len(b)
        /\ \A k \in 1..Len(b) : Moved(b, a)[k] = Shifted(b[k], a)
        /\ Disjoint(b) => Disjoint(Moved(b, a))
    BY <2>1, <2>2, MovedSets
  <2>5. ASSUME NEW x \in ToSet(Moved(b, a)), x # {}
        PROVE  GroupInstance(g).at # {} /\ x \subseteq Bits(RangeOf(GroupInstance(g)))
    <3>1. PICK k \in 1..Len(r) : Moved(b, a)[k] = x
      BY <2>2, <2>4, IndexOf
    <3>2. x = Shifted(Bits(r[k]), a)
      BY <2>2, <2>4, <3>1
    <3>3. r[k] \in Pair /\ r[k] \in ToSet(Ranges(g.members))
      BY <2>1, ElementIn DEF ToSet
    <3>4. r[k][2] <= F /\ r[k][2] \in Nat
      BY <1>2, <3>3, PairBits
    <3>5. \A i \in x : i \in Nat /\ a <= i /\ i < a + F
      <4>1. TAKE i \in x
      <4>2. Bits(r[k]) \subseteq Nat /\ \A j \in Bits(r[k]) : j < r[k][2]
        BY <3>3, PairBits
      <4>3. PICK j \in Bits(r[k]) : i = a + j
        BY <3>2 DEF Shifted
      <4>4. j \in Nat /\ j < r[k][2]
        BY <4>2
      <4>5. j < F /\ F \in Nat /\ a \in Nat
        BY <1>2, <2>1, <3>4, <4>4
      <4>6. QED
        BY <4>3, <4>4, <4>5
    <3>6. F # 0
      BY <1>2, <2>1, <2>5, <3>5
    <3>7. GroupInstance(g).at = g.at
      BY <1>3, <3>6
    <3>8. /\ RangeOf(GroupInstance(g)) \in Pair
          /\ RangeOf(GroupInstance(g))[1] = a /\ RangeOf(GroupInstance(g))[2] = a + F
      BY <1>3, <1>6, <3>7, RangeIsPair DEF a
    <3>9. x \subseteq Bits(RangeOf(GroupInstance(g)))
      BY <3>5, <3>8, PairBits
    <3>10. QED
      BY <1>6, <3>7, <3>9
  <2>6. QED
    BY <1>3, <2>1, <2>2, <2>3, <2>4, <2>5
<1>7. QED
  BY <1>5, <1>6

Instances(groups)  == [k \in DOMAIN groups |-> GroupInstance(groups[k])]
GroupsBits(groups) == FlattenSeq([n \in DOMAIN groups |-> GroupBits(groups[n])])

LEMMA InstancesAre ==
  ASSUME NEW groups \in Seq(Group)
  PROVE  /\ Instances(groups) \in Seq(Inst) /\ Len(Instances(groups)) = Len(groups)
         /\ \A k \in 1..Len(groups) : Instances(groups)[k] = GroupInstance(groups[k])
<1> DEFINE s == Instances(groups)
<1>1. s = [k \in 1..Len(groups) |-> s[k]] /\ Len(groups) \in Nat
      /\ \A k \in 1..Len(groups) : s[k] = GroupInstance(groups[k])
  BY DEF Instances
<1> HIDE DEF s
<1>2. \A k \in 1..Len(groups) : s[k] \in Inst
  <2>1. TAKE k \in 1..Len(groups)
  <2>2. groups[k] \in Group
    BY ElementIn
  <2>3. QED
    BY <1>1, <2>2, GroupBitsAre
<1>3. s \in Seq(Inst) /\ Len(s) = Len(groups)
  BY <1>1, <1>2, FunctionIsSeq
<1>4. QED
  BY <1>1, <1>3 DEF s

\* The sets of a piece lie in the room of an instance.
Boxed(sets, x) == \A y \in ToSet(sets) : y # {} => x.at # {} /\ y \subseteq Bits(RangeOf(x))

\* Sets that are disjoint in the rooms of instances, which do not overlap.
LEMMA BoxedDisjoint ==
  ASSUME NEW s \in Seq(Inst), NoOverlap(Ranges(s)), NEW t \in Seq(Seq(SUBSET Nat)), Len(t) = Len(s),
         \A n \in 1..Len(s) : Disjoint(t[n]) /\ Boxed(t[n], s[n])
  PROVE  Disjoint(FlattenSeq(t))
<1>1. ASSUME NEW k, NEW i, NEW l, NEW j, PlaceOf(t, k, i), PlaceOf(t, l, j), Before(k, i, l, j)
      PROVE  t[k][i] \cap t[l][j] = {}
  <2>1. k \in 1..Len(s) /\ l \in 1..Len(s) /\ i \in 1..Len(t[k]) /\ j \in 1..Len(t[l])
    BY <1>1 DEF PlaceOf
  <2>2. t[k] \in Seq(SUBSET Nat) /\ t[l] \in Seq(SUBSET Nat)
    BY <2>1, ElementIn
  <2>3. i \in DOMAIN t[k] /\ j \in DOMAIN t[l]
    BY <2>1, <2>2
  <2>4. CASE k = l /\ i < j
    BY <2>1, <2>3, <2>4 DEF Disjoint
  <2>5. CASE k < l
    <3>1. t[k][i] \in ToSet(t[k]) /\ t[l][j] \in ToSet(t[l])
      BY <2>3 DEF ToSet
    <3>2. CASE t[k][i] = {} \/ t[l][j] = {}
      BY <3>2
    <3>3. CASE t[k][i] # {} /\ t[l][j] # {}
      <4>1. /\ s[k].at # {} /\ t[k][i] \subseteq Bits(RangeOf(s[k]))
            /\ s[l].at # {} /\ t[l][j] \subseteq Bits(RangeOf(s[l]))
        BY <2>1, <3>1, <3>3 DEF Boxed
      <4>2. k # l
        BY <2>1, <2>5
      <4>3. Bits(RangeOf(s[k])) \cap Bits(RangeOf(s[l])) = {}
        BY <2>1, <4>1, <4>2, InstancesApart
      <4>4. QED
        BY <4>1, <4>3
    <3>4. QED
      BY <3>2, <3>3
  <2>6. QED
    BY <1>1, <2>4, <2>5 DEF Before
<1>2. QED
  BY <1>1, FlattenDisjoint

LEMMA GroupsBitsAre ==
  ASSUME NEW groups \in Seq(Group)
  PROVE  /\ GroupsBits(groups) \in Seq(SUBSET Nat)
         /\ \A x \in ToSet(GroupsBits(groups)) :
              x # {} => \E r \in ToSet(Ranges(Instances(groups))) : x \subseteq Bits(r)
         /\ NoOverlap(Ranges(Instances(groups))) /\ (\A g \in ToSet(groups) : NoOverlap(Ranges(g.members)))
              => Disjoint(GroupsBits(groups))
<1> DEFINE t == [n \in DOMAIN groups |-> GroupBits(groups[n])]
           s == Instances(groups)
<1>1. t = [n \in 1..Len(groups) |-> t[n]] /\ Len(groups) \in Nat
      /\ \A n \in 1..Len(groups) : t[n] = GroupBits(groups[n])
  OBVIOUS
<1>2. GroupsBits(groups) = FlattenSeq(t)
  BY DEF GroupsBits
<1>3. s \in Seq(Inst) /\ Len(s) = Len(groups) /\ \A k \in 1..Len(groups) : s[k] = GroupInstance(groups[k])
  BY InstancesAre
<1> HIDE DEF t, s
<1>4. ASSUME NEW n \in 1..Len(groups)
      PROVE  /\ t[n] \in Seq(SUBSET Nat)
             /\ \A x \in ToSet(t[n]) : x # {} => s[n].at # {} /\ x \subseteq Bits(RangeOf(s[n]))
             /\ NoOverlap(Ranges(groups[n].members)) => Disjoint(t[n])
  <2>1. groups[n] \in Group
    BY ElementIn
  <2>2. t[n] = GroupBits(groups[n]) /\ s[n] = GroupInstance(groups[n])
    BY <1>1, <1>3
  <2>3. QED
    BY <2>1, <2>2, GroupBitsAre
<1>5. t \in Seq(Seq(SUBSET Nat)) /\ Len(t) = Len(groups)
  <2>1. \A n \in 1..Len(groups) : t[n] \in Seq(SUBSET Nat)
    BY <1>4
  <2>2. QED
    BY <1>1, <2>1, FunctionIsSeq
<1>6. FlattenSeq(t) \in Seq(SUBSET Nat)
  BY <1>5, FlattenPlaces
<1>7. ASSUME NEW x \in ToSet(FlattenSeq(t)), x # {}
      PROVE  \E r \in ToSet(Ranges(s)) : x \subseteq Bits(r)
  <2>1. PICK n \in 1..Len(groups) : x \in ToSet(t[n])
    BY <1>5, FlattenElements
  <2>2. s[n].at # {} /\ x \subseteq Bits(RangeOf(s[n]))
    BY <1>4, <1>7, <2>1
  <2>3. RangeOf(s[n]) \in ToSet(Ranges(s))
    BY <1>3, <2>2, RangesAre
  <2>4. QED
    BY <2>2, <2>3
<1>8. ASSUME NoOverlap(Ranges(s)), \A g \in ToSet(groups) : NoOverlap(Ranges(g.members))
      PROVE  Disjoint(FlattenSeq(t))
  <2>1. \A n \in 1..Len(s) : Disjoint(t[n]) /\ Boxed(t[n], s[n])
    <3>1. TAKE n \in 1..Len(s)
    <3>2. n \in 1..Len(groups) /\ groups[n] \in ToSet(groups)
      BY <1>3 DEF ToSet
    <3>3. QED
      BY <1>4, <1>8, <3>2 DEF Boxed
  <2>2. QED
    BY <1>3, <1>5, <1>8, <2>1, BoxedDisjoint
<1>9. QED
  BY <1>2, <1>6, <1>7, <1>8 DEF s

\* A PDU whose lists are lists.
Pdu(p) == p.length \in Nat /\ p.signals \in Seq(Inst) /\ p.groups \in Seq(Group)

LEMMA SignalBitsAre ==
  ASSUME NEW p, p.signals \in Seq(Inst), p.groups \in Seq(Group)
  PROVE  /\ PlacedRanges(p.signals, p.groups) \in Seq(Pair)
         /\ SignalBits(p) \in Seq(SUBSET Nat)
         /\ \A x \in ToSet(SignalBits(p)) :
              x # {} => \E r \in ToSet(PlacedRanges(p.signals, p.groups)) : x \subseteq Bits(r)
         /\ StandardAccepted(p) => Disjoint(SignalBits(p))
<1> DEFINE a == Ranges(p.signals)
           b == Ranges(Instances(p.groups))
           x == RangeBits(a)
           y == GroupsBits(p.groups)
<1>1. a \in Seq(Pair) /\ b \in Seq(Pair)
  BY RangesAre, InstancesAre
<1>2. PlacedRanges(p.signals, p.groups) = a \o b
  BY DEF PlacedRanges, Instances
<1>3. SignalBits(p) = x \o y
  BY DEF SignalBits, RangeBits, GroupsBits
<1>4. /\ y \in Seq(SUBSET Nat)
      /\ \A z \in ToSet(y) : z # {} => \E r \in ToSet(b) : z \subseteq Bits(r)
      /\ NoOverlap(b) /\ (\A g \in ToSet(p.groups) : NoOverlap(Ranges(g.members))) => Disjoint(y)
  BY GroupsBitsAre
<1>5. StandardAccepted(p) =>
        (\A g \in ToSet(p.groups) : NoOverlap(Ranges(g.members))) /\ NoOverlap(a \o b)
  BY <1>2 DEF StandardAccepted
<1> HIDE DEF a, b, y
<1>6. /\ x \in Seq(SUBSET Nat) /\ Len(x) = Len(a) /\ \A k \in 1..Len(a) : x[k] = Bits(a[k])
      /\ NoOverlap(a) => Disjoint(x)
  BY <1>1, RangeBitsAre
<1> HIDE DEF x
<1>7. \A z \in ToSet(x) : \E r \in ToSet(a) : z = Bits(r)
  <2>1. TAKE z \in ToSet(x)
  <2>2. PICK k \in 1..Len(x) : x[k] = z
    BY <1>6, IndexOf
  <2>3. a[k] \in ToSet(a) /\ z = Bits(a[k])
    BY <1>1, <1>6, <2>2 DEF ToSet
  <2>4. QED
    BY <2>3
<1>8. x \o y \in Seq(SUBSET Nat) /\ ToSet(x \o y) = ToSet(x) \cup ToSet(y)
  BY <1>4, <1>6, ConcatSet
<1>9. a \o b \in Seq(Pair) /\ ToSet(a \o b) = ToSet(a) \cup ToSet(b)
  BY <1>1, ConcatSet
<1>10. \A z \in ToSet(x \o y) : z # {} => \E r \in ToSet(a \o b) : z \subseteq Bits(r)
  BY <1>4, <1>7, <1>8, <1>9
<1>11. ASSUME StandardAccepted(p) PROVE Disjoint(x \o y)
  <2>1. /\ NoOverlap(a) /\ NoOverlap(b)
        /\ \A r \in ToSet(a), q \in ToSet(b) : Bits(r) \cap Bits(q) = {}
    BY <1>1, <1>5, <1>11, NoOverlapParts
  <2>2. Disjoint(x) /\ Disjoint(y)
    BY <1>4, <1>5, <1>6, <1>11, <2>1
  <2>3. \A z \in ToSet(x), w \in ToSet(y) : z \cap w = {}
    <3>1. TAKE z \in ToSet(x), w \in ToSet(y)
    <3>2. PICK r \in ToSet(a) : z = Bits(r)
      BY <1>7
    <3>3. w # {} => \E q \in ToSet(b) : w \subseteq Bits(q)
      BY <1>4
    <3>4. QED
      BY <2>1, <3>2, <3>3
  <2>4. QED
    BY <1>4, <1>6, <2>2, <2>3, ConcatDisjoint
<1>12. QED
  BY <1>2, <1>3, <1>8, <1>9, <1>10, <1>11

\* Accepted, they lie inside the PDU.
LEMMA SignalsInside ==
  ASSUME NEW p, Pdu(p), StandardAccepted(p), NEW x \in ToSet(SignalBits(p)), NEW i \in x
  PROVE  i \in Nat /\ i < p.length * 8
<1> DEFINE c == PlacedRanges(p.signals, p.groups)
<1>1. p.signals \in Seq(Inst) /\ p.groups \in Seq(Group) /\ p.length \in Nat
  BY DEF Pdu
<1>2. c \in Seq(Pair) /\ \E r \in ToSet(c) : x \subseteq Bits(r)
  BY <1>1, SignalBitsAre
<1>3. Within(c, p.length)
  BY DEF StandardAccepted
<1> HIDE DEF c
<1>4. PICK r \in ToSet(c) : x \subseteq Bits(r)
  BY <1>2
<1>5. PICK k \in 1..Len(c) : c[k] = r
  BY <1>2, IndexOf
<1>6. r \in Pair /\ r[2] <= p.length * 8
  BY <1>2, <1>3, <1>5, ElementIn DEF Within
<1>7. i \in Nat /\ i < r[2] /\ r[2] \in Nat
  BY <1>4, <1>6, PairBits
<1>8. QED
  BY <1>1, <1>6, <1>7

\* Channels on PDUs named in R whose lists are lists.
Channels(c, R) ==
  /\ \A p \in ToSet(c.pdus) : p.length \in Nat /\ (p.type = "standard" => Pdu(p))
  /\ \A f \in FramesOf(c) : f.length \in Nat /\ f.pdus \in Seq([ref : R, at : SUBSET Nat])

LEMMA PduFound ==
  ASSUME NEW c, RefsKnown(c), NEW f \in FramesOf(c), NEW x \in ToSet(f.pdus)
  PROVE  PduNamed(c, x.ref) \in ToSet(c.pdus)
<1>1. x.ref \in ToSet(Names(c.pdus))
  BY DEF RefsKnown
<1>2. PICK n \in DOMAIN c.pdus : c.pdus[n].name = x.ref
  BY <1>1 DEF ToSet, Names
<1>3. c.pdus[n] \in ToSet(c.pdus)
  BY DEF ToSet
<1>4. \E p \in ToSet(c.pdus) : p.name = x.ref
  BY <1>2, <1>3
<1>5. QED
  BY <1>4 DEF PduNamed

\* The room that a PDU takes up in a frame.
Room(c, x) == Placed(x.at, PduNamed(c, x.ref).length * 8)

LEMMA PduBitsAre ==
  ASSUME NEW c, NEW R, Channels(c, R), ChannelsAccepted(c), NEW f \in FramesOf(c), NEW x \in ToSet(f.pdus),
         x \in [ref : R, at : SUBSET Nat]
  PROVE  /\ Room(c, x) \in Inst
         /\ PduBits(c, x) \in Seq(SUBSET Nat) /\ Disjoint(PduBits(c, x)) /\ Boxed(PduBits(c, x), Room(c, x))
<1> DEFINE p == PduNamed(c, x.ref)
           bits == IF p.type = "standard" /\ x.at # {} THEN SignalBits(p) ELSE << >>
           a == Start(x.at)
<1>1. p \in ToSet(c.pdus)
  BY PduFound DEF ChannelsAccepted
<1>2. p.length \in Nat /\ (p.type = "standard" => Pdu(p) /\ StandardAccepted(p))
  BY <1>1 DEF Channels, ChannelsAccepted, PduAccepted
<1>3. /\ Room(c, x) \in Inst /\ Room(c, x).at = x.at /\ Room(c, x).bits = p.length * 8
  BY <1>2 DEF Room, Placed, Inst
<1>4. PduBits(c, x) = [n \in DOMAIN bits |-> Shifted(bits[n], a)]
  BY DEF PduBits
<1>5. CASE ~(p.type = "standard" /\ x.at # {})
  <2>1. PduBits(c, x) = << >>
    BY <1>4, <1>5
  <2>2. ToSet(<< >>) = {} /\ << >> \in Seq(SUBSET Nat) /\ Disjoint(<< >>)
    BY DEF ToSet, Disjoint
  <2>3. QED
    BY <1>3, <2>1, <2>2 DEF Boxed
<1>6. CASE p.type = "standard" /\ x.at # {}
  <2>1. bits = SignalBits(p) /\ a \in Nat
    BY <1>6 DEF Start
  <2>2. PduBits(c, x) = Moved(bits, a)
    BY <1>4 DEF Moved
  <2> HIDE DEF bits, a
  <2>3. Pdu(p) /\ StandardAccepted(p)
    BY <1>2, <1>6
  <2> HIDE DEF p
  <2>4. bits \in Seq(SUBSET Nat) /\ Disjoint(bits)
    BY <2>1, <2>3, SignalBitsAre DEF Pdu
  <2>5. /\ Moved(bits, a) \in Seq(SUBSET Nat) /\ Len(Moved(bits, a)) = Len(bits)
        /\ \A k \in 1..Len(bits) : Moved(bits, a)[k] = Shifted(bits[k], a)
        /\ Disjoint(Moved(bits, a))
    BY <2>1, <2>4, MovedSets
  <2>6. /\ RangeOf(Room(c, x)) \in Pair
        /\ RangeOf(Room(c, x))[1] = a /\ RangeOf(Room(c, x))[2] = a + p.length * 8
    BY <1>3, <1>6, RangeIsPair DEF a
  <2>7. ASSUME NEW y \in ToSet(Moved(bits, a)) PROVE y \subseteq Bits(RangeOf(Room(c, x)))
    <3>1. PICK k \in 1..Len(bits) : Moved(bits, a)[k] = y
      BY <2>5, IndexOf
    <3>2. y = Shifted(bits[k], a) /\ bits[k] \in ToSet(SignalBits(p))
      BY <2>1, <2>4, <2>5, <3>1 DEF ToSet
    <3>3. ASSUME NEW i \in y PROVE i \in Bits(RangeOf(Room(c, x)))
      <4>1. PICK j \in bits[k] : i = a + j
        BY <3>2 DEF Shifted
      <4>2. j \in Nat /\ j < p.length * 8
        BY <2>3, <3>2, SignalsInside
      <4>3. i \in Nat /\ a <= i /\ i < a + p.length * 8
        BY <1>2, <2>1, <4>1, <4>2
      <4>4. QED
        BY <2>6, <4>3, PairBits
    <3>4. QED
      BY <3>3
  <2>8. Boxed(Moved(bits, a), Room(c, x))
    BY <1>3, <1>6, <2>7 DEF Boxed
  <2>9. QED
    BY <1>3, <2>2, <2>5, <2>8
<1>7. QED
  BY <1>5, <1>6

LEMMA FrameApart ==
  ASSUME NEW c, NEW R, Channels(c, R), ChannelsAccepted(c), NEW f \in FramesOf(c)
  PROVE  Disjoint(FrameSignals(c, f)) /\ UNION ToSet(FrameSignals(c, f)) \subseteq 0..(f.length * 8 - 1)
<1> DEFINE X == [ref : R, at : SUBSET Nat]
           xs == f.pdus
           s == [k \in DOMAIN xs |-> Placed(xs[k].at, PduNamed(c, xs[k].ref).length * 8)]
           t == [k \in DOMAIN xs |-> PduBits(c, xs[k])]
<1>1. xs \in Seq(X) /\ Len(xs) \in Nat /\ DOMAIN xs = 1..Len(xs) /\ f.length \in Nat
  <2>1. xs \in Seq(X) /\ f.length \in Nat
    BY DEF Channels
  <2> HIDE DEF xs, X
  <2>2. QED
    BY <2>1, LenIsNat
<1>2. FrameRanges(c, f) = Ranges(s) /\ FrameSignals(c, f) = FlattenSeq(t)
  BY DEF FrameRanges, FrameSignals
<1>3. Within(Ranges(s), f.length) /\ NoOverlap(Ranges(s))
  BY <1>2 DEF ChannelsAccepted, PlacementsAccepted
<1>4. s = [k \in 1..Len(xs) |-> s[k]] /\ \A k \in 1..Len(xs) : s[k] = Room(c, xs[k])
  BY <1>1 DEF Room
<1>5. t = [k \in 1..Len(xs) |-> t[k]] /\ \A k \in 1..Len(xs) : t[k] = PduBits(c, xs[k])
  BY <1>1
<1> HIDE DEF s, t
<1>6. ASSUME NEW k \in 1..Len(xs)
      PROVE  s[k] \in Inst /\ t[k] \in Seq(SUBSET Nat) /\ Disjoint(t[k]) /\ Boxed(t[k], s[k])
  <2>1. xs[k] \in X /\ xs[k] \in ToSet(f.pdus)
    BY <1>1, ElementIn DEF ToSet
  <2>2. /\ Room(c, xs[k]) \in Inst
        /\ PduBits(c, xs[k]) \in Seq(SUBSET Nat) /\ Disjoint(PduBits(c, xs[k]))
        /\ Boxed(PduBits(c, xs[k]), Room(c, xs[k]))
    BY <2>1, PduBitsAre
  <2>3. QED
    BY <1>4, <1>5, <2>2
<1> HIDE DEF xs
<1>7. s \in Seq(Inst) /\ Len(s) = Len(xs)
  <2>1. \A k \in 1..Len(xs) : s[k] \in Inst
    BY <1>6
  <2>2. QED
    BY <1>1, <1>4, <2>1, FunctionIsSeq
<1>8. t \in Seq(Seq(SUBSET Nat)) /\ Len(t) = Len(xs)
  <2>1. \A k \in 1..Len(xs) : t[k] \in Seq(SUBSET Nat)
    BY <1>6
  <2>2. QED
    BY <1>1, <1>5, <2>1, FunctionIsSeq
<1>9. Disjoint(FlattenSeq(t))
  <2>1. \A n \in 1..Len(s) : Disjoint(t[n]) /\ Boxed(t[n], s[n])
    BY <1>6, <1>7
  <2>2. QED
    BY <1>3, <1>7, <1>8, <2>1, BoxedDisjoint
<1>10. ASSUME NEW y \in ToSet(FlattenSeq(t)), NEW i \in y PROVE i \in 0..(f.length * 8 - 1)
  <2>1. PICK k \in 1..Len(xs) : y \in ToSet(t[k])
    BY <1>8, FlattenElements
  <2>2. s[k].at # {} /\ y \subseteq Bits(RangeOf(s[k]))
    BY <1>6, <1>10, <2>1 DEF Boxed
  <2>3. RangeOf(s[k]) \in ToSet(Ranges(s)) /\ Ranges(s) \in Seq(Pair)
    BY <1>7, <2>2, RangesAre
  <2>4. PICK n \in 1..Len(Ranges(s)) : Ranges(s)[n] = RangeOf(s[k])
    BY <2>3, IndexOf
  <2>5. RangeOf(s[k]) \in Pair /\ RangeOf(s[k])[2] <= f.length * 8
    BY <1>3, <2>3, <2>4, ElementIn DEF Within
  <2>6. i \in Nat /\ i < RangeOf(s[k])[2] /\ RangeOf(s[k])[2] \in Nat
    BY <2>2, <2>5, PairBits
  <2>7. QED
    BY <1>1, <2>5, <2>6
<1>11. UNION ToSet(FlattenSeq(t)) \subseteq 0..(f.length * 8 - 1)
  <2> DEFINE Y == ToSet(FlattenSeq(t))
  <2>1. \A y \in Y : \A i \in y : i \in 0..(f.length * 8 - 1)
    BY <1>10
  <2> HIDE DEF Y
  <2>2. UNION Y \subseteq 0..(f.length * 8 - 1)
    BY <2>1
  <2>3. QED
    BY <2>2 DEF Y
<1>12. QED
  BY <1>2, <1>9, <1>11

LEMMA SignalsOwnBits ==
  ASSUME NEW c, NEW R, Channels(c, R)
  PROVE  SignalsHaveOwnBits(c)
BY FrameApart DEF SignalsHaveOwnBits

\* A multiplexed PDU with groups in G.
Mux(p, G) ==
  /\ p.selector \in Inst /\ p.mux \in Seq(G)
  /\ \A g \in G : Pdu(g.pdu)
  /\ \A s \in p.static : Pdu(s)

LEMMA SelectorReads ==
  ASSUME NEW p, NEW G, Mux(p, G)
  PROVE  SelectorReadable(p)
<1> DEFINE sel == Ranges(<<p.selector>>)
           U   == {Bits(r) : r \in ToSet(sel)}
<1>1. p.selector \in Inst /\ <<p.selector>> \in Seq(Inst)
  BY DEF Mux
<1>2. sel \in Seq(Pair) /\ \A r : r \in ToSet(sel) => p.selector.at # {}
  <2>1. \A r : r \in ToSet(sel) => \E k \in 1..Len(<<p.selector>>) : <<p.selector>>[k].at # {}
    BY <1>1, RangesAre
  <2>2. \A k \in 1..Len(<<p.selector>>) : <<p.selector>>[k] = p.selector
    OBVIOUS
  <2>3. QED
    BY <1>1, <2>1, <2>2, RangesAre
<1> SUFFICES ASSUME MultiplexedAccepted(p), NEW v \in 0..(2^p.selector.bits - 1)
             PROVE  /\ Cardinality({k \in DOMAIN p.mux : p.mux[k].value = v}) <= 1
                    /\ \A g \in {g \in ToSet(p.mux) : g.value = v} :
                         (UNION U) \cap (UNION ToSet(SignalBits(g.pdu))) = {}
                    /\ \A s \in p.static : (UNION U) \cap (UNION {Bits(r) : r \in ToSet(Ranges(s.signals))}) = {}
  BY DEF SelectorReadable, SelectorBits
<1>3. Cardinality({k \in DOMAIN p.mux : p.mux[k].value = v}) <= 1
  <2> DEFINE S == {k \in DOMAIN p.mux : p.mux[k].value = v}
  <2>1. IsInjective([k \in DOMAIN p.mux |-> p.mux[k].value])
    BY DEF MultiplexedAccepted
  <2>2. \A x, y \in S : x = y
    BY <2>1 DEF IsInjective
  <2> HIDE DEF S
  <2>3. Cardinality(S) <= 1
    BY <2>2, AtMostOne
  <2>4. QED
    BY <2>3 DEF S
<1>4. SelectorApart(p)
  BY DEF MultiplexedAccepted
<1>5. \A i \in UNION U : \E r \in ToSet(sel) : i \in Bits(r)
  OBVIOUS
<1> HIDE DEF sel, U
<1>6. ASSUME NEW g \in ToSet(p.mux), NEW i \in UNION U, NEW x \in ToSet(SignalBits(g.pdu)), i \in x
      PROVE  FALSE
  <2> DEFINE c == PlacedRanges(g.pdu.signals, g.pdu.groups)
  <2>1. g.pdu.signals \in Seq(Inst) /\ g.pdu.groups \in Seq(Group)
    BY MemberOfSeq DEF Mux, Pdu
  <2>2. c \in Seq(Pair) /\ \E q \in ToSet(c) : x \subseteq Bits(q)
    BY <1>6, <2>1, SignalBitsAre
  <2>3. PICK r \in ToSet(sel) : i \in Bits(r)
    BY <1>5, <1>6
  <2>4. NoOverlap(sel \o c)
    BY <1>2, <1>4, <2>3 DEF SelectorApart, sel
  <2> HIDE DEF c
  <2>5. PICK q \in ToSet(c) : x \subseteq Bits(q)
    BY <2>2
  <2>6. Bits(r) \cap Bits(q) = {}
    BY <1>2, <2>2, <2>4, NoOverlapParts
  <2>7. QED
    BY <1>6, <2>3, <2>5, <2>6
<1>7. ASSUME NEW s \in p.static, NEW i \in UNION U, NEW q \in ToSet(Ranges(s.signals)), i \in Bits(q)
      PROVE  FALSE
  <2> DEFINE c == Ranges(s.signals)
  <2>1. c \in Seq(Pair)
    BY RangesAre DEF Mux, Pdu
  <2>2. PICK r \in ToSet(sel) : i \in Bits(r)
    BY <1>5, <1>7
  <2>3. NoOverlap(sel \o c)
    BY <1>2, <1>4, <2>2 DEF SelectorApart, sel
  <2>4. q \in ToSet(c)
    BY <1>7
  <2> HIDE DEF c
  <2>5. Bits(r) \cap Bits(q) = {}
    BY <1>2, <2>1, <2>3, <2>4, NoOverlapParts
  <2>6. QED
    BY <1>7, <2>2, <2>5
<1>8. \A g \in {g \in ToSet(p.mux) : g.value = v} : (UNION U) \cap (UNION ToSet(SignalBits(g.pdu))) = {}
  <2>1. TAKE g \in {g \in ToSet(p.mux) : g.value = v}
  <2> DEFINE Y == ToSet(SignalBits(g.pdu))
  <2>2. \A i \in UNION U : \A x \in Y : i \notin x
    BY <1>6
  <2> HIDE DEF Y
  <2>3. (UNION U) \cap (UNION Y) = {}
    BY <2>2
  <2>4. QED
    BY <2>3 DEF Y
<1>9. \A s \in p.static : (UNION U) \cap (UNION {Bits(r) : r \in ToSet(Ranges(s.signals))}) = {}
  <2>1. TAKE s \in p.static
  <2> DEFINE Y == {Bits(r) : r \in ToSet(Ranges(s.signals))}
  <2>2. \A i \in UNION U : \A x \in Y : i \notin x
    BY <1>7
  <2> HIDE DEF Y
  <2>3. (UNION U) \cap (UNION Y) = {}
    BY <2>2
  <2>4. QED
    BY <2>3 DEF Y
<1>10. QED
  BY <1>3, <1>8, <1>9

-----------------------------------------------------------------------------
(* Network management groups (StateManagement).                            *)

\* No ECU is called like the missing ECU of a bus, and no bus like a socket;
\* times and rates are numbers, and a bus is not slower than nothing.
Network(n) ==
  /\ \A e \in n.ecus : e.name # "none"
  /\ \A b \in n.buses : b.name # "socket" /\ b.rate \in Nat \ {0} /\ \A f \in b.frames : f.length \in Nat
  /\ \A t \in n.profiles : t.cycle \in Nat /\ t.timeout \in Nat

LEMMA MinOfOne ==
  ASSUME NEW x \in Int
  PROVE  Min({x}) = x
BY MinIs

LEMMA CadenceIs ==
  ASSUME NEW cycle \in Int, NEW cycles, cycles \subseteq {cycle}
  PROVE  Cadence(cycles, cycle) = cycle
<1>1. cycles = {} \/ cycles = {cycle}
  OBVIOUS
<1>2. QED
  BY <1>1, MinOfOne DEF Cadence

LEMMA LongerIsMore ==
  ASSUME NEW a \in Nat, NEW c \in Nat, c < a, NEW r \in Nat \ {0}
  PROVE  c * r < a * r
<1>1. PICK d \in Nat : a = c + d + 1
  <2>1. a - c - 1 \in Nat /\ a = c + (a - c - 1) + 1
    OBVIOUS
  <2>2. QED
    BY <2>1
<1>2. a * r = c * r + d * r + r
  BY <1>1
<1>3. d * r \in Nat /\ c * r \in Nat
  OBVIOUS
<1>4. QED
  BY <1>2, <1>3

\* A frame that nobody is warned about is through in time.
LEMMA FramesInTime ==
  ASSUME NEW n, Network(n), NEW g, NEW b \in n.buses, b.kind = "can", b.name \notin TimingWarnings(n, g),
         NEW f \in NmFrames(g, b), NEW t \in n.profiles, t.name = g.profile, ProfileAccepted(t)
  PROVE  Cadence(f.cycles, t.cycle) < t.timeout /\ FrameBits(f.length) < t.timeout * b.rate
<1>1. t.cycle \in Nat /\ t.timeout \in Nat /\ b.rate \in Nat \ {0} /\ f.length \in Nat
  BY DEF Network, NmFrames
<1>2. ~(f.cycles \ {t.cycle} # {} \/ Cadence(f.cycles, t.cycle) * b.rate < FrameBits(f.length))
  <2> DEFINE late == f.cycles \ {t.cycle} # {} \/ Cadence(f.cycles, t.cycle) * b.rate < FrameBits(f.length)
  <2>1. late => b.name \in TimingWarnings(n, g)
    BY DEF TimingWarnings
  <2> HIDE DEF late
  <2>2. ~late
    BY <2>1
  <2>3. QED
    BY <2>2 DEF late
<1>3. f.cycles \subseteq {t.cycle}
  BY <1>2
<1>4. Cadence(f.cycles, t.cycle) = t.cycle
  BY <1>1, <1>3, CadenceIs
<1>5. t.cycle < t.timeout
  BY <1>1 DEF ProfileAccepted
<1>6. t.cycle * b.rate < t.timeout * b.rate
  BY <1>1, <1>5, LongerIsMore
<1>7. FrameBits(f.length) \in Int /\ t.cycle * b.rate \in Int /\ t.timeout * b.rate \in Int
  BY <1>1 DEF FrameBits
<1>8. FrameBits(f.length) <= t.cycle * b.rate
  BY <1>2, <1>4, <1>7
<1>9. QED
  BY <1>4, <1>5, <1>6, <1>7, <1>8

\* What is a member, is an ECU, a controller or a bus, and only a bus has no ECU.
LEMMA MemberKinds ==
  ASSUME NEW n, Network(n), NEW g, NEW m \in EffectiveMembers(n, g)
  PROVE  \/ m.kind = "bus" /\ m.ecu = "none" /\ \E b \in n.buses : m.of = b.name
         \/ m.kind \in {"ecu", "controller"} /\ \E e \in n.ecus : m.ecu = e.name
<1> DEFINE OfEcu(e) == UNION {Member(r, "ecu", e.name, e.name) : r \in Of(g, e.memberships)}
           OfCtl(e, c) == UNION {Member(r, "controller", c.name, e.name) : r \in Of(g, c.memberships)}
           OfBus(b) == UNION {Member(r, "bus", b.name, "none") : r \in Of(g, b.memberships)}
<1>1. \A k, of, ecu, r : \A x \in Member(r, k, of, ecu) : x.kind = k /\ x.of = of /\ x.ecu = ecu
  BY DEF Member
<1>2. \A e : \A x \in OfEcu(e) : x.kind = "ecu" /\ x.ecu = e.name
  BY <1>1
<1>3. \A e, c : \A x \in OfCtl(e, c) : x.kind = "controller" /\ x.ecu = e.name
  BY <1>1
<1>4. \A b : \A x \in OfBus(b) : x.kind = "bus" /\ x.ecu = "none" /\ x.of = b.name
  BY <1>1
<1>5. \/ \E e \in n.ecus : m \in OfEcu(e) \/ \E c \in e.controllers : m \in OfCtl(e, c)
      \/ \E b \in n.buses : m \in OfBus(b)
  BY DEF EffectiveMembers
<1> HIDE DEF OfEcu, OfCtl, OfBus
<1>6. QED
  BY <1>2, <1>3, <1>4, <1>5

\* A CAN bus that takes part has no ECU that does so too.
LEMMA BusOrEcus ==
  ASSUME NEW n, Network(n), NamesDiffer(n.buses), NEW g, OneVariantPerBus(n, g),
         NEW b \in n.buses, b.kind = "can",
         NEW w \in Participants(n, g.name), w.kind = "bus", w.of = b.name,
         NEW e \in n.ecus, NEW i \in Interfaces(e), i.bus = b.name,
         NEW m \in Participants(n, g.name)
  PROVE  m.ecu # e.name
<1> SUFFICES ASSUME m.ecu = e.name PROVE FALSE
  OBVIOUS
<1>1. b.name \notin LinNames(n)
  BY DEF LinNames, NamesDiffer
<1>2. b.name \in WholeBuses(n, g)
  BY <1>1 DEF WholeBuses
<1>3. m \in EffectiveMembers(n, g.name) /\ m.ecu # "none"
  BY DEF Participants, Network
<1>4. m.kind \in {"ecu", "controller"}
  BY <1>3, MemberKinds
<1>5. b.name \in AttachedTo(n, m.ecu)
  BY DEF AttachedTo
<1>6. AttachedTo(n, m.ecu) \cap WholeBuses(n, g) = {}
  BY <1>4 DEF OneVariantPerBus
<1>7. QED
  BY <1>2, <1>5, <1>6

\* On the bus itself the PDU is not, so it is at a socket or on another bus.
LEMMA OtherBinding ==
  ASSUME NEW n, Network(n), NamesDiffer(n.buses), NEW pdu, NEW b \in n.buses,
         \A f \in b.frames : pdu \notin f.packed,
         NEW e \in n.ecus, pdu \in SentBy(n, e) \cup ReceivedBy(n, e)
  PROVE  Bindings(n, e, pdu) \ {b.name} # {}
<1>1. \E c \in e.controllers :
        \/ pdu \in WithContained(n, c.sends) \cup WithContained(n, c.receives)
        \/ \E i \in c.ifaces : pdu \in PdusOn(n, i.bus, i.sends) \cup PdusOn(n, i.bus, i.receives)
  BY DEF SentBy, ReceivedBy
<1>2. PICK c \in e.controllers :
        \/ pdu \in WithContained(n, c.sends) \cup WithContained(n, c.receives)
        \/ \E i \in c.ifaces : pdu \in PdusOn(n, i.bus, i.sends) \cup PdusOn(n, i.bus, i.receives)
  BY <1>1
<1>3. CASE pdu \in WithContained(n, c.sends) \cup WithContained(n, c.receives)
  <2>1. pdu \in WithContained(n, c.sends \cup c.receives)
    BY <1>3 DEF WithContained
  <2>2. "socket" \in Bindings(n, e, pdu)
    BY <2>1 DEF Bindings
  <2>3. b.name # "socket"
    BY DEF Network
  <2>4. QED
    BY <2>2, <2>3
<1>4. ASSUME NEW i \in c.ifaces, pdu \in PdusOn(n, i.bus, i.sends) \cup PdusOn(n, i.bus, i.receives)
      PROVE  Bindings(n, e, pdu) \ {b.name} # {}
  <2>1. pdu \in PdusOn(n, i.bus, i.sends \cup i.receives)
    BY <1>4 DEF PdusOn
  <2>2. i \in Interfaces(e)
    BY DEF Interfaces
  <2>3. i.bus \in Bindings(n, e, pdu)
    BY <2>1, <2>2 DEF Bindings
  <2>4. \E a \in BusNamed(n, i.bus) : \E f \in a.frames : pdu \in f.packed
    BY <2>1 DEF PdusOn
  <2>5. i.bus # b.name
    BY <2>4 DEF BusNamed, NamesDiffer
  <2>6. QED
    BY <2>3, <2>5
<1>5. QED
  BY <1>2, <1>3, <1>4

LEMMA MembersInform ==
  ASSUME NEW n, Network(n)
  PROVE  MembersInformed(n)
<1> SUFFICES ASSUME StateManagementAccepted(n), NamesDiffer(n.buses), NEW g \in n.groups, NEW b \in n.buses
             PROVE  LET inGroup == \E m \in Participants(n, g.name) : m.kind = "bus" /\ m.of = b.name
                    IN /\ inGroup /\ b.kind = "can" =>
                            \A e \in n.ecus : (\E i \in Interfaces(e) : i.bus = b.name) =>
                              \A m \in Participants(n, g.name) : m.ecu # e.name
                       /\ inGroup /\ b.kind = "lin" /\ (\A f \in b.frames : f.packed \cap NmPdus(n) = {}) =>
                            \E e \in n.ecus : /\ \E i \in Interfaces(e) : i.bus = b.name /\ i.master
                                              /\ Bindings(n, e, g.pdu) \ {b.name} # {}
                       /\ b.kind = "can" /\ b.name \notin TimingWarnings(n, g) =>
                            \A f \in NmFrames(g, b) : \A t \in {t \in n.profiles : t.name = g.profile} :
                              /\ Cadence(f.cycles, t.cycle) < t.timeout
                              /\ FrameBits(f.length) < t.timeout * b.rate
  BY DEF MembersInformed
<1>1. /\ OneVariantPerBus(n, g)
      /\ \A m \in EffectiveMembers(n, g.name) : MemberReached(n, g, m)
      /\ \A t \in n.profiles : ProfileAccepted(t)
  BY DEF StateManagementAccepted, GroupAccepted
<1>2. ASSUME NEW w \in Participants(n, g.name), w.kind = "bus", w.of = b.name, b.kind = "can",
             NEW e \in n.ecus, NEW i \in Interfaces(e), i.bus = b.name, NEW m \in Participants(n, g.name)
      PROVE  m.ecu # e.name
  BY <1>1, <1>2, BusOrEcus
<1>3. ASSUME NEW w \in Participants(n, g.name), w.kind = "bus", w.of = b.name, b.kind = "lin",
             \A f \in b.frames : f.packed \cap NmPdus(n) = {}
      PROVE  \E e \in n.ecus : /\ \E i \in Interfaces(e) : i.bus = b.name /\ i.master
                               /\ Bindings(n, e, g.pdu) \ {b.name} # {}
  <2>1. w.of \in LinNames(n)
    BY <1>3 DEF LinNames
  <2>2. LinBusReached(n, g, w.of)
    <3>1. w \in EffectiveMembers(n, g.name)
      BY DEF Participants
    <3>2. MemberReached(n, g, w)
      BY <1>1, <3>1
    <3>3. QED
      BY <1>3, <2>1, <3>2 DEF MemberReached
  <2>3. PICK e \in n.ecus : /\ \E i \in Interfaces(e) : i.kind = "lin" /\ i.bus = b.name /\ i.master
                            /\ g.pdu \in SentBy(n, e) \cup ReceivedBy(n, e)
    BY <1>3, <2>2 DEF LinBusReached
  <2>4. \A f \in b.frames : g.pdu \notin f.packed
    BY <1>3 DEF NmPdus
  <2>5. Bindings(n, e, g.pdu) \ {b.name} # {}
    BY <2>3, <2>4, OtherBinding
  <2>6. QED
    BY <2>3, <2>5
<1>4. ASSUME b.kind = "can", b.name \notin TimingWarnings(n, g),
             NEW f \in NmFrames(g, b), NEW t \in n.profiles, t.name = g.profile
      PROVE  Cadence(f.cycles, t.cycle) < t.timeout /\ FrameBits(f.length) < t.timeout * b.rate
  BY <1>1, <1>4, FramesInTime
<1>5. QED
  BY <1>2, <1>3, <1>4

-----------------------------------------------------------------------------
(* Services and their consumers (SomeIp).                                  *)

\* Services on elements in Elem, whose lists are lists; an element has one
\* end-to-end pair at most.
Services(n, Srv, Elem) ==
  /\ n.services \in Seq(Srv)
  /\ \A s \in Srv : s.events \in Seq(Elem) /\ s.fields \in Seq(Elem) /\ s.methods \in Seq(Elem)
  /\ \A e \in Elem : \A p, q \in e.e2e : p = q

LEMMA NotifiableIs ==
  ASSUME NEW n, NEW Srv, NEW Elem, Services(n, Srv, Elem), NEW s \in Srv
  PROVE  /\ Notifiable(s) \in Seq(Elem) /\ ToSet(Notifiable(s)) = ToSet(s.events) \cup ToSet(s.fields)
         /\ Elements(s) \in Seq(Elem) /\ ToSet(Notifiable(s)) \subseteq ToSet(Elements(s))
<1>1. s.events \in Seq(Elem) /\ s.fields \in Seq(Elem) /\ s.methods \in Seq(Elem)
  BY DEF Services
<1>2. Notifiable(s) \in Seq(Elem) /\ ToSet(Notifiable(s)) = ToSet(s.events) \cup ToSet(s.fields)
  BY <1>1, ConcatSet DEF Notifiable
<1>3. /\ Notifiable(s) \o s.methods \in Seq(Elem)
      /\ ToSet(Notifiable(s) \o s.methods) = ToSet(Notifiable(s)) \cup ToSet(s.methods)
  BY <1>1, <1>2, ConcatSet
<1>4. QED
  BY <1>2, <1>3 DEF Elements

LEMMA ProtectedIs ==
  ASSUME NEW n, NEW Srv, NEW Elem, Services(n, Srv, Elem), NEW s \in Srv
  PROVE  /\ Protected(s) \in Seq(Elem)
         /\ \A e \in ToSet(Notifiable(s)) : e.e2e # {} => e \in ToSet(Protected(s))
<1> DEFINE es == s.fields \o s.events
           t  == [k \in DOMAIN es |-> IF es[k].e2e = {} THEN << >> ELSE <<es[k]>>]
<1>1. s.events \in Seq(Elem) /\ s.fields \in Seq(Elem)
  BY DEF Services
<1>2. es \in Seq(Elem) /\ ToSet(es) = ToSet(s.fields) \cup ToSet(s.events)
  BY <1>1, ConcatSet
<1>3. Protected(s) = FlattenSeq(t)
  BY DEF Protected
<1> HIDE DEF es
<1>4. /\ t = [k \in 1..Len(es) |-> t[k]] /\ Len(es) \in Nat
      /\ \A k \in 1..Len(es) : t[k] = IF es[k].e2e = {} THEN << >> ELSE <<es[k]>>
  BY <1>2
<1> HIDE DEF t
<1>5. \A k \in 1..Len(es) : t[k] \in Seq(Elem) /\ (es[k].e2e # {} => es[k] \in ToSet(t[k]))
  <2>1. TAKE k \in 1..Len(es)
  <2>2. es[k] \in Elem
    BY <1>2, ElementIn
  <2>3. CASE es[k].e2e = {}
    <3>1. t[k] = << >>
      BY <1>4, <2>3
    <3>2. << >> \in Seq(Elem)
      OBVIOUS
    <3>3. QED
      BY <2>3, <3>1, <3>2
  <2>4. CASE es[k].e2e # {}
    <3>1. t[k] = <<es[k]>>
      BY <1>4, <2>4
    <3>2. <<es[k]>> \in Seq(Elem) /\ es[k] \in ToSet(<<es[k]>>)
      BY <2>2 DEF ToSet
    <3>3. QED
      BY <3>1, <3>2
  <2>5. QED
    BY <2>3, <2>4
<1>6. /\ FlattenSeq(t) \in Seq(Elem)
      /\ \A x : x \in ToSet(FlattenSeq(t)) <=> \E k \in 1..Len(es) : x \in ToSet(t[k])
  BY <1>4, <1>5, KeptOf
<1>7. ASSUME NEW e \in ToSet(Notifiable(s)), e.e2e # {} PROVE e \in ToSet(FlattenSeq(t))
  <2>1. e \in ToSet(es)
    BY <1>2, NotifiableIs
  <2>2. PICK k \in 1..Len(es) : es[k] = e
    BY <1>2, <2>1, IndexOf
  <2>3. QED
    BY <1>5, <1>6, <1>7, <2>2
<1>8. QED
  BY <1>3, <1>6, <1>7

LEMMA E2eElementsAre ==
  ASSUME NEW n, NEW Srv, NEW Elem, Services(n, Srv, Elem)
  PROVE  /\ E2eElements(n) \in Seq(Elem)
         /\ \A s \in ToSet(n.services) : ToSet(Protected(s)) \subseteq ToSet(E2eElements(n))
<1> DEFINE t == [k \in DOMAIN n.services |-> Protected(n.services[k])]
           N == Len(n.services)
<1>1. n.services \in Seq(Srv) /\ N \in Nat /\ DOMAIN n.services = 1..N
  BY DEF Services
<1>2. t = [k \in 1..N |-> t[k]] /\ \A k \in 1..N : t[k] = Protected(n.services[k])
  BY <1>1
<1>3. E2eElements(n) = FlattenSeq(t)
  BY DEF E2eElements
<1> HIDE DEF t
<1>4. \A k \in 1..N : t[k] \in Seq(Elem)
  <2>1. TAKE k \in 1..N
  <2>2. n.services[k] \in Srv
    BY <1>1, ElementIn
  <2>3. Protected(n.services[k]) \in Seq(Elem)
    BY <2>2, ProtectedIs
  <2>4. QED
    BY <1>2, <2>3
<1>5. /\ FlattenSeq(t) \in Seq(Elem)
      /\ \A x : x \in ToSet(FlattenSeq(t)) <=> \E k \in 1..N : x \in ToSet(t[k])
  BY <1>1, <1>2, <1>4, KeptOf
<1>6. ASSUME NEW s \in ToSet(n.services), NEW x \in ToSet(Protected(s)) PROVE x \in ToSet(FlattenSeq(t))
  <2>1. PICK k \in 1..N : n.services[k] = s
    BY <1>1, IndexOf
  <2>2. x \in ToSet(t[k])
    BY <1>2, <2>1
  <2>3. QED
    BY <1>5, <2>2
<1>7. QED
  BY <1>3, <1>5, <1>6

\* Events and fields come in another order among the protected elements.
Reorders(f, a, b) ==
  /\ \A i \in DOMAIN (a \o b) : f[i] \in 1..Len(b \o a) /\ (b \o a)[f[i]] = (a \o b)[i]
  /\ \A i, j \in DOMAIN (a \o b) : f[i] = f[j] => i = j

LEMMA SwappedApart ==
  ASSUME NEW A \in Nat, NEW B \in Nat, NEW i \in 1..(A + B), NEW j \in 1..(A + B),
         (IF i <= A THEN B + i ELSE i - A) = (IF j <= A THEN B + j ELSE j - A)
  PROVE  i = j
OBVIOUS

LEMMA Reordered ==
  ASSUME NEW Elem, NEW a \in Seq(Elem), NEW b \in Seq(Elem)
  PROVE  \E f : Reorders(f, a, b)
<1> DEFINE f == [i \in DOMAIN (a \o b) |-> IF i <= Len(a) THEN Len(b) + i ELSE i - Len(a)]
<1>1. Len(a) \in Nat /\ Len(b) \in Nat
  OBVIOUS
<1>2. /\ DOMAIN (a \o b) = 1..(Len(a) + Len(b)) /\ Len(b \o a) = Len(a) + Len(b)
      /\ \A i \in 1..(Len(a) + Len(b)) : (a \o b)[i] = IF i <= Len(a) THEN a[i] ELSE b[i - Len(a)]
      /\ \A i \in 1..(Len(a) + Len(b)) : (b \o a)[i] = IF i <= Len(b) THEN b[i] ELSE a[i - Len(b)]
  OBVIOUS
<1>3. \A i \in 1..(Len(a) + Len(b)) : f[i] = IF i <= Len(a) THEN Len(b) + i ELSE i - Len(a)
  BY <1>2
<1> HIDE DEF f
<1>4. ASSUME NEW i \in DOMAIN (a \o b) PROVE f[i] \in 1..Len(b \o a) /\ (b \o a)[f[i]] = (a \o b)[i]
  <2>1. i \in 1..(Len(a) + Len(b))
    BY <1>2
  <2>2. CASE i <= Len(a)
    <3>1. f[i] = Len(b) + i /\ f[i] \in 1..(Len(a) + Len(b)) /\ ~(f[i] <= Len(b)) /\ f[i] - Len(b) = i
      BY <1>1, <1>3, <2>1, <2>2
    <3>2. (b \o a)[f[i]] = a[i]
      BY <1>2, <3>1
    <3>3. QED
      BY <1>2, <2>1, <2>2, <3>1, <3>2
  <2>3. CASE ~(i <= Len(a))
    <3>1. f[i] = i - Len(a) /\ f[i] \in 1..(Len(a) + Len(b)) /\ f[i] <= Len(b)
      BY <1>1, <1>3, <2>1, <2>3
    <3>2. (b \o a)[f[i]] = b[i - Len(a)]
      BY <1>2, <3>1
    <3>3. QED
      BY <1>2, <2>1, <2>3, <3>1, <3>2
  <2>4. QED
    BY <2>2, <2>3
<1>5. ASSUME NEW i \in DOMAIN (a \o b), NEW j \in DOMAIN (a \o b), f[i] = f[j] PROVE i = j
  <2>1. i \in 1..(Len(a) + Len(b)) /\ j \in 1..(Len(a) + Len(b))
    BY <1>2
  <2>2. /\ f[i] = (IF i <= Len(a) THEN Len(b) + i ELSE i - Len(a))
        /\ f[j] = (IF j <= Len(a) THEN Len(b) + j ELSE j - Len(a))
    BY <1>3, <2>1
  <2> DEFINE A == Len(a)
             B == Len(b)
  <2>3. A \in Nat /\ B \in Nat /\ i \in 1..(A + B) /\ j \in 1..(A + B)
    BY <1>1, <2>1
  <2>4. (IF i <= A THEN B + i ELSE i - A) = (IF j <= A THEN B + j ELSE j - A)
    BY <1>5, <2>2
  <2> HIDE DEF A, B
  <2>5. QED
    BY <2>3, <2>4, SwappedApart
<1>6. Reorders(f, a, b)
  BY <1>4, <1>5 DEF Reorders
<1>7. QED
  BY <1>6

\* An element with a pair has one place in its service when it has one among
\* the protected elements.
LEMMA PlaceIsOwn ==
  ASSUME NEW n, NEW Srv, NEW Elem, Services(n, Srv, Elem), NEW s \in Srv, IsInjective(Protected(s)),
         NEW i \in DOMAIN Notifiable(s), NEW j \in DOMAIN Notifiable(s),
         Notifiable(s)[i] = Notifiable(s)[j], Notifiable(s)[i].e2e # {}
  PROVE  i = j
<1> DEFINE es == s.fields \o s.events
           t  == [k \in DOMAIN es |-> IF es[k].e2e = {} THEN << >> ELSE <<es[k]>>]
           x  == Notifiable(s)[i]
<1>1. s.events \in Seq(Elem) /\ s.fields \in Seq(Elem) /\ es \in Seq(Elem)
  BY DEF Services
<1>2. Protected(s) = FlattenSeq(t)
  BY DEF Protected
<1>3. PICK f : /\ \A k \in DOMAIN Notifiable(s) : f[k] \in 1..Len(es) /\ es[f[k]] = Notifiable(s)[k]
               /\ \A k, l \in DOMAIN Notifiable(s) : f[k] = f[l] => k = l
  <2>1. PICK f : Reorders(f, s.events, s.fields)
    BY <1>1, Reordered
  <2>2. Notifiable(s) = s.events \o s.fields
    BY DEF Notifiable
  <2>3. /\ \A k \in DOMAIN Notifiable(s) : f[k] \in 1..Len(es) /\ es[f[k]] = Notifiable(s)[k]
        /\ \A k, l \in DOMAIN Notifiable(s) : f[k] = f[l] => k = l
    BY <2>1, <2>2 DEF Reorders
  <2> HIDE DEF es
  <2>4. QED
    BY <2>3
<1> HIDE DEF es
<1>4. /\ t = [k \in 1..Len(es) |-> t[k]] /\ Len(es) \in Nat
      /\ \A k \in 1..Len(es) : t[k] = IF es[k].e2e = {} THEN << >> ELSE <<es[k]>>
  BY <1>1
<1> HIDE DEF t
<1>5. \A k \in 1..Len(es) : t[k] \in Seq(Elem)
  <2>1. TAKE k \in 1..Len(es)
  <2>2. es[k] \in Elem
    BY <1>1, ElementIn
  <2>3. << >> \in Seq(Elem) /\ <<es[k]>> \in Seq(Elem)
    BY <2>2
  <2>4. QED
    BY <1>4, <2>3
<1>6. t \in Seq(Seq(Elem)) /\ Len(t) = Len(es)
  BY <1>4, <1>5, FunctionIsSeq
<1>7. f[i] \in 1..Len(t) /\ f[j] \in 1..Len(t) /\ es[f[i]] = x /\ es[f[j]] = x
  BY <1>3, <1>6
<1>8. t[f[i]] = <<x>> /\ t[f[j]] = <<x>>
  BY <1>4, <1>6, <1>7
<1> HIDE DEF x
<1>9. 1 \in 1..Len(t[f[i]]) /\ 1 \in 1..Len(t[f[j]]) /\ t[f[i]][1] = t[f[j]][1]
  BY <1>8
<1>10. f[i] = f[j]
  BY <1>2, <1>6, <1>7, <1>9, FlattenApart
<1>11. QED
  BY <1>3, <1>10

\* An end-to-end pair is that of one notifier.
LEMMA PairIsOwn ==
  ASSUME NEW n, NEW Srv, NEW Elem, Services(n, Srv, Elem), E2eUnique(n),
         NEW k \in DOMAIN n.services, NEW i \in DOMAIN Notifiable(n.services[k]),
         NEW l \in DOMAIN n.services, NEW j \in DOMAIN Notifiable(n.services[l]),
         NEW a \in Notifiable(n.services[k])[i].e2e, a \in Notifiable(n.services[l])[j].e2e
  PROVE  k = l /\ i = j
<1> DEFINE all == E2eElements(n)
           N   == Len(n.services)
           t   == [m \in DOMAIN n.services |-> Protected(n.services[m])]
           x   == Notifiable(n.services[k])[i]
           y   == Notifiable(n.services[l])[j]
<1>1. n.services \in Seq(Srv) /\ N \in Nat /\ DOMAIN n.services = 1..N
  BY DEF Services
<1>2. all = FlattenSeq(t) /\ t = [m \in 1..N |-> t[m]] /\ \A m \in 1..N : t[m] = Protected(n.services[m])
  BY <1>1 DEF E2eElements
<1>3. \A m \in 1..N : n.services[m] \in Srv /\ n.services[m] \in ToSet(n.services)
  BY <1>1, ElementIn DEF ToSet
<1> HIDE DEF t
<1>4. \A m \in 1..N : t[m] \in Seq(Elem)
  <2>1. TAKE m \in 1..N
  <2>2. Protected(n.services[m]) \in Seq(Elem)
    BY <1>3, ProtectedIs
  <2>3. QED
    BY <1>2, <2>2
<1>5. t \in Seq(Seq(Elem)) /\ Len(t) = N
  BY <1>1, <1>2, <1>4, FunctionIsSeq
<1>6. all \in Seq(Elem) /\ DOMAIN all = 1..Len(all)
  BY E2eElementsAre, SeqDomain
<1>7. IsInjective([m \in DOMAIN all |-> all[m].e2e])
  BY DEF E2eUnique
<1> HIDE DEF all
<1>8. \A u, v \in DOMAIN all : all[u].e2e = all[v].e2e => u = v
  BY <1>7 DEF IsInjective
<1>9. IsInjective(all)
  BY <1>8 DEF IsInjective
<1>10. /\ x \in ToSet(Notifiable(n.services[k])) /\ x.e2e # {} /\ y \in ToSet(Notifiable(n.services[l])) /\ y.e2e # {}
  BY DEF ToSet
<1>11. x \in ToSet(t[k]) /\ y \in ToSet(t[l])
  <2> HIDE DEF x, y
  <2>1. x \in ToSet(Protected(n.services[k]))
    BY <1>1, <1>3, <1>10, ProtectedIs
  <2>2. y \in ToSet(Protected(n.services[l]))
    BY <1>1, <1>3, <1>10, ProtectedIs
  <2>3. QED
    BY <1>1, <1>2, <2>1, <2>2
<1>12. x \in ToSet(all) /\ y \in ToSet(all)
  <2> HIDE DEF x, y
  <2>1. \A z : z \in ToSet(FlattenSeq(t)) <=> \E m \in 1..Len(t) : z \in ToSet(t[m])
    BY <1>5, FlattenElements
  <2>2. QED
    BY <1>1, <1>2, <1>5, <1>11, <2>1
<1>13. x.e2e = {a} /\ y.e2e = {a}
  <2>1. a \in x.e2e /\ a \in y.e2e
    OBVIOUS
  <2> HIDE DEF x, y
  <2>2. x \in Elem /\ y \in Elem
    BY <1>6, <1>12, MemberOfSeq
  <2>3. QED
    BY <2>1, <2>2 DEF Services
<1> HIDE DEF x, y
<1>14. x = y
  <2>1. PICK u \in 1..Len(all) : all[u] = x
    BY <1>6, <1>12, IndexOf
  <2>2. PICK v \in 1..Len(all) : all[v] = y
    BY <1>6, <1>12, IndexOf
  <2>3. u = v
    BY <1>6, <1>8, <1>13, <2>1, <2>2
  <2>4. QED
    BY <2>1, <2>2, <2>3
<1>15. k = l
  <2>1. PICK u \in 1..Len(t[k]) : t[k][u] = x
    BY <1>1, <1>4, <1>11, IndexOf
  <2>2. PICK v \in 1..Len(t[l]) : t[l][v] = y
    BY <1>1, <1>4, <1>11, IndexOf
  <2>3. k \in 1..Len(t) /\ l \in 1..Len(t) /\ t[k][u] = t[l][v] /\ IsInjective(FlattenSeq(t))
    BY <1>1, <1>2, <1>5, <1>9, <1>14, <2>1, <2>2
  <2>4. QED
    BY <1>5, <2>3, FlattenApart
<1>16. IsInjective(Protected(n.services[k]))
  <2>1. t[k] = Protected(n.services[k]) /\ t[k] \in Seq(Elem) /\ DOMAIN t[k] = 1..Len(t[k]) /\ k \in 1..Len(t)
    BY <1>1, <1>2, <1>4, <1>5, SeqDomain
  <2>2. ASSUME NEW u \in 1..Len(t[k]), NEW v \in 1..Len(t[k]), t[k][u] = t[k][v] PROVE u = v
    <3>1. IsInjective(FlattenSeq(t))
      BY <1>2, <1>9
    <3>2. QED
      BY <1>5, <2>1, <2>2, <3>1, FlattenApart
  <2>3. IsInjective(t[k])
    BY <2>1, <2>2 DEF IsInjective
  <2>4. QED
    BY <2>1, <2>3
<1>17. i = j
  <2>1. n.services[k] \in Srv
    BY <1>1, <1>3
  <2>2. j \in DOMAIN Notifiable(n.services[k]) /\ Notifiable(n.services[k])[i] = Notifiable(n.services[k])[j]
    BY <1>14, <1>15 DEF x, y
  <2>3. Notifiable(n.services[k])[i].e2e # {}
    OBVIOUS
  <2>4. QED
    BY <1>16, <2>1, <2>2, <2>3, PlaceIsOwn
<1>18. QED
  BY <1>15, <1>17

\* What is heard is timed and has a pair of its own.
HeardWell(n, p) ==
  /\ p \in NotifierPlaces(n)
  /\ \A t \in NotifierAt(n, p).timing : <<NotifierAt(n, p).kind, t>> \in n.timings
  /\ \A q \in NotifierPlaces(n) : NotifierAt(n, p).e2e \cap NotifierAt(n, q).e2e # {} => p = q

LEMMA PlacesHeardWell ==
  ASSUME NEW n, NEW Srv, NEW Elem, Services(n, Srv, Elem), ConfigAccepted(n),
         NEW k \in DOMAIN n.services, NEW i \in DOMAIN Notifiable(n.services[k])
  PROVE  HeardWell(n, <<k, i>>)
<1> DEFINE p == <<k, i>>
           s == n.services[k]
<1>1. s \in Srv /\ s \in ToSet(n.services)
  <2>1. n.services \in Seq(Srv) /\ DOMAIN n.services = 1..Len(n.services)
    BY SeqDomain DEF Services
  <2>2. QED
    BY <2>1, ElementIn DEF ToSet
<1>2. p \in NotifierPlaces(n)
  BY DEF NotifierPlaces
<1>3. NotifierAt(n, p) = Notifiable(s)[i]
  BY DEF NotifierAt
<1>4. Notifiable(s)[i] \in ToSet(Elements(s))
  <2>1. Notifiable(s)[i] \in ToSet(Notifiable(s))
    BY DEF ToSet
  <2> HIDE DEF s
  <2>2. ToSet(Notifiable(s)) \subseteq ToSet(Elements(s))
    BY <1>1, NotifiableIs
  <2>3. QED
    BY <2>1, <2>2
<1>5. \A t \in NotifierAt(n, p).timing : <<NotifierAt(n, p).kind, t>> \in n.timings
  BY <1>1, <1>3, <1>4 DEF ConfigAccepted, TimingsExist
<1>6. ASSUME NEW q \in NotifierPlaces(n), NotifierAt(n, p).e2e \cap NotifierAt(n, q).e2e # {} PROVE p = q
  <2>1. PICK l \in DOMAIN n.services : \E j \in DOMAIN Notifiable(n.services[l]) : q = <<l, j>>
    BY DEF NotifierPlaces
  <2>2. PICK j \in DOMAIN Notifiable(n.services[l]) : q = <<l, j>>
    BY <2>1
  <2>3. PICK a : a \in NotifierAt(n, p).e2e /\ a \in NotifierAt(n, q).e2e
    BY <1>6
  <2>4. a \in Notifiable(n.services[k])[i].e2e /\ a \in Notifiable(n.services[l])[j].e2e
    BY <2>2, <2>3 DEF NotifierAt
  <2>5. E2eUnique(n)
    BY DEF ConfigAccepted
  <2>6. k = l /\ i = j
    BY <2>4, <2>5, PairIsOwn
  <2>7. QED
    BY <2>2, <2>6
<1>7. QED
  BY <1>2, <1>5, <1>6 DEF HeardWell

LEMMA Subscribed ==
  ASSUME NEW n, NEW Srv, NEW Elem, Services(n, Srv, Elem)
  PROVE  SubscriptionsWork(n)
<1>1. SUFFICES ASSUME SomeIpAccepted(n), NEW d \in n.deployments, d.role = "consumer"
               PROVE  /\ \E k \in DeployedPlace(n, d) :
                           /\ d.groups \subseteq {g.name : g \in ToSet(n.services[k].groups)}
                           /\ \A entry \in EntriesNamed(n.services[k], d.groups) :
                                \E p \in Heard(n, d) : NotifierAt(n, p).name = entry.name
                      /\ \A p \in Heard(n, d) : HeardWell(n, p)
  BY DEF SubscriptionsWork, HeardWell
<1>2. /\ Deployed(n, d) # {} /\ ConfigAccepted(n)
      /\ \A s \in Deployed(n, d) : d.groups \subseteq {g.name : g \in ToSet(s.groups)}
  BY <1>1 DEF SomeIpAccepted, DeploymentBinds
<1>3. PICK k \in DeployedPlace(n, d) : n.services[k] \in Deployed(n, d)
  BY <1>2 DEF Deployed
<1>4. DeployedPlace(n, d) \subseteq DOMAIN n.services
  BY DEF DeployedPlace, LastPlace
<1>5. \A s, name : NamedPlace(s, name) \subseteq DOMAIN Notifiable(s) /\ \A i \in NamedPlace(s, name) : Notifiable(s)[i].name = name
  BY DEF NamedPlace, LastPlace
<1>6. ASSUME NEW entry \in EntriesNamed(n.services[k], d.groups)
      PROVE  \E p \in Heard(n, d) : NotifierAt(n, p).name = entry.name
  <2> DEFINE s == n.services[k]
  <2>1. PICK g \in ToSet(s.groups) : entry \in ToSet(g.entries) /\ entry.by = "name"
    BY DEF EntriesNamed
  <2>2. s \in ToSet(n.services)
    BY <1>4 DEF ToSet
  <2>3. GroupsResolve(s)
    BY <1>2, <2>2 DEF ConfigAccepted, ServiceAccepted
  <2>4. EntryElement(s, entry) # {}
    BY <2>1, <2>3 DEF GroupsResolve
  <2>5. NamedPlace(s, entry.name) # {}
    BY <2>1, <2>4 DEF EntryElement, WithName
  <2>6. PICK i \in NamedPlace(s, entry.name) : TRUE
    BY <2>5
  <2>7. <<k, i>> \in Heard(n, d)
    BY <2>6 DEF Heard
  <2>8. NotifierAt(n, <<k, i>>) = Notifiable(s)[i]
    BY DEF NotifierAt
  <2>9. NotifierAt(n, <<k, i>>).name = entry.name
    BY <1>5, <2>6, <2>8
  <2>10. QED
    BY <2>7, <2>9
<1>7. ASSUME NEW p \in Heard(n, d) PROVE HeardWell(n, p)
  <2>1. PICK l \in DeployedPlace(n, d) : \E entry \in EntriesNamed(n.services[l], d.groups) :
               \E i \in NamedPlace(n.services[l], entry.name) : p = <<l, i>>
    BY DEF Heard
  <2>2. PICK entry, i : i \in NamedPlace(n.services[l], entry.name) /\ p = <<l, i>>
    BY <2>1
  <2>3. l \in DOMAIN n.services /\ i \in DOMAIN Notifiable(n.services[l])
    BY <1>4, <1>5, <2>2
  <2>4. QED
    BY <1>2, <2>2, <2>3, PlacesHeardWell
<1>8. d.groups \subseteq {g.name : g \in ToSet(n.services[k].groups)}
  BY <1>2, <1>3
<1>9. QED
  BY <1>6, <1>7, <1>8

-----------------------------------------------------------------------------
(* Token buckets (Qos).                                                    *)

\* Classes with numbers for rates; a class comes behind the one above it.
Tree(t) ==
  /\ Len(t) \in Nat /\ DOMAIN t = 1..Len(t)
  /\ \A k \in 1..Len(t) : t[k].parent \in 0..(k - 1) /\ t[k].rate \in Nat /\ t[k].ceil \in Int

\* sum adds up the rates of ks, class by class.
Sums(t, ks, sum) ==
  /\ sum \in [0..Len(t) -> Nat] /\ sum[0] = 0
  /\ \A k \in 1..Len(t) : sum[k] = sum[k - 1] + (IF k \in ks THEN t[k].rate ELSE 0)
  /\ RateSum(t, ks) = sum[Len(t)]

LEMMA RateSumUnfolds ==
  ASSUME NEW t, Tree(t), NEW ks
  PROVE  \E sum : Sums(t, ks, sum)
<1> DEFINE n == Len(t)
           part(k) == IF k \in ks THEN t[k].rate ELSE 0
           step == [p \in (1..n) \X Nat |-> p[2] + part(p[1])]
           Rec(s) == s = [k \in 0..n |-> IF k = 0 THEN 0 ELSE s[k - 1] + part(k)]
           sum == CHOOSE s : Rec(s)
<1>1. n \in Nat /\ \A k \in 1..n : part(k) \in Nat
  BY DEF Tree
<1>2. RateSum(t, ks) = sum[n]
  BY DEF RateSum
<1> HIDE DEF n, part
<1>3. step \in Steps(Nat, n)
  <2>1. \A p \in (1..n) \X Nat : p[2] + part(p[1]) \in Nat
    BY <1>1
  <2>2. QED
    BY <2>1 DEF Steps
<1>4. PICK f : IsRun(f, Nat, n, 0, step)
  <2> HIDE DEF step
  <2>1. QED
    BY <1>1, <1>3, Recursion
<1>5. f \in [0..n -> Nat] /\ f[0] = 0
  BY <1>4 DEF IsRun
<1>6. \A k \in 1..n : f[k] = f[k - 1] + part(k)
  <2>1. TAKE k \in 1..n
  <2>2. k - 1 \in 0..n
    BY <1>1
  <2>3. <<k, f[k - 1]>> \in (1..n) \X Nat
    BY <1>5, <2>2
  <2>4. step[<<k, f[k - 1]>>] = f[k - 1] + part(k)
    BY <2>3
  <2>5. QED
    BY <1>4, <2>4 DEF IsRun
<1>7. Rec(f)
  <2>1. \A k \in 0..n : f[k] = IF k = 0 THEN 0 ELSE f[k - 1] + part(k)
    <3>1. \A k \in 0..n : k # 0 => k \in 1..n
      BY <1>1
    <3>2. QED
      BY <1>5, <1>6, <3>1
  <2>2. QED
    BY <1>5, <2>1
<1>8. Rec(sum)
  <2> HIDE DEF Rec
  <2>1. QED
    BY <1>7
<1> HIDE DEF sum
<1>9. DOMAIN sum = 0..n /\ \A k \in 0..n : sum[k] = IF k = 0 THEN 0 ELSE sum[k - 1] + part(k)
  BY <1>8
<1> DEFINE U == {k \in 0..n : sum[k] \in Nat}
<1>10. 0..n \subseteq U
  <2>1. 0 \in U
    BY <1>1, <1>9
  <2>2. \A k \in 1..n : k - 1 \in U => k \in U
    BY <1>1, <1>9
  <2> HIDE DEF U
  <2>3. QED
    BY <1>1, <2>1, <2>2, UpTo
<1>11. sum \in [0..n -> Nat] /\ sum[0] = 0 /\ \A k \in 1..n : sum[k] = sum[k - 1] + part(k)
  <2>1. sum = [k \in 0..n |-> sum[k]]
    BY <1>8
  <2>2. \A k \in 0..n : sum[k] \in Nat
    BY <1>10
  <2>3. sum[0] = 0 /\ \A k \in 1..n : sum[k] = sum[k - 1] + part(k)
    BY <1>1, <1>9
  <2>4. QED
    BY <2>1, <2>2, <2>3
<1>12. QED
  BY <1>2, <1>11 DEF Sums, n, part

LEMMA RateSumIsNat ==
  ASSUME NEW t, Tree(t), NEW ks
  PROVE  RateSum(t, ks) \in Nat
<1>1. PICK sum : Sums(t, ks, sum)
  BY RateSumUnfolds
<1>2. QED
  BY <1>1 DEF Sums, Tree

\* The rates of two sets of classes, at most, are those of the two together.
LEMMA RateSumJoins ==
  ASSUME NEW t, Tree(t), NEW as, NEW bs, NEW cs, cs \subseteq as \cup bs
  PROVE  RateSum(t, cs) <= RateSum(t, as) + RateSum(t, bs)
<1>1. PICK f : Sums(t, as, f)
  BY RateSumUnfolds
<1>2. PICK g : Sums(t, bs, g)
  BY RateSumUnfolds
<1>3. PICK h : Sums(t, cs, h)
  BY RateSumUnfolds
<1> DEFINE n == Len(t)
           U == {k \in 0..n : h[k] <= f[k] + g[k]}
<1>4. n \in Nat /\ \A k \in 1..n : t[k].rate \in Nat
  BY DEF Tree
<1>5. 0 \in U
  BY <1>1, <1>2, <1>3, <1>4 DEF Sums
<1>6. ASSUME NEW k \in 1..n, k - 1 \in U PROVE k \in U
  <2> DEFINE fo == f[k - 1]
             go == g[k - 1]
             ho == h[k - 1]
             r  == t[k].rate
  <2>1. k - 1 \in 0..n /\ ho <= fo + go
    BY <1>4, <1>6
  <2>2. fo \in Nat /\ go \in Nat /\ ho \in Nat /\ r \in Nat
    BY <1>1, <1>2, <1>3, <1>4, <2>1 DEF Sums
  <2>3. /\ f[k] = fo + (IF k \in as THEN r ELSE 0) /\ g[k] = go + (IF k \in bs THEN r ELSE 0)
        /\ h[k] = ho + (IF k \in cs THEN r ELSE 0)
    BY <1>1, <1>2, <1>3 DEF Sums
  <2>4. k \in cs => k \in as \/ k \in bs
    OBVIOUS
  <2> HIDE DEF fo, go, ho, r
  <2>5. h[k] <= f[k] + g[k]
    <3> DEFINE fn == f[k]
               gn == g[k]
               hn == h[k]
               a == IF k \in as THEN r ELSE 0
               b == IF k \in bs THEN r ELSE 0
               c == IF k \in cs THEN r ELSE 0
    <3>1. fn = fo + a /\ gn = go + b /\ hn = ho + c
      BY <2>3
    <3>2. a \in Nat /\ b \in Nat /\ c \in Nat /\ c <= a + b
      <4>1. a \in {0, r} /\ b \in {0, r} /\ c \in {0, r} /\ (c = 0 \/ a = r \/ b = r)
        BY <2>4
      <4> HIDE DEF a, b, c
      <4>2. QED
        BY <2>2, <4>1
    <3> HIDE DEF fn, gn, hn, a, b, c
    <3>3. hn <= fn + gn
      BY <2>1, <2>2, <3>1, <3>2
    <3>4. QED
      BY <3>3 DEF fn, gn, hn
  <2>6. k \in 0..n
    BY <1>4
  <2>7. QED
    BY <2>5, <2>6
<1>7. 0..n \subseteq U
  <2> HIDE DEF U
  <2>1. QED
    BY <1>4, <1>5, <1>6, UpTo
<1>8. n \in U
  BY <1>4, <1>7
<1>9. QED
  BY <1>1, <1>2, <1>3, <1>8 DEF Sums

\* One more class adds its rate.
LEMMA RateSumAdds ==
  ASSUME NEW t, Tree(t), NEW ks, NEW j \in 1..Len(t), j \notin ks
  PROVE  RateSum(t, ks \cup {j}) = RateSum(t, ks) + t[j].rate
<1>1. PICK f : Sums(t, ks, f)
  BY RateSumUnfolds
<1>2. PICK g : Sums(t, ks \cup {j}, g)
  BY RateSumUnfolds
<1> DEFINE n == Len(t)
           w == t[j].rate
           U == {k \in 0..n : g[k] = f[k] + (IF j <= k THEN w ELSE 0)}
<1>3. n \in Nat /\ (\A k \in 1..n : t[k].rate \in Nat) /\ w \in Nat /\ j \in 1..n /\ j \in Nat
  BY DEF Tree
<1> HIDE DEF w
<1>4. 0 \in U
  BY <1>1, <1>2, <1>3 DEF Sums
<1>5. ASSUME NEW k \in 1..n, k - 1 \in U PROVE k \in U
  <2> DEFINE fo == f[k - 1]
             go == g[k - 1]
             r  == t[k].rate
  <2>1. k - 1 \in 0..n /\ go = fo + (IF j <= k - 1 THEN w ELSE 0) /\ k \in Nat
    BY <1>3, <1>5
  <2>2. fo \in Nat /\ go \in Nat /\ r \in Nat /\ (k = j => r = w)
    BY <1>1, <1>2, <1>3, <2>1 DEF Sums, w
  <2>3. /\ f[k] = fo + (IF k \in ks THEN r ELSE 0)
        /\ g[k] = go + (IF k \in ks \cup {j} THEN r ELSE 0)
    BY <1>1, <1>2 DEF Sums
  <2> HIDE DEF fo, go, r
  <2>4. g[k] = f[k] + (IF j <= k THEN w ELSE 0)
    <3>1. CASE k = j
      <4>1. ~(j <= k - 1) /\ j <= k /\ k \notin ks /\ k \in ks \cup {j}
        BY <1>3, <3>1
      <4>2. QED
        BY <1>3, <2>1, <2>2, <2>3, <3>1, <4>1
    <3>2. CASE k # j
      <4>1. (j <= k - 1 <=> j <= k) /\ (k \in ks \cup {j} <=> k \in ks)
        BY <1>3, <2>1, <3>2
      <4>2. QED
        BY <1>3, <2>1, <2>2, <2>3, <4>1
    <3>3. QED
      BY <3>1, <3>2
  <2>5. k \in 0..n
    BY <1>3
  <2>6. QED
    BY <2>4, <2>5
<1>6. 0..n \subseteq U
  <2> HIDE DEF U
  <2>1. QED
    BY <1>3, <1>4, <1>5, UpTo
<1>7. n \in U /\ j <= n
  BY <1>3, <1>6
<1>8. QED
  BY <1>1, <1>2, <1>7 DEF Sums, w

LEMMA NoRates ==
  ASSUME NEW t, Tree(t)
  PROVE  RateSum(t, {}) = 0
<1>1. PICK f : Sums(t, {}, f)
  BY RateSumUnfolds
<1> DEFINE n == Len(t)
           U == {k \in 0..n : f[k] = 0}
<1>2. n \in Nat
  BY DEF Tree
<1>3. 0 \in U
  BY <1>1, <1>2 DEF Sums
<1>4. ASSUME NEW k \in 1..n, k - 1 \in U PROVE k \in U
  <2>1. f[k] = f[k - 1] + 0 /\ f[k - 1] = 0
    BY <1>1, <1>4 DEF Sums
  <2>2. QED
    BY <1>2, <2>1
<1>5. 0..n \subseteq U
  <2> HIDE DEF U
  <2>1. QED
    BY <1>2, <1>3, <1>4, UpTo
<1>6. QED
  BY <1>1, <1>2, <1>5 DEF Sums

\* Sets of classes, one for each class of cs, whose rates are no higher than
\* that of their class: together they have no higher rates than cs.
LEMMA SharesFit ==
  ASSUME NEW t, Tree(t), NEW cs, cs \subseteq 1..Len(t), NEW below, NEW ls,
         \A l \in ls : \E c \in cs : l \in below[c],
         \A c \in cs : RateSum(t, below[c]) <= t[c].rate
  PROVE  RateSum(t, ls) <= RateSum(t, cs)
<1> DEFINE n == Len(t)
           upto(k) == {c \in cs : c <= k}
           share(k) == {l \in ls : \E c \in upto(k) : l \in below[c]}
           U == {k \in 0..n : RateSum(t, share(k)) <= RateSum(t, upto(k))}
<1>1. n \in Nat /\ \A k \in 1..n : t[k].rate \in Nat
  BY DEF Tree
<1>0. \A c \in cs : c \in Nat /\ 1 <= c /\ c <= n
  BY <1>1
<1>2. 0 \in U
  <2> DEFINE a == share(0)
             b == upto(0)
  <2>1. b = {} /\ a = {}
    <3>1. \A c \in cs : ~(c <= 0)
      BY <1>0
    <3>2. QED
      BY <3>1
  <2> HIDE DEF a, b
  <2>2. RateSum(t, a) <= RateSum(t, b)
    <3>1. RateSum(t, a) = 0 /\ RateSum(t, b) = 0
      BY <2>1, NoRates
    <3>2. QED
      BY <3>1
  <2>3. 0 \in 0..n
    BY <1>1
  <2>4. QED
    BY <2>2, <2>3 DEF a, b
<1>3. ASSUME NEW k \in 1..n, k - 1 \in U PROVE k \in U
  <2>1. RateSum(t, share(k - 1)) <= RateSum(t, upto(k - 1)) /\ k \in 0..n
    BY <1>1, <1>3
  <2>2. CASE k \notin cs
    <3>1. upto(k) = upto(k - 1)
      <4>1. \A c \in cs : c <= k <=> c <= k - 1
        <5>1. TAKE c \in cs
        <5>2. c \in Int /\ k \in Int /\ c # k
          BY <1>0, <1>1, <2>2
        <5>3. QED
          BY <5>2
      <4>2. QED
        BY <4>1
    <3>2. share(k) = share(k - 1)
      BY <3>1
    <3> HIDE DEF upto, share
    <3>3. QED
      BY <2>1, <3>1, <3>2
  <2>3. CASE k \in cs
    <3>1. upto(k) = upto(k - 1) \cup {k} /\ k \notin upto(k - 1)
      <4>1. k \in Int /\ ~(k <= k - 1) /\ \A c \in cs : c <= k <=> c <= k - 1 \/ c = k
        <5>1. k \in Int /\ \A c \in cs : c \in Int
          BY <1>0, <1>1
        <5>2. QED
          BY <5>1
      <4>2. QED
        BY <2>3, <4>1
    <3>2. share(k) \subseteq share(k - 1) \cup below[k]
      <4>1. SUFFICES ASSUME NEW l \in share(k) PROVE l \in share(k - 1) \cup below[k]
        OBVIOUS
      <4>2. PICK c \in upto(k) : l \in below[c]
        OBVIOUS
      <4>3. CASE c = k
        BY <4>2, <4>3
      <4>4. CASE c # k
        BY <3>1, <4>2, <4>4
      <4>5. QED
        BY <4>3, <4>4
    <3> DEFINE a == share(k - 1)
               b == below[k]
               c == share(k)
               d == upto(k - 1)
    <3>3. RateSum(t, b) <= t[k].rate
      BY <2>3
    <3>4. c \subseteq a \cup b /\ k \notin d /\ upto(k) = d \cup {k} /\ RateSum(t, a) <= RateSum(t, d)
      BY <2>1, <3>1, <3>2
    <3> HIDE DEF a, b, c, d
    <3>5. RateSum(t, c) <= RateSum(t, a) + RateSum(t, b)
      BY <3>4, RateSumJoins
    <3>6. RateSum(t, d \cup {k}) = RateSum(t, d) + t[k].rate
      BY <3>4, RateSumAdds
    <3>7. /\ RateSum(t, a) \in Nat /\ RateSum(t, b) \in Nat /\ RateSum(t, c) \in Nat /\ RateSum(t, d) \in Nat
          /\ t[k].rate \in Nat
      BY <1>1, RateSumIsNat
    <3>8. RateSum(t, c) <= RateSum(t, d \cup {k})
      BY <3>3, <3>4, <3>5, <3>6, <3>7
    <3>9. QED
      BY <2>1, <3>4, <3>8 DEF c
  <2>4. QED
    BY <2>2, <2>3
<1>4. 0..n \subseteq U
  <2> HIDE DEF U
  <2>1. QED
    BY <1>1, <1>2, <1>3, UpTo
<1>5. n \in U
  <2>1. n \in 0..n
    BY <1>1
  <2> HIDE DEF U, n
  <2>2. QED
    BY <1>4, <2>1
<1>6. upto(n) = cs /\ share(n) = ls
  <2>1. \A c \in cs : c <= n
    BY <1>1
  <2>2. QED
    BY <2>1
<1>7. QED
  <2> HIDE DEF upto, share
  <2>1. QED
    BY <1>5, <1>6

\* A class and those above it, up to the root.
LEMMA AboveUnfolds ==
  ASSUME NEW t, Tree(t)
  PROVE  /\ \A k \in 1..Len(t) : Above(t, k) =
              {k} \cup (IF t[k].parent = 0 THEN {} ELSE Above(t, t[k].parent))
<1> DEFINE n == Len(t)
           over(g, m) == {m} \cup (IF t[m].parent = 0 THEN {} ELSE g[t[m].parent])
           Good(m) == \E g : g = [k \in 1..m |-> g[k]] /\ \A k \in 1..m : g[k] = over(g, k)
           U == {m \in 0..n : Good(m)}
           Rec(g) == g = [m \in 1..n |-> over(g, m)]
           up == CHOOSE g : Rec(g)
<1>1. n \in Nat /\ DOMAIN t = 1..n /\ \A k \in 1..n : t[k].parent \in 0..(k - 1)
  BY DEF Tree
<1>2. \A k : Above(t, k) = up[k]
  BY <1>1 DEF Above
<1> HIDE DEF n
<1>3. 0 \in U
  <2> DEFINE g == [k \in 1..0 |-> 0]
  <2>1. g = [k \in 1..0 |-> g[k]] /\ \A k \in 1..0 : g[k] = over(g, k)
    OBVIOUS
  <2> HIDE DEF g, over
  <2>2. Good(0)
    BY <2>1
  <2>3. 0 \in 0..n
    BY <1>1
  <2> HIDE DEF Good
  <2>4. QED
    BY <2>2, <2>3
<1>4. ASSUME NEW m \in 1..n, m - 1 \in U PROVE m \in U
  <2>1. PICK g : g = [k \in 1..(m - 1) |-> g[k]] /\ \A k \in 1..(m - 1) : g[k] = over(g, k)
    BY <1>4
  <2> DEFINE h == [k \in 1..m |-> IF k = m THEN over(g, m) ELSE g[k]]
  <2>2. \A k \in 1..m : k < m => h[k] = g[k]
    OBVIOUS
  <2>3. \A k \in 1..m : t[k].parent # 0 => t[k].parent \in 1..m /\ t[k].parent < m
    BY <1>1
  <2>4. \A k \in 1..m : over(h, k) = over(g, k)
    BY <2>2, <2>3
  <2>5. \A k \in 1..m : h[k] = over(g, k)
    <3>1. TAKE k \in 1..m
    <3>2. CASE k = m
      BY <3>2
    <3>3. CASE k # m
      <4>1. k \in 1..(m - 1) /\ h[k] = g[k]
        BY <1>1, <3>3
      <4>2. QED
        BY <2>1, <4>1
    <3>4. QED
      BY <3>2, <3>3
  <2>6. h = [k \in 1..m |-> h[k]]
    OBVIOUS
  <2> HIDE DEF h
  <2>7. \A k \in 1..m : h[k] = over(h, k)
    BY <2>4, <2>5
  <2> HIDE DEF over
  <2>8. Good(m)
    BY <2>6, <2>7
  <2>9. m \in 0..n
    BY <1>1
  <2>10. QED
    BY <2>8, <2>9
<1>5. 0..n \subseteq U
  <2> HIDE DEF U
  <2>1. QED
    BY <1>1, <1>3, <1>4, UpTo
<1>6. PICK g : g = [k \in 1..n |-> g[k]] /\ \A k \in 1..n : g[k] = over(g, k)
  <2>1. n \in 0..n
    BY <1>1
  <2>2. n \in U
    <3> HIDE DEF U
    <3>1. QED
      BY <1>5, <2>1
  <2>3. Good(n)
    <3> HIDE DEF Good
    <3>1. QED
      BY <2>2
  <2> HIDE DEF over
  <2>4. QED
    BY <2>3
<1>7. Rec(g)
  <2> HIDE DEF over
  <2>1. QED
    BY <1>6
<1>8. Rec(up)
  <2> HIDE DEF Rec
  <2>1. QED
    BY <1>7
<1> HIDE DEF up
<1>9. \A k \in 1..n : up[k] = over(up, k)
  <2> HIDE DEF over
  <2>1. QED
    BY <1>8
<1>10. QED
  BY <1>2, <1>9 DEF n

\* Those above a class are classes, and one of their ceilings is no lower.
LEMMA AboveIs ==
  ASSUME NEW t, Tree(t), NEW j \in 1..Len(t)
  PROVE  /\ \A k \in Above(t, j) : k \in 1..j
         /\ \A k \in Above(t, j) : k = j \/ \E c \in Children(t, k) : c \in Above(t, j)
         /\ \E c \in Children(t, 0) : c \in Above(t, j)
         /\ CeilsConsistent(t) => \A k \in Above(t, j) : t[j].ceil <= t[k].ceil
<1> DEFINE n == Len(t)
           Good(m) == /\ \A k \in Above(t, m) : k \in 1..m
                      /\ \A k \in Above(t, m) : k = m \/ \E c \in Children(t, k) : c \in Above(t, m)
                      /\ \E c \in Children(t, 0) : c \in Above(t, m)
                      /\ CeilsConsistent(t) => \A k \in Above(t, m) : t[m].ceil <= t[k].ceil
           U == {m \in 0..n : \A k \in 1..m : Good(k)}
<1>1. /\ n \in Nat /\ DOMAIN t = 1..n /\ \A k \in 1..n : t[k].parent \in 0..(k - 1) /\ t[k].ceil \in Int
  BY DEF Tree
<1>2. 0 \in U
  BY <1>1
<1>3. ASSUME NEW m \in 1..n, m - 1 \in U PROVE m \in U
  <2> DEFINE p == t[m].parent
  <2>1. Above(t, m) = {m} \cup (IF p = 0 THEN {} ELSE Above(t, p))
    BY AboveUnfolds
  <2>2. p \in 0..(m - 1) /\ m \in Children(t, p) /\ m \in Nat
    <3>1. p \in 0..(m - 1) /\ m \in DOMAIN t /\ m \in Nat
      BY <1>1
    <3>2. QED
      BY <3>1 DEF Children
  <2>3. CeilsConsistent(t) /\ p # 0 => t[m].ceil <= t[p].ceil
    <3>1. p # 0 => p \in DOMAIN t
      BY <1>1, <2>2
    <3>2. QED
      BY <2>2, <3>1 DEF CeilsConsistent
  <2>4. p # 0 => Good(p) /\ p \in 1..(m - 1)
    <3>1. p # 0 => p \in 1..(m - 1)
      BY <2>2
    <3> HIDE DEF Good, p
    <3>2. \A k \in 1..(m - 1) : Good(k)
      BY <1>3
    <3>3. QED
      BY <3>1, <3>2
  <2>5. Good(m)
    <3>1. CASE p = 0
      <4>1. Above(t, m) = {m} /\ m \in Children(t, 0)
        BY <2>1, <2>2, <3>1
      <4>2. t[m].ceil <= t[m].ceil /\ m \in 1..m
        BY <1>1, <2>2
      <4>3. QED
        BY <4>1, <4>2
    <3>2. CASE p # 0
      <4>1. Above(t, m) = {m} \cup Above(t, p) /\ Good(p) /\ p \in 1..(m - 1)
        BY <2>1, <2>4, <3>2
      <4>2. \A k \in Above(t, m) : k \in 1..m
        BY <2>2, <4>1
      <4>3. \A k \in Above(t, m) : k = m \/ \E c \in Children(t, k) : c \in Above(t, m)
        <5>1. TAKE k \in Above(t, m)
        <5>2. CASE k = m
          BY <5>2
        <5>3. CASE k = p
          BY <2>2, <4>1, <5>3
        <5>4. CASE k # m /\ k # p
          <6>1. \E c \in Children(t, k) : c \in Above(t, p)
            BY <4>1, <5>4
          <6>2. QED
            BY <4>1, <6>1
        <5>5. QED
          BY <5>2, <5>3, <5>4
      <4>4. \E c \in Children(t, 0) : c \in Above(t, m)
        BY <4>1
      <4>5. ASSUME CeilsConsistent(t), NEW k \in Above(t, m) PROVE t[m].ceil <= t[k].ceil
        <5>1. CASE k = m
          BY <1>1, <5>1
        <5>2. CASE k # m
          <6>1. k \in Above(t, p) /\ k \in 1..p /\ p \in 1..n /\ k \in 1..n
            BY <1>1, <2>2, <4>1, <5>2
          <6>2. t[m].ceil <= t[p].ceil /\ t[p].ceil <= t[k].ceil
            BY <2>3, <3>2, <4>1, <4>5, <6>1
          <6>3. t[m].ceil \in Int /\ t[p].ceil \in Int /\ t[k].ceil \in Int
            BY <1>1, <6>1
          <6>4. QED
            BY <6>2, <6>3
        <5>3. QED
          BY <5>1, <5>2
      <4>6. QED
        BY <4>2, <4>3, <4>4, <4>5
    <3>3. QED
      BY <3>1, <3>2
  <2>6. \A k \in 1..m : Good(k)
    <3>1. TAKE k \in 1..m
    <3>2. k = m \/ k \in 1..(m - 1)
      BY <2>2
    <3> HIDE DEF Good
    <3>3. QED
      BY <1>3, <2>5, <3>2
  <2>7. m \in 0..n
    BY <1>1
  <2> HIDE DEF Good
  <2>8. QED
    BY <2>6, <2>7
<1>4. 0..n \subseteq U
  <2> HIDE DEF U
  <2>1. QED
    BY <1>1, <1>2, <1>3, UpTo
<1>5. Good(j)
  <2>1. n \in U /\ j \in 1..n
    BY <1>1, <1>4
  <2> HIDE DEF Good
  <2>2. QED
    BY <2>1
<1>6. QED
  BY <1>5

\* The leaves below a class.
LeavesBelow(t, k) == {m \in Leaves(t) : k \in Above(t, m)}

LEMMA BucketsFill ==
  ASSUME NEW t, Tree(t), NEW default, NEW speed \in Int
  PROVE  RatesCanBeGiven(t, default, speed)
<1> SUFFICES ASSUME HtbAccepted(t, default), FitsLink(t, speed)
             PROVE  /\ \A k \in DOMAIN t : RateSum(t, {m \in Leaves(t) : k \in Above(t, m)}) <= t[k].rate
                    /\ speed # 0 => RateSum(t, Leaves(t)) <= speed
                    /\ \A k \in DOMAIN t : \A m \in Above(t, k) : t[k].rate <= t[m].ceil
  BY DEF RatesCanBeGiven
<1> DEFINE n == Len(t)
           below == [k \in 1..n |-> LeavesBelow(t, k)]
           Bad == {k \in 1..n : ~(RateSum(t, LeavesBelow(t, k)) <= t[k].rate)}
<1>1. /\ n \in Nat /\ DOMAIN t = 1..n
      /\ \A k \in 1..n : t[k].parent \in 0..(k - 1) /\ t[k].rate \in Nat /\ t[k].ceil \in Int
  BY DEF Tree
<1>2. RatesConsistent(t) /\ CeilsConsistent(t) /\ CeilsAboveRates(t)
  BY DEF HtbAccepted
<1>3. \A k : Children(t, k) \subseteq 1..n
  BY <1>1 DEF Children
<1>4. \A ks : RateSum(t, ks) \in Nat
  BY RateSumIsNat
<1>5. \A k \in 1..n : RateSum(t, LeavesBelow(t, k)) <= t[k].rate
  <2>1. SUFFICES ASSUME Bad # {} PROVE FALSE
    OBVIOUS
  <2>2. PICK k \in Bad : \A q \in Bad : q <= k
    <3>1. Bad \subseteq 1..n
      OBVIOUS
    <3> HIDE DEF Bad
    <3>2. QED
      BY <1>1, <2>1, <3>1, GreatestUpTo
  <2>3. k \in 1..n /\ ~(RateSum(t, LeavesBelow(t, k)) <= t[k].rate)
    OBVIOUS
  <2>4. CASE k \in Leaves(t)
    <3>1. LeavesBelow(t, k) \subseteq {} \cup {k}
      <4>1. SUFFICES ASSUME NEW m \in LeavesBelow(t, k) PROVE m = k
        OBVIOUS
      <4>2. m \in Leaves(t) /\ k \in Above(t, m) /\ m \in 1..n
        BY <1>1 DEF LeavesBelow, Leaves
      <4>3. k = m \/ Children(t, k) # {}
        BY <4>2, AboveIs
      <4>4. QED
        BY <2>4, <4>3 DEF Leaves
    <3>2. RateSum(t, {k}) = t[k].rate
      <4> DEFINE e == {}
                 s == {k}
                 r == t[k].rate
      <4>1. k \notin e /\ s = e \cup {k} /\ RateSum(t, e) = 0 /\ r \in Nat
        BY <1>1, <2>3, NoRates
      <4> HIDE DEF e
      <4>2. RateSum(t, e \cup {k}) = RateSum(t, e) + r
        BY <2>3, <4>1, RateSumAdds
      <4> HIDE DEF s, r
      <4>3. RateSum(t, s) = r
        BY <4>1, <4>2
      <4>4. QED
        BY <4>3 DEF s, r
    <3>3. RateSum(t, LeavesBelow(t, k)) <= RateSum(t, {}) + RateSum(t, {k})
      BY <3>1, RateSumJoins
    <3>4. RateSum(t, {}) = 0
      BY NoRates
    <3>5. QED
      BY <1>1, <1>4, <2>3, <3>2, <3>3, <3>4
  <2>5. CASE k \notin Leaves(t)
    <3> DEFINE cs == Children(t, k)
               ls == LeavesBelow(t, k)
    <3>1. \A l \in ls : \E c \in cs : l \in below[c]
      <4>1. TAKE l \in ls
      <4>2. l \in Leaves(t) /\ k \in Above(t, l) /\ l \in 1..n
        BY <1>1 DEF LeavesBelow, Leaves
      <4>3. PICK c \in Children(t, k) : c \in Above(t, l)
        BY <2>5, <4>2, AboveIs
      <4>4. l \in LeavesBelow(t, c) /\ c \in 1..n
        BY <1>3, <4>2, <4>3 DEF LeavesBelow
      <4>5. QED
        BY <4>3, <4>4
    <3>2. \A c \in cs : RateSum(t, below[c]) <= t[c].rate
      <4>1. TAKE c \in cs
      <4>2. c \in 1..n /\ k < c
        BY <1>1, <1>3, <2>3 DEF Children
      <4>3. c \notin Bad
        BY <1>1, <2>2, <2>3, <4>2
      <4>4. below[c] = LeavesBelow(t, c)
        BY <4>2
      <4>5. QED
        BY <4>2, <4>3, <4>4
    <3>3. cs \subseteq 1..n
      BY <1>3
    <3> HIDE DEF cs, ls, below
    <3>4. RateSum(t, ls) <= RateSum(t, cs)
      BY <3>1, <3>2, <3>3, SharesFit
    <3>5. RateSum(t, cs) <= t[k].rate
      BY <1>1, <1>2, <2>3, <2>5 DEF RatesConsistent, cs
    <3>6. RateSum(t, ls) \in Nat /\ RateSum(t, cs) \in Nat /\ t[k].rate \in Nat
      BY <1>1, <1>4, <2>3
    <3>7. RateSum(t, ls) <= t[k].rate
      BY <3>4, <3>5, <3>6
    <3>8. QED
      BY <2>3, <3>7 DEF ls
  <2>6. QED
    BY <2>4, <2>5
<1>6. ASSUME speed # 0 PROVE RateSum(t, Leaves(t)) <= speed
  <2> DEFINE cs == Children(t, 0)
             ls == Leaves(t)
  <2>1. \A l \in ls : \E c \in cs : l \in below[c]
    <3>1. TAKE l \in ls
    <3>2. l \in 1..n
      BY <1>1 DEF Leaves
    <3>3. PICK c \in Children(t, 0) : c \in Above(t, l)
      BY <3>2, AboveIs
    <3>4. l \in LeavesBelow(t, c) /\ c \in 1..n
      BY <1>3, <3>3 DEF LeavesBelow
    <3>5. QED
      BY <3>3, <3>4
  <2>2. \A c \in cs : RateSum(t, below[c]) <= t[c].rate
    BY <1>3, <1>5
  <2>3. cs \subseteq 1..n
    BY <1>3
  <2> HIDE DEF ls, below
  <2>4. RateSum(t, ls) <= RateSum(t, cs)
    <3> HIDE DEF cs
    <3>1. QED
      BY <2>1, <2>2, <2>3, SharesFit
  <2>5. RateSum(t, cs) <= speed
    BY <1>6 DEF FitsLink
  <2>6. QED
    BY <1>4, <2>4, <2>5 DEF ls
<1>7. ASSUME NEW k \in 1..n, NEW m \in Above(t, k) PROVE t[k].rate <= t[m].ceil
  <2>1. t[k].ceil <= t[m].ceil /\ m \in 1..k
    BY <1>2, AboveIs
  <2>2. t[k].rate <= t[k].ceil
    BY <1>1, <1>2 DEF CeilsAboveRates
  <2>3. m \in 1..n
    BY <1>1, <2>1
  <2>4. t[k].rate \in Nat /\ t[k].ceil \in Int /\ t[m].ceil \in Int
    BY <1>1, <2>3
  <2>5. QED
    BY <2>1, <2>2, <2>4
<1>8. QED
  BY <1>1, <1>5, <1>6, <1>7 DEF LeavesBelow

-----------------------------------------------------------------------------
(* The documents of RuleDocuments: every step of RuleSpec writes an item   *)
(* from the list of its kind, so that what holds of all documents with     *)
(* such items holds of every document that is ever written.                *)

\* A document has a head in H and, behind it, items in S.
Doc(H, S) ==
  /\ Len(items) \in Nat /\ items = [n \in 1..Len(items) |-> items[n]]
  /\ items # << >> => items[1] \in H
  /\ \A n \in 2..Len(items) : items[n] \in S

LEMMA SeqIsFunction ==
  ASSUME NEW S, NEW s \in Seq(S)
  PROVE  Len(s) \in Nat /\ s = [n \in 1..Len(s) |-> s[n]]
OBVIOUS

LEMMA DocIsSeq ==
  ASSUME NEW H, NEW S, Doc(H, S)
  PROVE  items \in Seq(H \cup S) /\ (items # << >> => items[1] \in H /\ Written \in Seq(S))
<1>1. \A n \in 1..Len(items) : items[n] \in H \cup S
  <2>1. TAKE n \in 1..Len(items)
  <2>2. CASE n = 1
    BY <2>2 DEF Doc
  <2>3. CASE n # 1
    <3>1. n \in 2..Len(items)
      BY <2>3 DEF Doc
    <3>2. QED
      BY <3>1 DEF Doc
  <2>4. QED
    BY <2>2, <2>3
<1>2. items \in Seq(H \cup S)
  <2>1. Len(items) \in Nat /\ items = [n \in 1..Len(items) |-> items[n]]
    BY DEF Doc
  <2>2. QED
    BY <1>1, <2>1, FunctionIsSeq
<1>3. ASSUME items # << >> PROVE items[1] \in H /\ Written \in Seq(S)
  <2>1. items[1] \in H /\ \A n \in 2..Len(items) : items[n] \in S
    BY <1>3 DEF Doc
  <2>2. /\ Tail(items) \in Seq(H \cup S) /\ Len(Tail(items)) = Len(items) - 1 /\ Len(items) \in Nat \ {0}
        /\ \A n \in 1..(Len(items) - 1) : Tail(items)[n] = items[n + 1]
    BY <1>2, <1>3
  <2>3. \A n \in 1..Len(Tail(items)) : Tail(items)[n] \in S
    BY <2>1, <2>2
  <2>4. Tail(items) \in Seq(S)
    BY <2>2, <2>3, SeqInto
  <2>5. QED
    BY <2>1, <2>4 DEF Written
<1>4. QED
  BY <1>2, <1>3

LEMMA DocGrows ==
  ASSUME NEW H, NEW S, Doc(H, S), NEW x, x \in IF items = << >> THEN H ELSE S, items' = Append(items, x)
  PROVE  Doc(H, S)'
<1>1. items \in Seq(H \cup S)
  BY DocIsSeq
<1>2. x \in H \cup S
  OBVIOUS
<1>3. /\ items' \in Seq(H \cup S) /\ Len(items') = Len(items) + 1 /\ Len(items) \in Nat
      /\ items'[Len(items) + 1] = x /\ \A n \in 1..Len(items) : items'[n] = items[n]
  BY <1>1, <1>2
<1>4. items = << >> <=> Len(items) = 0
  BY <1>1
<1>5. items'[1] \in H
  <2>1. CASE items = << >>
    BY <1>3, <1>4, <2>1
  <2>2. CASE items # << >>
    <3>1. items'[1] = items[1] /\ items[1] \in H
      BY <1>3, <1>4, <2>2 DEF Doc
    <3>2. QED
      BY <3>1
  <2>3. QED
    BY <2>1, <2>2
<1>6. \A n \in 2..Len(items') : items'[n] \in S
  <2>1. TAKE n \in 2..Len(items')
  <2>2. CASE n = Len(items) + 1
    <3>1. items # << >>
      BY <1>3, <1>4, <2>2
    <3>2. QED
      BY <1>3, <2>2, <3>1
  <2>3. CASE n # Len(items) + 1
    <3>1. n \in 2..Len(items) /\ n \in 1..Len(items)
      BY <1>3, <2>3
    <3>2. items[n] \in S /\ items'[n] = items[n]
      BY <1>3, <3>1 DEF Doc
    <3>3. QED
      BY <3>2
  <2>4. QED
    BY <2>2, <2>3
<1>7. Len(items') \in Nat /\ items' = [n \in 1..Len(items') |-> items'[n]]
  BY <1>3, SeqIsFunction
<1>8. QED
  BY <1>5, <1>6, <1>7 DEF Doc

LEMMA WriteKeepsDoc ==
  ASSUME NEW k, NEW H, NEW S, NEW max, Doc(H, S), Write(k, H, S, max)
  PROVE  Doc(H, S)'
BY DocGrows DEF Write

LEMMA WriteSetKeepsDoc ==
  ASSUME NEW k, NEW H, NEW list, Doc(H, DOMAIN list), WriteSet(k, H, list)
  PROVE  Doc(H, DOMAIN list)'
<1>1. CASE items = << >>
  <2>1. PICK x \in H : items' = <<x>>
    BY <1>1 DEF WriteSet
  <2>2. Append(items, x) = <<x>>
    BY <1>1
  <2>3. QED
    BY <1>1, <2>1, <2>2, DocGrows
<1>2. CASE items # << >>
  <2>1. PICK n \in DOMAIN list : items' = Append(items, n)
    BY <1>2 DEF WriteSet
  <2>2. QED
    BY <1>2, <2>1, DocGrows
<1>3. QED
  BY <1>1, <1>2

LEMMA ClassKeepsDoc ==
  ASSUME Doc({0, 3}, ClassMenu), \A n \in 2..Len(items) : items[n].parent < n - 1, WriteHtbClass
  PROVE  Doc({0, 3}, ClassMenu)' /\ \A n \in 2..Len(items') : items'[n].parent < n - 1
<1>1. PICK x \in (IF items = << >> THEN {0, 3} ELSE {c \in ClassMenu : c.parent < Len(items)}) :
        items' = Append(items, x)
  BY DEF WriteHtbClass, Write
<1>2. x \in IF items = << >> THEN {0, 3} ELSE ClassMenu
  OBVIOUS
<1>3. Doc({0, 3}, ClassMenu)'
  BY <1>1, <1>2, DocGrows
<1>4. items \in Seq({0, 3} \cup ClassMenu)
  BY DocIsSeq
<1>5. /\ Len(items') = Len(items) + 1 /\ Len(items) \in Nat /\ items'[Len(items) + 1] = x
      /\ \A n \in 1..Len(items) : items'[n] = items[n]
  BY <1>1, <1>2, <1>4
<1>6. ASSUME NEW n \in 2..Len(items') PROVE items'[n].parent < n - 1
  <2>1. CASE n = Len(items) + 1
    <3>1. items # << >>
      BY <1>4, <1>5, <2>1
    <3>2. x.parent < Len(items)
      BY <1>1, <3>1
    <3>3. n - 1 = Len(items) /\ items'[n] = x
      BY <1>5, <2>1
    <3>4. QED
      BY <3>2, <3>3
  <2>2. CASE n # Len(items) + 1
    <3>1. n \in 2..Len(items) /\ n \in 1..Len(items)
      BY <1>5, <2>2
    <3>2. QED
      BY <1>5, <3>1
  <2>3. QED
    BY <2>1, <2>2
<1>7. QED
  BY <1>3, <1>6

\* The head says which items a signal may have.
LEMMA SignalKeepsDoc ==
  ASSUME Doc(SignalHeads, EncodingMenu(items[1].encoding)), WriteSignal
  PROVE  Doc(SignalHeads, EncodingMenu(items[1].encoding))'
<1>1. PICK S : S = EncodingMenu(items[1].encoding)
  OBVIOUS
<1>2. Doc(SignalHeads, S)
  BY <1>1
<1>3. PICK x \in (IF items = << >> THEN SignalHeads ELSE S) : items' = Append(items, x)
  BY <1>1 DEF WriteSignal, Write
<1>4. Doc(SignalHeads, S)'
  BY <1>2, <1>3, DocGrows
<1>5. items \in Seq(SignalHeads \cup S)
  BY <1>2, DocIsSeq
<1>6. CASE items = << >>
  <2>1. Len(items') = 1
    BY <1>3, <1>6
  <2>2. QED
    BY <1>4, <2>1 DEF Doc
<1>7. CASE items # << >>
  <2>1. items'[1] = items[1]
    BY <1>3, <1>5, <1>7
  <2>2. S = EncodingMenu(items'[1].encoding)
    BY <1>1, <2>1
  <2>3. QED
    BY <1>4, <2>2
<1>8. QED
  BY <1>6, <1>7

LEMMA EmptyDoc ==
  ASSUME items = << >>
  PROVE  /\ \A H, S : Doc(H, S)
         /\ \A n \in 2..Len(items) : items[n].parent < n - 1
<1>1. Len(items) = 0
  OBVIOUS
<1>2. QED
  BY <1>1 DEF Doc

\* The inductive invariant.
RuleInv ==
  /\ kind = "wiring"    => Doc(WiringHeads, ConnectionMenu)
  /\ kind = "switch"    => Doc(SwitchHeads, RuleMenu)
  /\ kind = "htb"       => Doc({0, 3}, ClassMenu) /\ \A n \in 2..Len(items) : items[n].parent < n - 1
  /\ kind = "interface" => Doc(InterfaceHeads, DOMAIN InterfaceItems)
  /\ kind = "payload"   => Doc(PayloadHeads, PayloadMenu)
  /\ kind = "mux"       => Doc(MuxHeads, MuxMenu)
  /\ kind = "someip"    => Doc(ServiceHeads, DOMAIN ServiceItems)
  /\ kind = "forwarding" => Doc(ForwarderHeads, DOMAIN ForwarderItems)
  /\ kind = "mapping"   => Doc(MappingHeads, DOMAIN MappingNodes)
  /\ kind = "signal"    => Doc(SignalHeads, EncodingMenu(items[1].encoding))
  /\ kind = "enum"      => Doc(BaseTypes, EnumValues)
  /\ kind = "models"    => Doc(ModelHeads, DOMAIN ModelFields)
  /\ kind = "datatype"  => Doc(TypeHeads, DOMAIN TypeNodes)
  /\ kind = "files"     => Doc(FileHeads, DOMAIN FileItems)

LEMMA InvHolds == RuleSpec => []RuleInv
<1>1. Init => RuleInv
  BY EmptyDoc DEF Init, RuleInv
<1>2. RuleInv /\ [NextRule]_vars => RuleInv'
  <2> SUFFICES ASSUME RuleInv, [NextRule]_vars PROVE RuleInv'
    OBVIOUS
  <2>1. CASE WriteConnection
    <3>1. kind = "wiring" /\ kind' = "wiring"
      BY <2>1 DEF WriteConnection, Write
    <3>2. Doc(WiringHeads, ConnectionMenu)'
      BY <2>1, <3>1, WriteKeepsDoc DEF RuleInv, WriteConnection
    <3>3. QED
      BY <3>1, <3>2 DEF RuleInv
  <2>2. CASE WriteRule
    <3>1. kind = "switch" /\ kind' = "switch"
      BY <2>2 DEF WriteRule, Write
    <3>2. Doc(SwitchHeads, RuleMenu)'
      BY <2>2, <3>1, WriteKeepsDoc DEF RuleInv, WriteRule
    <3>3. QED
      BY <3>1, <3>2 DEF RuleInv
  <2>3. CASE WriteInterface
    <3>1. kind = "interface" /\ kind' = "interface"
      BY <2>3 DEF WriteInterface, WriteSet
    <3>2. Doc(InterfaceHeads, DOMAIN InterfaceItems)'
      BY <2>3, <3>1, WriteSetKeepsDoc DEF RuleInv, WriteInterface
    <3>3. QED
      BY <3>1, <3>2 DEF RuleInv
  <2>4. CASE WritePayload
    <3>1. kind = "payload" /\ kind' = "payload"
      BY <2>4 DEF WritePayload, Write
    <3>2. Doc(PayloadHeads, PayloadMenu)'
      BY <2>4, <3>1, WriteKeepsDoc DEF RuleInv, WritePayload
    <3>3. QED
      BY <3>1, <3>2 DEF RuleInv
  <2>5. CASE WriteMux
    <3>1. kind = "mux" /\ kind' = "mux"
      BY <2>5 DEF WriteMux, Write
    <3>2. Doc(MuxHeads, MuxMenu)'
      BY <2>5, <3>1, WriteKeepsDoc DEF RuleInv, WriteMux
    <3>3. QED
      BY <3>1, <3>2 DEF RuleInv
  <2>6. CASE WriteService
    <3>1. kind = "someip" /\ kind' = "someip"
      BY <2>6 DEF WriteService, WriteSet
    <3>2. Doc(ServiceHeads, DOMAIN ServiceItems)'
      BY <2>6, <3>1, WriteSetKeepsDoc DEF RuleInv, WriteService
    <3>3. QED
      BY <3>1, <3>2 DEF RuleInv
  <2>0. CASE WriteHtbClass
    <3>1. kind = "htb" /\ kind' = "htb"
      BY <2>0 DEF WriteHtbClass, Write
    <3>2. Doc({0, 3}, ClassMenu)' /\ \A n \in 2..Len(items') : items'[n].parent < n - 1
      BY <2>0, <3>1, ClassKeepsDoc DEF RuleInv
    <3>3. QED
      BY <3>1, <3>2 DEF RuleInv
  <2>7. CASE WriteMember
    <3>1. kind' = "state"
      BY <2>7 DEF WriteMember, WriteSet
    <3>2. QED
      BY <3>1 DEF RuleInv
  <2>13. CASE WriteSignal
    <3>1. kind = "signal" /\ kind' = "signal"
      BY <2>13 DEF WriteSignal, Write
    <3>2. Doc(SignalHeads, EncodingMenu(items[1].encoding))'
      BY <2>13, <3>1, SignalKeepsDoc DEF RuleInv
    <3>3. QED
      BY <3>1, <3>2 DEF RuleInv
  <2>14. CASE WriteEnumValue
    <3>1. kind = "enum" /\ kind' = "enum"
      BY <2>14 DEF WriteEnumValue, Write
    <3>2. Doc(BaseTypes, EnumValues)'
      BY <2>14, <3>1, WriteKeepsDoc DEF RuleInv, WriteEnumValue
    <3>3. QED
      BY <3>1, <3>2 DEF RuleInv
  <2>11. CASE WriteForwarder
    <3>1. kind = "forwarding" /\ kind' = "forwarding"
      BY <2>11 DEF WriteForwarder, WriteSet
    <3>2. Doc(ForwarderHeads, DOMAIN ForwarderItems)'
      BY <2>11, <3>1, WriteSetKeepsDoc DEF RuleInv, WriteForwarder
    <3>3. QED
      BY <3>1, <3>2 DEF RuleInv
  <2>12. CASE WriteArxml
    <3>1. kind = "mapping" /\ kind' = "mapping"
      BY <2>12 DEF WriteArxml, WriteSet
    <3>2. Doc(MappingHeads, DOMAIN MappingNodes)'
      BY <2>12, <3>1, WriteSetKeepsDoc DEF RuleInv, WriteArxml
    <3>3. QED
      BY <3>1, <3>2 DEF RuleInv
  <2>15. CASE WriteField
    <3>1. kind = "models" /\ kind' = "models"
      BY <2>15 DEF WriteField, WriteSet
    <3>2. Doc(ModelHeads, DOMAIN ModelFields)'
      BY <2>15, <3>1, WriteSetKeepsDoc DEF RuleInv, WriteField
    <3>3. QED
      BY <3>1, <3>2 DEF RuleInv
  <2>16. CASE WriteType
    <3>1. kind = "datatype" /\ kind' = "datatype"
      BY <2>16 DEF WriteType, WriteSet
    <3>2. Doc(TypeHeads, DOMAIN TypeNodes)'
      BY <2>16, <3>1, WriteSetKeepsDoc DEF RuleInv, WriteType
    <3>3. QED
      BY <3>1, <3>2 DEF RuleInv
  <2>17. CASE WriteFiles
    <3>1. kind = "files" /\ kind' = "files"
      BY <2>17 DEF WriteFiles, WriteSet
    <3>2. Doc(FileHeads, DOMAIN FileItems)'
      BY <2>17, <3>1, WriteSetKeepsDoc DEF RuleInv, WriteFiles
    <3>3. QED
      BY <3>1, <3>2 DEF RuleInv
  <2>8. CASE StartOver
    <3>1. items' = << >> /\ Len(items') = 0
      BY <2>8 DEF StartOver
    <3>2. (\A H, S : Doc(H, S)') /\ \A n \in 2..Len(items') : items'[n].parent < n - 1
      BY <3>1 DEF Doc
    <3>3. QED
      BY <3>2 DEF RuleInv
  <2>9. CASE UNCHANGED vars
    BY <2>9 DEF vars, RuleInv, Doc
  <2>10. QED
    BY <2>0, <2>1, <2>2, <2>3, <2>4, <2>5, <2>6, <2>7, <2>8, <2>9, <2>11, <2>12, <2>13, <2>14, <2>15, <2>16, <2>17 DEF NextRule
<1>3. QED
  BY <1>1, <1>2, PTL DEF RuleSpec

LEMMA PartsAreFinite == IsFiniteSet(WiringParts)
<1>1. \A a, b, c, d, e, f : IsFiniteSet({a, b, c, d, e, f})
  <2>1. TAKE a, b, c, d, e, f
  <2>2. IsFiniteSet({a}) /\ IsFiniteSet({b}) /\ IsFiniteSet({c}) /\ IsFiniteSet({d}) /\ IsFiniteSet({e}) /\ IsFiniteSet({f})
    BY FS_Singleton
  <2>3. IsFiniteSet({a} \cup {b}) /\ IsFiniteSet({c} \cup {d}) /\ IsFiniteSet({e} \cup {f})
    BY <2>2, FS_Union
  <2>4. IsFiniteSet(({a} \cup {b}) \cup ({c} \cup {d}))
    BY <2>3, FS_Union
  <2>5. IsFiniteSet((({a} \cup {b}) \cup ({c} \cup {d})) \cup ({e} \cup {f}))
    BY <2>3, <2>4, FS_Union
  <2>6. {a, b, c, d, e, f} = (({a} \cup {b}) \cup ({c} \cup {d})) \cup ({e} \cup {f})
    OBVIOUS
  <2>7. QED
    BY <2>5, <2>6
<1>2. QED
  BY <1>1 DEF WiringParts

\* Between any finite set of parts and for connections in any number and any
\* order: where Connections.model_post_init accepts them, both ends know each
\* other afterwards, also when a part is connected again, except that an ECU
\* port may know another part of the same name; so it is for the connections
\* that are written here.
THEOREM ConnectionsStay ==
  /\ \A parts, C : \A conns \in Seq(C) : IsFiniteSet(parts) => EndsKnowEachOther(parts, conns)
  /\ RuleSpec => []ConnectionsKept
<1>1. \A parts, C : \A conns \in Seq(C) : IsFiniteSet(parts) => EndsKnowEachOther(parts, conns)
  BY WiringKeeps
<1>2. RuleInv => ConnectionsKept
  <2>1. SUFFICES ASSUME RuleInv, kind = "wiring", items # << >> PROVE EndsKnowEachOther(WiringParts, Written)
    BY DEF ConnectionsKept
  <2>2. Written \in Seq(ConnectionMenu)
    BY <2>1, DocIsSeq DEF RuleInv
  <2>3. QED
    BY <2>2, PartsAreFinite, WiringKeeps
<1>3. QED
  BY <1>1, <1>2, InvHolds, PTL

PortNames   == {"p", "q", "r"}
ActionTypes == {"drop", "mirror", "force_egress", "remove_vlan"}
FrameMasks  == [offset : Int, data : Int, mask : Int, window : Int]
TypedAct    == [type : ActionTypes, ports : Seq(PortNames)]

LEMMA ActIs ==
  ASSUME NEW t \in ActionTypes, NEW s \in Seq(PortNames)
  PROVE  Act(t, s) \in TypedAct
BY DEF Act, TypedAct

LEMMA PairsOf ==
  ASSUME NEW S, NEW a \in S, NEW b \in S
  PROVE  <<a>> \in Seq(S) /\ <<a, b>> \in Seq(S)
OBVIOUS

LEMMA RuleIs ==
  ASSUME NEW id, id \in {1, 2, 3}, NEW frames, frames \subseteq FrameMasks,
         NEW state, state \subseteq SUBSET VehicleBits, NEW smask, smask \subseteq SUBSET VehicleBits,
         NEW actions \in Seq(TypedAct)
  PROVE  RuleOf(id, frames, state, smask, actions) \in Rule(ActionTypes, PortNames)
<1>1. id \in Int /\ (frames = {}) \in BOOLEAN /\ << >> \in Seq(PortNames)
  OBVIOUS
<1>2. /\ frames \in SUBSET [offset : Int, data : Int, mask : Int, window : Int]
      /\ actions \in Seq([type : ActionTypes, ports : Seq(PortNames)])
  BY DEF FrameMasks, TypedAct
<1>3. QED
  BY <1>1, <1>2 DEF RuleOf, Rule

LEMMA FrameMaskIs ==
  ASSUME NEW f \in Int, NEW d \in Int
  PROVE  {FrameMask(f, d, d, 4)} \subseteq FrameMasks
BY DEF FrameMask, FrameMasks

LEMMA MenuRules == RuleMenu \subseteq Rule(ActionTypes, PortNames)
<1>1. << >> \in Seq(PortNames) /\ <<"p">> \in Seq(PortNames) /\ <<"q">> \in Seq(PortNames) /\ <<"r">> \in Seq(PortNames)
  <2>1. "p" \in PortNames /\ "q" \in PortNames /\ "r" \in PortNames
    BY DEF PortNames
  <2>2. QED
    BY <2>1, PairsOf
<1>2. "drop" \in ActionTypes /\ "mirror" \in ActionTypes /\ "force_egress" \in ActionTypes /\ "remove_vlan" \in ActionTypes
  BY DEF ActionTypes
<1>3. /\ {{0}} \subseteq SUBSET VehicleBits /\ {{0, 1}} \subseteq SUBSET VehicleBits
      /\ {{1}} \subseteq SUBSET VehicleBits /\ {{2}} \subseteq SUBSET VehicleBits
      /\ {{}} \subseteq SUBSET VehicleBits /\ {} \subseteq SUBSET VehicleBits /\ {} \subseteq FrameMasks
  BY DEF VehicleBits
<1>4. RuleOf(1, {}, {{0}}, {{0, 1}}, <<Act("drop", <<"p">>), Act("mirror", <<"q">>)>>) \in Rule(ActionTypes, PortNames)
  <2>1. Act("drop", <<"p">>) \in TypedAct /\ Act("mirror", <<"q">>) \in TypedAct
    BY <1>1, <1>2, ActIs
  <2>2. <<Act("drop", <<"p">>), Act("mirror", <<"q">>)>> \in Seq(TypedAct)
    BY <2>1, PairsOf
  <2>3. QED
    BY <1>3, <2>2, RuleIs
<1>5. RuleOf(1, {}, {}, {}, <<Act("drop", << >>), Act("mirror", << >>)>>) \in Rule(ActionTypes, PortNames)
  <2>1. Act("drop", << >>) \in TypedAct /\ Act("mirror", << >>) \in TypedAct
    BY <1>1, <1>2, ActIs
  <2>2. <<Act("drop", << >>), Act("mirror", << >>)>> \in Seq(TypedAct)
    BY <2>1, PairsOf
  <2>3. QED
    BY <1>3, <2>2, RuleIs
<1>6. RuleOf(1, {FrameMask(0, 8, 8, 4)}, {{2}}, {{0, 1}}, <<Act("drop", <<"p">>)>>) \in Rule(ActionTypes, PortNames)
  <2>1. Act("drop", <<"p">>) \in TypedAct
    BY <1>1, <1>2, ActIs
  <2>2. <<Act("drop", <<"p">>)>> \in Seq(TypedAct)
    BY <2>1, PairsOf
  <2>3. {FrameMask(0, 8, 8, 4)} \subseteq FrameMasks
    BY FrameMaskIs
  <2>4. QED
    BY <1>3, <2>2, <2>3, RuleIs
<1>7. RuleOf(2, {FrameMask(3, 8, 8, 4)}, {}, {}, <<Act("drop", <<"p">>), Act("force_egress", <<"p">>)>>) \in Rule(ActionTypes, PortNames)
  <2>1. Act("drop", <<"p">>) \in TypedAct /\ Act("force_egress", <<"p">>) \in TypedAct
    BY <1>1, <1>2, ActIs
  <2>2. <<Act("drop", <<"p">>), Act("force_egress", <<"p">>)>> \in Seq(TypedAct)
    BY <2>1, PairsOf
  <2>3. {FrameMask(3, 8, 8, 4)} \subseteq FrameMasks
    BY FrameMaskIs
  <2>4. QED
    BY <1>3, <2>2, <2>3, RuleIs
<1>8. RuleOf(2, {FrameMask(3, 9, 9, 4)}, {{1}}, {}, <<Act("drop", <<"q">>), Act("remove_vlan", <<"q">>)>>) \in Rule(ActionTypes, PortNames)
  <2>1. Act("drop", <<"q">>) \in TypedAct /\ Act("remove_vlan", <<"q">>) \in TypedAct
    BY <1>1, <1>2, ActIs
  <2>2. <<Act("drop", <<"q">>), Act("remove_vlan", <<"q">>)>> \in Seq(TypedAct)
    BY <2>1, PairsOf
  <2>3. {FrameMask(3, 9, 9, 4)} \subseteq FrameMasks
    BY FrameMaskIs
  <2>4. QED
    BY <1>3, <2>2, <2>3, RuleIs
<1>9. RuleOf(2, {FrameMask(2, 12, 12, 4)}, {}, {{1}}, <<Act("mirror", <<"r">>)>>) \in Rule(ActionTypes, PortNames)
  <2>1. Act("mirror", <<"r">>) \in TypedAct
    BY <1>1, <1>2, ActIs
  <2>2. <<Act("mirror", <<"r">>)>> \in Seq(TypedAct)
    BY <2>1, PairsOf
  <2>3. {FrameMask(2, 12, 12, 4)} \subseteq FrameMasks
    BY FrameMaskIs
  <2>4. QED
    BY <1>3, <2>2, <2>3, RuleIs
<1>10. RuleOf(3, {FrameMask(1, 12, 12, 4)}, {{}}, {{1}}, <<Act("remove_vlan", << >>), Act("drop", <<"q">>)>>) \in Rule(ActionTypes, PortNames)
  <2>1. Act("remove_vlan", << >>) \in TypedAct /\ Act("drop", <<"q">>) \in TypedAct
    BY <1>1, <1>2, ActIs
  <2>2. <<Act("remove_vlan", << >>), Act("drop", <<"q">>)>> \in Seq(TypedAct)
    BY <2>1, PairsOf
  <2>3. {FrameMask(1, 12, 12, 4)} \subseteq FrameMasks
    BY FrameMaskIs
  <2>4. QED
    BY <1>3, <2>2, <2>3, RuleIs
<1>11. QED
  BY <1>4, <1>5, <1>6, <1>7, <1>8, <1>9, <1>10 DEF RuleMenu

\* For any list of TCAM rules, ports, states and masks: of the exclusive actions
\* of an accepted rule that names their ports, or has only one of them, one at
\* most falls on a port; every state an accepted rule waits for is one that its
\* mask lets through, and its frame masks stay in their windows.
THEOREM TcamRulesApply ==
  /\ \A Types, Name, s : s.rules \in Seq(Rule(Types, Name)) => RulesWork(s)
  /\ RuleSpec => []RulesApply
<1>1. \A Types, Name, s : s.rules \in Seq(Rule(Types, Name)) => RulesWork(s)
  BY SwitchWorks
<1>2. RuleInv => RulesApply
  <2>1. SUFFICES ASSUME RuleInv, kind = "switch", items # << >> PROVE RulesWork(SwitchDoc)
    BY DEF RulesApply
  <2>2. Written \in Seq(RuleMenu)
    BY <2>1, DocIsSeq DEF RuleInv
  <2>3. Written \in Seq(Rule(ActionTypes, PortNames))
    BY <2>2, MenuRules
  <2>4. SwitchDoc.rules = Written
    BY DEF SwitchDoc
  <2>5. QED
    BY <2>3, <2>4, SwitchWorks
<1>3. QED
  BY <1>1, <1>2, InvHolds, PTL

\* For any sets of ECUs, buses, groups and profiles: the participants of a
\* group of an accepted network hear each other, as MembersInformed says.  (The
\* names of the tags "none" and "socket" are no names of ECUs and buses.)
THEOREM MembersAreInformed ==
  /\ \A n : Network(n) => MembersInformed(n)
  /\ RuleSpec => []MembersKnow
<1>1. \A n : Network(n) => MembersInformed(n)
  BY MembersInform
<1>2. MembersKnow
  <2>1. \A e \in StateDoc.ecus : e.name # "none"
    BY DEF StateDoc, EcuDoc
  <2>2. \A b \in StateDoc.buses : b.name # "socket" /\ b.rate \in Nat \ {0} /\ \A f \in b.frames : f.length \in Nat
    BY DEF StateDoc
  <2>3. \A t \in StateDoc.profiles : t.cycle \in Nat /\ t.timeout \in Nat
    BY DEF StateDoc
  <2>4. QED
    BY <2>1, <2>2, <2>3, MembersInform DEF Network, MembersKnow
<1>3. QED
  BY <1>1, <1>2, PTL

LEMMA ItemsAtIn ==
  ASSUME NEW S, NEW list, NEW tag, NEW ns \in Seq(DOMAIN list),
         \A n \in DOMAIN list : list[n].tag = tag => list[n].item \in S
  PROVE  ItemsAt(list, ns, tag) \in Seq(S)
<1> DEFINE s == [k \in DOMAIN ns |-> LET x == list[ns[k]] IN IF x.tag = tag THEN <<x.item>> ELSE << >>]
<1>1. Len(ns) \in Nat /\ DOMAIN ns = 1..Len(ns)
  OBVIOUS
<1>2. ASSUME NEW k \in 1..Len(ns) PROVE s[k] \in Seq(S)
  <2>1. ns[k] \in DOMAIN list
    BY ElementIn
  <2>2. s[k] = IF list[ns[k]].tag = tag THEN <<list[ns[k]].item>> ELSE << >>
    BY <1>1
  <2>3. << >> \in Seq(S) /\ \A y \in S : <<y>> \in Seq(S)
    OBVIOUS
  <2>4. CASE list[ns[k]].tag = tag
    BY <2>1, <2>2, <2>3, <2>4
  <2>5. CASE list[ns[k]].tag # tag
    BY <2>2, <2>3, <2>5
  <2>6. QED
    BY <2>4, <2>5
<1>3. s = [k \in 1..Len(ns) |-> s[k]]
  BY <1>1
<1>4. ItemsAt(list, ns, tag) = FlattenSeq(s)
  BY DEF ItemsAt
<1> HIDE DEF s
<1>5. QED
  BY <1>1, <1>2, <1>3, <1>4, KeptOf

LEMMA ChosenSeqIn ==
  ASSUME NEW S, NEW list, NEW tag, Written \in Seq(DOMAIN list),
         \A n \in DOMAIN list : list[n].tag = tag => list[n].item \in S
  PROVE  ChosenSeq(list, tag) \in Seq(S)
BY ItemsAtIn DEF ChosenSeq

LEMMA TaggedIn ==
  ASSUME NEW S, NEW M, NEW tag, Written \in Seq(M), \A x \in M : x.tag = tag => x.item \in S
  PROVE  Tagged(tag) \in Seq(S)
<1> DEFINE s == [k \in DOMAIN Written |-> IF Written[k].tag = tag THEN <<Written[k].item>> ELSE << >>]
<1>1. Len(Written) \in Nat /\ DOMAIN Written = 1..Len(Written)
  OBVIOUS
<1>2. ASSUME NEW k \in 1..Len(Written) PROVE s[k] \in Seq(S)
  <2>1. Written[k] \in M
    BY ElementIn
  <2>2. s[k] = IF Written[k].tag = tag THEN <<Written[k].item>> ELSE << >>
    BY <1>1
  <2>3. << >> \in Seq(S) /\ \A y \in S : <<y>> \in Seq(S)
    OBVIOUS
  <2>4. CASE Written[k].tag = tag
    BY <2>1, <2>2, <2>3, <2>4
  <2>5. CASE Written[k].tag # tag
    BY <2>2, <2>3, <2>5
  <2>6. QED
    BY <2>4, <2>5
<1>3. s = [k \in 1..Len(Written) |-> s[k]]
  BY <1>1
<1>4. Tagged(tag) = FlattenSeq(s)
  BY DEF Tagged
<1> HIDE DEF s
<1>5. QED
  BY <1>1, <1>2, <1>3, <1>4, KeptOf

Addresses == [family : {4}, ip : Int, prefix : {1}]
ViNames   == {"v1", "v2", "v3", "v4", "n1", "n2", "w"}
Vis       == [name : ViNames, vlan : Int, multicast : {{}}, addresses : Seq(Addresses)]
NodesOf   == [name : {"node"}, mac : {"m1"}, vis : Seq(Vis), features : {{"ptp_config"}}]

LEMMA ViIs ==
  ASSUME NEW name \in ViNames, NEW v \in Int, NEW ips \in Seq(Int)
  PROVE  Vi(name, v, ips) \in Vis
<1> DEFINE s == [k \in DOMAIN ips |-> Address(ips[k])]
<1>1. \A k \in 1..Len(ips) : s[k] \in Addresses
  <2>1. TAKE k \in 1..Len(ips)
  <2>2. ips[k] \in Int /\ k \in DOMAIN ips
    OBVIOUS
  <2>3. QED
    BY <2>2 DEF Address, Addresses
<1>2. s = [k \in 1..Len(ips) |-> s[k]] /\ Len(ips) \in Nat
  OBVIOUS
<1> HIDE DEF s
<1>3. s \in Seq(Addresses)
  BY <1>1, <1>2, FunctionIsSeq
<1>4. QED
  BY <1>3 DEF s, Vi, Vis

LEMMA ViOne ==
  ASSUME NEW name \in ViNames, NEW v \in Int, NEW a \in Int, NEW b \in Int
  PROVE  Vi(name, v, <<a>>) \in Vis /\ Vi(name, v, <<a, b>>) \in Vis
<1> DEFINE s == <<a>>
           t == <<a, b>>
<1>1. s \in Seq(Int) /\ t \in Seq(Int)
  OBVIOUS
<1> HIDE DEF s, t
<1>2. Vi(name, v, s) \in Vis /\ Vi(name, v, t) \in Vis
  BY <1>1, ViIs
<1>3. QED
  BY <1>2 DEF s, t

LEMMA NodeIs ==
  ASSUME NEW v \in Vis
  PROVE  NodeOf("m1", v) \in NodesOf
BY PairsOf DEF NodeOf, NodesOf

LEMMA ItemsAre ==
  /\ DOMAIN InterfaceItems = 1..12
  /\ \A n \in 1..12 : InterfaceItems[n].tag = "vi" => InterfaceItems[n].item \in Vis
  /\ \A n \in 1..12 : InterfaceItems[n].tag = "node" => InterfaceItems[n].item \in NodesOf
<1>1. /\ Vi("v1", 1, <<1>>) \in Vis /\ Vi("v2", 2, <<2, 3>>) \in Vis /\ Vi("v3", 2, <<1>>) \in Vis
      /\ Vi("v4", 4096, <<3>>) \in Vis /\ Vi("n1", 1, <<4>>) \in Vis /\ Vi("n2", 1, <<5>>) \in Vis
  <2>1. "v1" \in ViNames /\ "v2" \in ViNames /\ "v3" \in ViNames /\ "v4" \in ViNames /\ "n1" \in ViNames /\ "n2" \in ViNames
    BY DEF ViNames
  <2> DEFINE one == 1
             two == 2
             three == 3
             four == 4
             five == 5
             high == 4096
  <2>2. one \in Int /\ two \in Int /\ three \in Int /\ four \in Int /\ five \in Int /\ high \in Int
    OBVIOUS
  <2> HIDE DEF one, two, three, four, five, high
  <2>3. Vi("v1", one, <<one>>) \in Vis
    BY <2>1, <2>2, ViOne
  <2>4. Vi("v2", two, <<two, three>>) \in Vis
    BY <2>1, <2>2, ViOne
  <2>5. Vi("v3", two, <<one>>) \in Vis
    BY <2>1, <2>2, ViOne
  <2>6. Vi("v4", high, <<three>>) \in Vis
    BY <2>1, <2>2, ViOne
  <2>7. Vi("n1", one, <<four>>) \in Vis
    BY <2>1, <2>2, ViOne
  <2>8. Vi("n2", one, <<five>>) \in Vis
    BY <2>1, <2>2, ViOne
  <2>9. QED
    BY <2>3, <2>4, <2>5, <2>6, <2>7, <2>8 DEF one, two, three, four, five, high
<1>2. NodeOf("m1", Vi("n1", 1, <<4>>)) \in NodesOf /\ NodeOf("m1", Vi("n2", 1, <<5>>)) \in NodesOf
  BY <1>1, NodeIs
<1>3. /\ InterfaceItems[1] = T("vi", Vi("v1", 1, <<1>>)) /\ InterfaceItems[2] = T("vi", Vi("v2", 2, <<2, 3>>))
      /\ InterfaceItems[3] = T("vi", Vi("v3", 2, <<1>>)) /\ InterfaceItems[4] = T("vi", Vi("v4", 4096, <<3>>))
  BY DEF InterfaceItems
<1>4. /\ InterfaceItems[5] = T("node", NodeOf("m1", Vi("n1", 1, <<4>>)))
      /\ InterfaceItems[6] = T("node", NodeOf("m1", Vi("n2", 1, <<5>>)))
  BY DEF InterfaceItems
<1>5. /\ InterfaceItems[7].tag = "route" /\ InterfaceItems[8].tag = "route"
      /\ InterfaceItems[9].tag = "sockets" /\ InterfaceItems[10].tag = "sockets"
      /\ InterfaceItems[11].tag = "sockets" /\ InterfaceItems[12].tag = "sockets"
  BY DEF InterfaceItems, T
<1>6. DOMAIN InterfaceItems = 1..12
  BY DEF InterfaceItems
<1>7. \A n \in 1..12 : n = 1 \/ n = 2 \/ n = 3 \/ n = 4 \/ n = 5 \/ n = 6 \/ n = 7 \/ n = 8 \/ n = 9 \/ n = 10 \/ n = 11 \/ n = 12
  OBVIOUS
<1>8. \A tag, item : T(tag, item).tag = tag /\ T(tag, item).item = item
  BY DEF T
<1>9. /\ "vi" # "node" /\ "vi" # "route" /\ "vi" # "sockets" /\ "node" # "route" /\ "node" # "sockets"
  OBVIOUS
<1>10. ASSUME NEW n \in 1..12
       PROVE  /\ InterfaceItems[n].tag = "vi" => InterfaceItems[n].item \in Vis
              /\ InterfaceItems[n].tag = "node" => InterfaceItems[n].item \in NodesOf
  <2>1. CASE n = 1 \/ n = 2 \/ n = 3 \/ n = 4
    BY <1>1, <1>3, <1>8, <1>9, <2>1
  <2>2. CASE n = 5 \/ n = 6
    BY <1>2, <1>4, <1>8, <1>9, <2>2
  <2>3. CASE n = 7 \/ n = 8 \/ n = 9 \/ n = 10 \/ n = 11 \/ n = 12
    BY <1>5, <1>9, <2>3
  <2>4. QED
    BY <1>7, <2>1, <2>2, <2>3
<1>11. QED
  BY <1>6, <1>10

\* For any lists of interfaces, VLANs, addresses and sockets: a unicast socket of
\* an accepted ECU hangs on an address, and on one only, in a VLAN that its
\* interface receives, as SocketsReachable says.
THEOREM SocketsAreBound ==
  /\ \A c, Ifc, Node, V, Adr : Lists(c, Ifc, Node, V, Adr) => SocketsReachable(c)
  /\ RuleSpec => []SocketsBound
<1>1. \A c, Ifc, Node, V, Adr : Lists(c, Ifc, Node, V, Adr) => SocketsReachable(c)
  BY SocketsReach
<1>2. RuleInv => SocketsBound
  <2>1. SUFFICES ASSUME RuleInv, kind = "interface", items # << >> PROVE SocketsReachable(ControllerDoc)
    BY DEF SocketsBound
  <2>2. Written \in Seq(DOMAIN InterfaceItems)
    BY <2>1, DocIsSeq DEF RuleInv
  <2>3. ChosenSeq(InterfaceItems, "vi") \in Seq(Vis) /\ ChosenSeq(InterfaceItems, "node") \in Seq(NodesOf)
    BY <2>2, ItemsAre, ChosenSeqIn
  <2>4. InterfaceDoc.vis \in Seq(Vis) /\ InterfaceDoc.nodes \in Seq(NodesOf)
    BY <2>3 DEF InterfaceDoc
  <2>5. OtherInterface.vis \in Seq(Vis) /\ OtherInterface.nodes \in Seq(NodesOf)
    <3>1. Vi("w", 2, <<4>>) \in Vis
      <4> DEFINE two == 2
                 four == 4
      <4>1. "w" \in ViNames /\ two \in Int /\ four \in Int
        BY DEF ViNames
      <4> HIDE DEF two, four
      <4>2. Vi("w", two, <<four>>) \in Vis
        BY <4>1, ViOne
      <4>3. QED
        BY <4>2 DEF two, four
    <3>2. OtherInterface.vis = <<Vi("w", 2, <<4>>)>> /\ OtherInterface.nodes = << >>
      BY DEF OtherInterface
    <3>3. <<Vi("w", 2, <<4>>)>> \in Seq(Vis) /\ << >> \in Seq(NodesOf)
      BY <3>1, PairsOf
    <3>4. QED
      BY <3>2, <3>3
  <2> DEFINE Ifc == {InterfaceDoc, OtherInterface}
  <2>6. ControllerDoc.ifaces \in Seq(Ifc)
    <3>1. ControllerDoc.ifaces = <<InterfaceDoc, OtherInterface>>
      BY DEF ControllerDoc
    <3>2. InterfaceDoc \in Ifc /\ OtherInterface \in Ifc
      OBVIOUS
    <3> HIDE DEF Ifc
    <3>3. QED
      BY <3>1, <3>2, PairsOf
  <2>7. \A i \in Ifc : i.vis \in Seq(Vis) /\ i.nodes \in Seq(NodesOf)
    BY <2>4, <2>5
  <2>8. (\A n \in NodesOf : n.vis \in Seq(Vis)) /\ (\A v \in Vis : v.addresses \in Seq(Addresses))
    BY DEF NodesOf, Vis
  <2> HIDE DEF Ifc
  <2>9. Lists(ControllerDoc, Ifc, NodesOf, Vis, Addresses)
    BY <2>6, <2>7, <2>8 DEF Lists
  <2>10. QED
    BY <2>9, SocketsReach
<1>3. QED
  BY <1>1, <1>2, InvHolds, PTL

Elems    == {ServiceItems[n].item : n \in 1..5}
EventTags == {"event 1", "field 1", "event 2", "field 2"}

LEMMA ServiceItemsAre ==
  /\ DOMAIN ServiceItems = 1..11
  /\ \A n \in 1..11 : ServiceItems[n].tag \in EventTags => ServiceItems[n].item \in Elems
  /\ \A e \in Elems : \A p, q \in e.e2e : p = q
<1>1. DOMAIN ServiceItems = 1..11
  BY DEF ServiceItems
<1>2. /\ ServiceItems[6].tag = "group 1" /\ ServiceItems[7].tag = "group 1" /\ ServiceItems[8].tag = "group 2"
      /\ ServiceItems[9].tag = "deployment" /\ ServiceItems[10].tag = "deployment" /\ ServiceItems[11].tag = "deployment"
  BY DEF ServiceItems, T
<1>3. "group 1" \notin EventTags /\ "group 2" \notin EventTags /\ "deployment" \notin EventTags
  BY DEF EventTags
<1>4. \A n \in 1..11 : n \in 1..5 \/ n = 6 \/ n = 7 \/ n = 8 \/ n = 9 \/ n = 10 \/ n = 11
  OBVIOUS
<1>5. ASSUME NEW n \in 1..11, ServiceItems[n].tag \in EventTags PROVE ServiceItems[n].item \in Elems
  <2>1. n \in 1..5
    BY <1>2, <1>3, <1>4, <1>5
  <2>2. QED
    BY <2>1 DEF Elems
<1>6. /\ ServiceItems[1].item.e2e = {<<"P1", 1>>} /\ ServiceItems[2].item.e2e = {}
      /\ ServiceItems[3].item.e2e = {<<"P1", 2>>} /\ ServiceItems[4].item.e2e = {<<"P1", 1>>}
      /\ ServiceItems[5].item.e2e = {<<"P1", 2>>}
  BY DEF ServiceItems, T, Element
<1>7. ASSUME NEW e \in Elems, NEW p \in e.e2e, NEW q \in e.e2e PROVE p = q
  <2>1. PICK n \in 1..5 : e = ServiceItems[n].item
    BY DEF Elems
  <2>2. n = 1 \/ n = 2 \/ n = 3 \/ n = 4 \/ n = 5
    OBVIOUS
  <2>3. e.e2e = {<<"P1", 1>>} \/ e.e2e = {} \/ e.e2e = {<<"P1", 2>>}
    BY <1>6, <2>1, <2>2
  <2>4. QED
    BY <2>3
<1>8. QED
  BY <1>1, <1>5, <1>7

LEMMA ServiceIs ==
  ASSUME Written \in Seq(DOMAIN ServiceItems), NEW n, NEW name, NEW event \in EventTags, NEW field \in EventTags,
         NEW group, NEW s, s = ServiceOf(n, name, event, field, group)
  PROVE  s.events \in Seq(Elems) /\ s.fields \in Seq(Elems) /\ s.methods \in Seq(Elems)
<1>1. ChosenSeq(ServiceItems, event) \in Seq(Elems) /\ ChosenSeq(ServiceItems, field) \in Seq(Elems)
  BY ServiceItemsAre, ChosenSeqIn
<1>2. << >> \in Seq(Elems)
  OBVIOUS
<1>3. s.events = ChosenSeq(ServiceItems, event) /\ s.fields = ChosenSeq(ServiceItems, field) /\ s.methods = << >>
  BY DEF ServiceOf
<1>4. QED
  BY <1>1, <1>2, <1>3

\* For any lists of services whose elements have one end-to-end pair at most: a
\* consumer of an accepted network hears a notifier for every name it asks for,
\* each timed and with a pair that no other notifier of any service has; those
\* that are written out in a group are not among them.
THEOREM ConsumersAreServed ==
  /\ \A n, Srv, Elem : Services(n, Srv, Elem) => SubscriptionsWork(n)
  /\ RuleSpec => []ConsumersServed
<1>1. \A n, Srv, Elem : Services(n, Srv, Elem) => SubscriptionsWork(n)
  BY Subscribed
<1>2. RuleInv => ConsumersServed
  <2>1. SUFFICES ASSUME RuleInv, kind = "someip", items # << >> PROVE SubscriptionsWork(SomeIpDoc)
    BY DEF ConsumersServed
  <2>2. Written \in Seq(DOMAIN ServiceItems)
    BY <2>1, DocIsSeq DEF RuleInv
  <2> DEFINE s1  == ServiceOf(1, "service 1", "event 1", "field 1", "group 1")
             s2  == ServiceOf(2, "service 2", "event 2", "field 2", "group 2")
             Srv == {s1, s2}
  <2>3. SomeIpDoc.services = <<s1, s2>>
    BY DEF SomeIpDoc
  <2>4. "event 1" \in EventTags /\ "field 1" \in EventTags /\ "event 2" \in EventTags /\ "field 2" \in EventTags
    BY DEF EventTags
  <2>5. s1.events \in Seq(Elems) /\ s1.fields \in Seq(Elems) /\ s1.methods \in Seq(Elems)
    BY <2>2, <2>4, ServiceIs
  <2>6. s2.events \in Seq(Elems) /\ s2.fields \in Seq(Elems) /\ s2.methods \in Seq(Elems)
    BY <2>2, <2>4, ServiceIs
  <2> HIDE DEF s1, s2
  <2>7. s1 \in Srv /\ s2 \in Srv /\ \A s \in Srv : s.events \in Seq(Elems) /\ s.fields \in Seq(Elems) /\ s.methods \in Seq(Elems)
    BY <2>5, <2>6
  <2> HIDE DEF Srv
  <2>8. SomeIpDoc.services \in Seq(Srv)
    BY <2>3, <2>7, PairsOf
  <2>9. Services(SomeIpDoc, Srv, Elems)
    BY <2>7, <2>8, ServiceItemsAre DEF Services
  <2>10. QED
    BY <2>9, Subscribed
<1>3. QED
  BY <1>1, <1>2, InvHolds, PTL

PlacedPdus == [ref : {"p", "q"}, at : SUBSET Nat]

LEMMA PayloadMenuIs ==
  \A x \in PayloadMenu : /\ x.tag = "signal" => x.item \in Inst
                         /\ x.tag = "pdu" => x.item \in PlacedPdus
<1>1. TAKE x \in PayloadMenu
<1>2. CASE x \in {T("signal", Placed({at}, 4)) : at \in {0, 4, 6, 12}}
  <2>1. PICK at \in {0, 4, 6, 12} : x = T("signal", Placed({at}, 4))
    BY <1>2
  <2>2. x.tag = "signal" /\ x.item = [at |-> {at}, bits |-> 4]
    BY <2>1 DEF T, Placed
  <2>3. {at} \in SUBSET Nat /\ 4 \in Nat
    OBVIOUS
  <2>4. QED
    BY <2>2, <2>3 DEF Inst
<1>3. CASE x \in {T("pdu", [ref |-> "p", at |-> at]) : at \in {{}, {0}, {8}, {16}}}
  <2>1. PICK at \in {{}, {0}, {8}, {16}} : x = T("pdu", [ref |-> "p", at |-> at])
    BY <1>3
  <2>2. x.tag = "pdu" /\ x.item = [ref |-> "p", at |-> at]
    BY <2>1 DEF T
  <2>3. at \in SUBSET Nat
    OBVIOUS
  <2>4. QED
    BY <2>2, <2>3 DEF PlacedPdus
<1>4. CASE x \in {T("pdu", [ref |-> "q", at |-> at]) : at \in {{0}, {8}, {16}, {24}, {25}}}
  <2>1. PICK at \in {{0}, {8}, {16}, {24}, {25}} : x = T("pdu", [ref |-> "q", at |-> at])
    BY <1>4
  <2>2. x.tag = "pdu" /\ x.item = [ref |-> "q", at |-> at]
    BY <2>1 DEF T
  <2>3. at \in SUBSET Nat
    OBVIOUS
  <2>4. QED
    BY <2>2, <2>3 DEF PlacedPdus
<1>5. QED
  BY <1>2, <1>3, <1>4 DEF PayloadMenu

LEMMA PlacedIs ==
  ASSUME NEW at \in SUBSET Nat, NEW bits \in Nat
  PROVE  Placed(at, bits) \in Inst
BY DEF Placed, Inst

LEMMA StandardIs ==
  ASSUME NEW name, NEW length \in Nat, NEW signals \in Seq(Inst), NEW groups \in Seq(Group)
  PROVE  /\ Pdu(Standard(name, length, signals, groups))
         /\ Standard(name, length, signals, groups).length = length
BY DEF Standard, Pdu

LEMMA PayloadIs ==
  ASSUME kind = "payload", items # << >>, RuleInv
  PROVE  Channels(PayloadDoc, {"p", "q"})
<1>1. Written \in Seq(PayloadMenu) /\ items[1] \in PayloadHeads
  BY DocIsSeq DEF RuleInv
<1>2. Tagged("signal") \in Seq(Inst) /\ Tagged("pdu") \in Seq(PlacedPdus)
  BY <1>1, PayloadMenuIs, TaggedIn
<1> DEFINE g == [at |-> items[1], members |-> <<Placed({4}, 2), Placed({}, 3), Placed({0}, 2)>>]
           own == <<Placed({8}, 4)>>
           p == Standard("p", 2, own \o Tagged("signal"), <<g>>)
           q == Standard("q", 1, <<Placed({0}, 4)>>, << >>)
           f == [name |-> "f", type |-> "can", length |-> 4, id |-> 1, format |-> "standard_11bit",
                 remote |-> FALSE, pdus |-> Tagged("pdu")]
           b == [name |-> "b", rate |-> 500, fd |-> FALSE, fdRate |-> {}, frames |-> <<f>>]
<1>3. /\ Placed({8}, 4) \in Inst /\ Placed({4}, 2) \in Inst /\ Placed({}, 3) \in Inst
      /\ Placed({0}, 2) \in Inst /\ Placed({0}, 4) \in Inst
  <2>1. /\ {8} \in SUBSET Nat /\ {4} \in SUBSET Nat /\ {0} \in SUBSET Nat /\ {} \in SUBSET Nat
        /\ 2 \in Nat /\ 3 \in Nat /\ 4 \in Nat
    OBVIOUS
  <2>2. Placed({8}, 4) \in Inst
    BY <2>1, PlacedIs
  <2>3. Placed({4}, 2) \in Inst
    BY <2>1, PlacedIs
  <2>4. Placed({}, 3) \in Inst
    BY <2>1, PlacedIs
  <2>5. Placed({0}, 2) \in Inst
    BY <2>1, PlacedIs
  <2>6. Placed({0}, 4) \in Inst
    BY <2>1, PlacedIs
  <2>7. QED
    BY <2>2, <2>3, <2>4, <2>5, <2>6
<1>4. g \in Group
  <2>1. items[1] \in SUBSET Nat
    BY <1>1 DEF PayloadHeads
  <2>2. <<Placed({4}, 2), Placed({}, 3), Placed({0}, 2)>> \in Seq(Inst)
    <3> DEFINE x == Placed({4}, 2)
               y == Placed({}, 3)
               z == Placed({0}, 2)
    <3>1. x \in Inst /\ y \in Inst /\ z \in Inst
      BY <1>3
    <3> HIDE DEF x, y, z
    <3>2. <<x, y, z>> \in Seq(Inst)
      BY <3>1
    <3>3. QED
      BY <3>2 DEF x, y, z
  <2>3. QED
    BY <2>1, <2>2 DEF Group
<1>5. own \in Seq(Inst) /\ <<Placed({0}, 4)>> \in Seq(Inst)
  BY <1>3, PairsOf
<1>6. own \o Tagged("signal") \in Seq(Inst)
  <2> HIDE DEF own
  <2>1. QED
    BY <1>2, <1>5
<1>7. <<g>> \in Seq(Group) /\ << >> \in Seq(Group)
  <2> HIDE DEF g
  <2>1. QED
    BY <1>4, PairsOf
<1>8. PayloadDoc.pdus = <<p, q>> /\ PayloadDoc.cans = <<b>> /\ PayloadDoc.lins = << >>
  BY DEF PayloadDoc
<1>9. f.length \in Nat /\ f.pdus = Tagged("pdu") /\ b.frames = <<f>>
  OBVIOUS
<1> HIDE DEF own, g
<1>10. Pdu(p) /\ p.length \in Nat /\ Pdu(q) /\ q.length \in Nat
  <2>1. 2 \in Nat /\ 1 \in Nat
    OBVIOUS
  <2>2. Pdu(p) /\ p.length = 2
    BY <1>6, <1>7, <2>1, StandardIs
  <2>3. Pdu(q) /\ q.length = 1
    BY <1>5, <1>7, <2>1, StandardIs
  <2>4. QED
    BY <2>1, <2>2, <2>3
<1> HIDE DEF p, q, f, b
<1>11. \A x \in ToSet(PayloadDoc.pdus) : x = p \/ x = q
  BY <1>8 DEF ToSet
<1>12. FramesOf(PayloadDoc) \subseteq {f}
  <2> DEFINE U == {ToSet(c.frames) : c \in ToSet(PayloadDoc.cans) \cup ToSet(PayloadDoc.lins)}
  <2>1. ToSet(PayloadDoc.cans) = {b} /\ ToSet(PayloadDoc.lins) = {}
    BY <1>8 DEF ToSet
  <2>2. ToSet(b.frames) = {f}
    BY <1>9 DEF ToSet
  <2>3. \A s \in U : s = {f}
    BY <2>1, <2>2
  <2>4. FramesOf(PayloadDoc) = UNION U
    BY DEF FramesOf
  <2> HIDE DEF U
  <2>5. QED
    BY <2>3, <2>4
<1>13. QED
  BY <1>2, <1>9, <1>10, <1>11, <1>12 DEF Channels, PlacedPdus

MuxGroups == [value : {0, 1, 3}, pdu : MuxPdus]

LEMMA MuxMenuIs ==
  /\ \A x \in MuxMenu : /\ x.tag = "mux" => x.item \in MuxGroups
                        /\ x.tag = "static" => x.item \in StaticPdus
  /\ \A y \in MuxPdus \cup StaticPdus : Pdu(y)
<1>1. /\ 2 \in Nat /\ << >> \in Seq(Inst) /\ << >> \in Seq(Group)
  OBVIOUS
<1>2. \A at \in Nat : \A bits \in Nat : Placed({at}, bits) \in Inst /\ <<Placed({at}, bits)>> \in Seq(Inst)
  <2>1. TAKE at \in Nat, bits \in Nat
  <2>2. Placed({at}, bits) \in Inst
    BY PlacedIs
  <2>3. QED
    BY <2>2, PairsOf
<1>3. \A s \in Seq(Inst) : Pdu(Standard("m", 2, s, << >>)) /\ Pdu(Standard("s", 2, s, << >>))
  BY <1>1, StandardIs
<1>4. \A y \in MuxPdus : Pdu(y)
  <2>1. Pdu(Standard("m", 2, <<Placed({3}, 4)>>, << >>)) /\ Pdu(Standard("m", 2, <<Placed({1}, 2)>>, << >>))
    <3>1. 1 \in Nat /\ 2 \in Nat /\ 3 \in Nat /\ 4 \in Nat
      OBVIOUS
    <3>2. <<Placed({3}, 4)>> \in Seq(Inst)
      BY <1>2, <3>1
    <3>3. <<Placed({1}, 2)>> \in Seq(Inst)
      BY <1>2, <3>1
    <3>4. QED
      BY <1>3, <3>2, <3>3
  <2>2. Pdu(Standard("m", 2, << >>, <<[at |-> {1}, members |-> <<Placed({2}, 2)>>]>>))
    <3>1. 2 \in Nat /\ {1} \in SUBSET Nat
      OBVIOUS
    <3>2. <<Placed({2}, 2)>> \in Seq(Inst)
      BY <1>2, <3>1
    <3>3. [at |-> {1}, members |-> <<Placed({2}, 2)>>] \in Group
      BY <3>1, <3>2 DEF Group
    <3>4. <<[at |-> {1}, members |-> <<Placed({2}, 2)>>]>> \in Seq(Group)
      BY <3>3, PairsOf
    <3>5. QED
      BY <1>1, <3>4, StandardIs
  <2>3. QED
    BY <2>1, <2>2 DEF MuxPdus
<1>5. \A y \in StaticPdus : Pdu(y)
  <2>1. Pdu(Standard("s", 2, <<Placed({1}, 4)>>, << >>)) /\ Pdu(Standard("s", 2, <<Placed({8}, 4)>>, << >>))
    <3>1. 1 \in Nat /\ 8 \in Nat /\ 4 \in Nat
      OBVIOUS
    <3>2. <<Placed({1}, 4)>> \in Seq(Inst)
      BY <1>2, <3>1
    <3>3. <<Placed({8}, 4)>> \in Seq(Inst)
      BY <1>2, <3>1
    <3>4. QED
      BY <1>3, <3>2, <3>3
  <2>2. Pdu(Standard("s", 2, << >>, <<[at |-> {1}, members |-> <<Placed({2}, 2)>>]>>))
    <3>1. 2 \in Nat /\ {1} \in SUBSET Nat
      OBVIOUS
    <3>2. <<Placed({2}, 2)>> \in Seq(Inst)
      BY <1>2, <3>1
    <3>3. [at |-> {1}, members |-> <<Placed({2}, 2)>>] \in Group
      BY <3>1, <3>2 DEF Group
    <3>4. <<[at |-> {1}, members |-> <<Placed({2}, 2)>>]>> \in Seq(Group)
      BY <3>3, PairsOf
    <3>5. QED
      BY <1>1, <3>4, StandardIs
  <2>3. QED
    BY <2>1, <2>2 DEF StaticPdus
<1>6. ASSUME NEW x \in MuxMenu
      PROVE  (x.tag = "mux" => x.item \in MuxGroups) /\ (x.tag = "static" => x.item \in StaticPdus)
  <2>1. CASE x \in {T("mux", g) : g \in [value : {0, 1, 3}, pdu : MuxPdus]}
    <3>1. PICK g \in MuxGroups : x = T("mux", g)
      BY <2>1 DEF MuxGroups
    <3>2. x.tag = "mux" /\ x.item = g
      BY <3>1 DEF T
    <3>3. QED
      BY <3>2
  <2>2. CASE x \in {T("static", s) : s \in StaticPdus}
    <3>1. PICK s \in StaticPdus : x = T("static", s)
      BY <2>2
    <3>2. x.tag = "static" /\ x.item = s
      BY <3>1 DEF T
    <3>3. QED
      BY <3>2
  <2>3. QED
    BY <2>1, <2>2 DEF MuxMenu
<1>7. QED
  BY <1>4, <1>5, <1>6

LEMMA MuxIs ==
  ASSUME kind = "mux", items # << >>, RuleInv
  PROVE  Mux(MuxDoc, MuxGroups)
<1>1. Written \in Seq(MuxMenu) /\ items[1] \in MuxHeads
  BY DocIsSeq DEF RuleInv
<1>2. Tagged("mux") \in Seq(MuxGroups) /\ Tagged("static") \in Seq(StaticPdus)
  BY <1>1, MuxMenuIs, TaggedIn
<1>3. items[1] \in Inst
  <2>1. /\ {0} \in SUBSET Nat /\ {3} \in SUBSET Nat /\ {} \in SUBSET Nat /\ 1 \in Nat /\ 2 \in Nat
    OBVIOUS
  <2>2. Placed({0}, 2) \in Inst
    BY <2>1, PlacedIs
  <2>3. Placed({3}, 1) \in Inst
    BY <2>1, PlacedIs
  <2>4. Placed({}, 2) \in Inst
    BY <2>1, PlacedIs
  <2>5. QED
    BY <1>1, <2>2, <2>3, <2>4 DEF MuxHeads
<1>4. /\ MuxDoc.selector = items[1] /\ MuxDoc.mux = Tagged("mux")
      /\ MuxDoc.static = IF Tagged("static") = << >> THEN {} ELSE {Last(Tagged("static"))}
  BY DEF MuxDoc
<1>5. \A y \in MuxDoc.static : y \in StaticPdus
  <2> DEFINE s == Tagged("static")
  <2>1. s \in Seq(StaticPdus) /\ MuxDoc.static = IF s = << >> THEN {} ELSE {Last(s)}
    BY <1>2, <1>4
  <2> HIDE DEF s
  <2>2. s # << >> => Last(s) \in StaticPdus
    BY <2>1 DEF Last
  <2>3. QED
    BY <2>1, <2>2
<1>6. \A h \in MuxGroups : h.pdu \in MuxPdus
  BY DEF MuxGroups
<1>7. QED
  BY <1>2, <1>3, <1>4, <1>5, <1>6, MuxMenuIs DEF Mux

\* For any number of signals, groups, PDUs and frames, of any sizes and at any
\* places: the signals of the frames of accepted channels have bits of their
\* own, although signals, groups and PDUs are checked at three levels; and the
\* selector of an accepted multiplexed PDU is not written over by the group it
\* chooses nor by the signals of the static PDU, those in signal groups of the
\* static PDU excepted.
THEOREM SignalsStayApart ==
  /\ \A c, R : Channels(c, R) => SignalsHaveOwnBits(c)
  /\ \A p, G : Mux(p, G) => SelectorReadable(p)
  /\ RuleSpec => []SignalsApart
<1>1. \A c, R : Channels(c, R) => SignalsHaveOwnBits(c)
  BY SignalsOwnBits
<1>2. \A p, G : Mux(p, G) => SelectorReadable(p)
  BY SelectorReads
<1>3. RuleInv => SignalsApart
  <2>1. ASSUME RuleInv, kind = "payload", items # << >> PROVE SignalsHaveOwnBits(PayloadDoc)
    BY <2>1, PayloadIs, SignalsOwnBits
  <2>2. ASSUME RuleInv, kind = "mux", items # << >> PROVE SelectorReadable(MuxDoc)
    BY <2>2, MuxIs, SelectorReads
  <2>3. QED
    BY <2>1, <2>2 DEF SignalsApart
<1>4. QED
  BY <1>1, <1>2, <1>3, InvHolds, PTL

LEMMA HtbIsTree ==
  ASSUME kind = "htb", items # << >>, RuleInv
  PROVE  Tree(HtbDoc) /\ items[1] \in Int
<1>1. /\ items[1] \in {0, 3} /\ Written \in Seq(ClassMenu) /\ items \in Seq({0, 3} \cup ClassMenu)
      /\ \A n \in 2..Len(items) : items[n].parent < n - 1
  BY DocIsSeq DEF RuleInv
<1> DEFINE n == Len(Written)
           class(k) == [id |-> k, prio |-> k, parent |-> Written[k].parent,
                        rate |-> Written[k].rate, ceil |-> Written[k].ceil]
<1>2. n \in Nat /\ DOMAIN Written = 1..n /\ \A k \in 1..n : Written[k] \in ClassMenu
  BY <1>1
<1>3. ASSUME NEW k \in 1..n PROVE Written[k].parent < k
  <2>1. Written[k] = items[k + 1] /\ k + 1 \in 2..Len(items) /\ k \in Nat
    BY <1>1 DEF Written
  <2>2. items[k + 1].parent < (k + 1) - 1 /\ (k + 1) - 1 = k
    BY <1>1, <2>1
  <2>3. QED
    BY <2>1, <2>2
<1>4. HtbDoc = [k \in 1..n |-> class(k)]
  BY <1>2 DEF HtbDoc
<1>5. \A k \in 1..n : HtbDoc[k].parent \in 0..(k - 1) /\ HtbDoc[k].rate \in Nat /\ HtbDoc[k].ceil \in Int
  <2>1. TAKE k \in 1..n
  <2>2. Written[k].parent \in Nat /\ Written[k].rate \in Nat /\ Written[k].ceil \in Int
    BY <1>2 DEF ClassMenu
  <2>3. /\ HtbDoc[k].parent = Written[k].parent /\ HtbDoc[k].rate = Written[k].rate
        /\ HtbDoc[k].ceil = Written[k].ceil
    BY <1>4
  <2>4. k \in Nat
    BY <1>2
  <2>5. QED
    BY <1>3, <2>2, <2>3, <2>4
<1>6. Len(HtbDoc) = n /\ DOMAIN HtbDoc = 1..n
  <2> DEFINE S == {class(k) : k \in 1..n}
  <2>1. HtbDoc = [k \in 1..n |-> HtbDoc[k]] /\ \A k \in 1..n : HtbDoc[k] \in S
    BY <1>4
  <2> HIDE DEF S, n
  <2>2. QED
    BY <1>2, <2>1, FunctionIsSeq
<1> HIDE DEF n
<1>7. QED
  BY <1>1, <1>2, <1>5, <1>6 DEF Tree

\* In any accepted tree of token buckets, of any depth, whose classes come
\* behind the one above them: all leaves can have their rates at once.
THEOREM RatesAreGiven ==
  /\ \A t, default : \A speed \in Int : Tree(t) => RatesCanBeGiven(t, default, speed)
  /\ RuleSpec => []BucketsFit
<1>1. \A t, default : \A speed \in Int : Tree(t) => RatesCanBeGiven(t, default, speed)
  BY BucketsFill
<1>2. RuleInv => BucketsFit
  BY HtbIsTree, BucketsFill DEF BucketsFit
<1>3. QED
  BY <1>1, <1>2, InvHolds, PTL

-----------------------------------------------------------------------------
(* The search for forwarding cycles (Forwarding).                          *)

\* Forwarders of which each has another one of them ahead.
Looping(n) ==
  \E ks \in SUBSET DOMAIN n.fwds : ks # {} /\ \A k \in ks : NextForwarders(n, k) \cap ks # {}

LEMMA LastOfIn ==
  ASSUME NEW n \in Nat, NEW ks, ks \subseteq 1..n
  PROVE  LastOf(ks) \subseteq ks /\ (ks # {} => LastOf(ks) # {})
<1>1. CASE ks = {}
  BY <1>1 DEF LastOf
<1>2. CASE ks # {}
  <2>1. PICK p \in ks : \A q \in ks : q <= p
    BY <1>2, GreatestUpTo
  <2>2. Max(ks) = p
    <3>1. ks \subseteq Int
      OBVIOUS
    <3>2. QED
      BY <2>1, <3>1, MaxIs
  <2>3. LastOf(ks) = {p}
    BY <1>2, <2>2 DEF LastOf
  <2>4. QED
    BY <2>3
<1>3. QED
  BY <1>1, <1>2

LEMMA LastOfOne ==
  ASSUME NEW n \in Nat, NEW ks, ks \subseteq 1..n, NEW m \in ks, \A k \in ks : k = m
  PROVE  LastOf(ks) = {m}
<1>1. LastOf(ks) \subseteq ks /\ LastOf(ks) # {}
  BY LastOfIn
<1>2. ks = {m}
  OBVIOUS
<1>3. QED
  BY <1>1, <1>2

LEMMA NextIn ==
  ASSUME NEW S, NEW n, n.fwds \in Seq(S), NEW k
  PROVE  NextForwarders(n, k) \subseteq DOMAIN n.fwds
<1>1. DOMAIN n.fwds = 1..Len(n.fwds) /\ Len(n.fwds) \in Nat
  BY SeqDomain
<1>2. \A bus, id : CanForwarderAt(n, bus, id) \subseteq DOMAIN n.fwds
  <2>1. TAKE bus, id
  <2> DEFINE ks == {j \in DOMAIN n.fwds : /\ n.fwds[j].kind = "can" /\ n.fwds[j].at = bus
                                          /\ \E f \in FrameByName(n, n.fwds[j].ref) : f.id = id}
  <2>2. ks \subseteq DOMAIN n.fwds
    OBVIOUS
  <2> HIDE DEF ks
  <2>3. LastOf(ks) \subseteq ks
    BY <1>1, <2>2, LastOfIn
  <2>4. QED
    BY <2>2, <2>3 DEF CanForwarderAt, ks
<1>3. \A ctrl, socket, ref : PduForwarderAt(n, ctrl, socket, ref) \subseteq DOMAIN n.fwds
  <2>1. TAKE ctrl, socket, ref
  <2> DEFINE ks == {j \in DOMAIN n.fwds : /\ n.fwds[j].kind = "pdu" /\ n.fwds[j].ctrl = ctrl
                                          /\ n.fwds[j].at = socket /\ n.fwds[j].ref = ref}
  <2>2. ks \subseteq DOMAIN n.fwds
    OBVIOUS
  <2> HIDE DEF ks
  <2>3. LastOf(ks) \subseteq ks
    BY <1>1, <2>2, LastOfIn
  <2>4. QED
    BY <2>2, <2>3 DEF PduForwarderAt, ks
<1>4. QED
  BY <1>2, <1>3 DEF NextForwarders

\* What the search may hold.
SearchStates(D) == [path : Seq(D), black : SUBSET D, cycle : BOOLEAN]

\* The path is one, black forwarders lead to black ones only, no loop is among
\* them, and a cycle that was found is a loop.
SearchInv(n, st) ==
  /\ st \in SearchStates(DOMAIN n.fwds)
  /\ \A i, j \in 1..Len(st.path) : st.path[i] = st.path[j] => i = j
  /\ \A i \in 1..Len(st.path) : st.path[i] \notin st.black
  /\ \A i, j \in 1..Len(st.path) : j = i + 1 => st.path[j] \in NextForwarders(n, st.path[i])
  /\ \A b \in st.black : NextForwarders(n, b) \subseteq st.black
  /\ \A C \in SUBSET st.black : C # {} => \E c \in C : NextForwarders(n, c) \cap C = {}
  /\ st.cycle => Looping(n)

\* How far the search is.
Progress(st) == Cardinality(st.black) + Cardinality(st.black \cup ToSet(st.path))

\* Going on to a white forwarder.
LEMMA VisitGoesOn ==
  ASSUME NEW S, NEW n, n.fwds \in Seq(S), NEW st, SearchInv(n, st), ~st.cycle,
         NEW v \in Ahead(n, st), v \notin ToSet(st.path)
  PROVE  LET next == Colours(Append(st.path, v), st.black, FALSE)
         IN SearchInv(n, next) /\ Progress(next) = Progress(st) + 1
<1> DEFINE D    == DOMAIN n.fwds
           path == st.path
           next == Colours(Append(path, v), st.black, FALSE)
<1>1. /\ st \in SearchStates(D) /\ path \in Seq(D) /\ st.black \in SUBSET D
      /\ D = 1..Len(n.fwds) /\ Len(n.fwds) \in Nat
  BY SeqDomain DEF SearchInv, SearchStates
<1>2. v \in D /\ v \notin st.black /\ (path # << >> => v \in NextForwarders(n, Last(path)))
  BY <1>1, NextIn DEF Ahead
<1>3. /\ next.path = Append(path, v) /\ next.black = st.black /\ next.cycle = FALSE
      /\ next = [path |-> Append(path, v), black |-> st.black, cycle |-> FALSE]
  BY DEF Colours
<1> HIDE DEF next, D
<1>4. /\ next.path \in Seq(D) /\ Len(next.path) = Len(path) + 1 /\ Len(path) \in Nat
      /\ \A i \in 1..Len(path) : next.path[i] = path[i]
      /\ next.path[Len(path) + 1] = v
      /\ \A i \in 1..Len(next.path) : i \in 1..Len(path) \/ i = Len(path) + 1
  BY <1>1, <1>2, <1>3
<1>5. next \in SearchStates(D)
  BY <1>1, <1>3, <1>4 DEF SearchStates
<1>6. \A i \in 1..Len(path) : path[i] # v /\ path[i] \notin st.black
  BY <1>1, PathSet DEF SearchInv
<1>7. \A i, j \in 1..Len(next.path) : next.path[i] = next.path[j] => i = j
  <2>1. TAKE i, j \in 1..Len(next.path)
  <2>2. CASE i \in 1..Len(path) /\ j \in 1..Len(path)
    BY <1>4, <2>2 DEF SearchInv
  <2>3. CASE ~(i \in 1..Len(path) /\ j \in 1..Len(path))
    BY <1>4, <1>6, <2>3
  <2>4. QED
    BY <2>2, <2>3
<1>8. \A i \in 1..Len(next.path) : next.path[i] \notin next.black
  BY <1>2, <1>3, <1>4, <1>6
<1>9. \A i, j \in 1..Len(next.path) : j = i + 1 => next.path[j] \in NextForwarders(n, next.path[i])
  <2>1. SUFFICES ASSUME NEW i \in 1..Len(next.path), NEW j \in 1..Len(next.path), j = i + 1
                 PROVE  next.path[j] \in NextForwarders(n, next.path[i])
    OBVIOUS
  <2>2. CASE j \in 1..Len(path)
    <3>1. i \in 1..Len(path)
      BY <1>4, <2>1, <2>2
    <3>2. QED
      BY <1>4, <2>1, <2>2, <3>1 DEF SearchInv
  <2>3. CASE j = Len(path) + 1
    <3>1. i = Len(path) /\ i \in 1..Len(path) /\ path # << >>
      BY <1>1, <1>4, <2>1, <2>3
    <3>2. Last(path) = path[Len(path)]
      BY <1>1, <3>1, FrontIs
    <3>3. QED
      BY <1>2, <1>4, <2>3, <3>1, <3>2
  <2>4. QED
    BY <1>4, <2>2, <2>3
<1>10. SearchInv(n, next)
  BY <1>3, <1>5, <1>7, <1>8, <1>9 DEF SearchInv, D
<1>11. Progress(next) = Progress(st) + 1
  <2> DEFINE X == st.black \cup ToSet(path)
  <2>1. ToSet(next.path) = ToSet(path) \cup {v}
    <3>1. \A x : x \in ToSet(next.path) <=> \E i \in 1..Len(next.path) : x = next.path[i]
      BY <1>4, PathSet
    <3>2. \A x : x \in ToSet(path) <=> \E i \in 1..Len(path) : x = path[i]
      BY <1>1, PathSet
    <3>3. \A i \in 1..Len(path) : i \in 1..Len(next.path)
      BY <1>4
    <3>4. Len(path) + 1 \in 1..Len(next.path)
      BY <1>4
    <3>5. \A x : x \in ToSet(next.path) => x \in ToSet(path) \/ x = v
      BY <1>4, <3>1, <3>2
    <3>6. \A x : x \in ToSet(path) => x \in ToSet(next.path)
      BY <1>4, <3>1, <3>2, <3>3
    <3>7. v \in ToSet(next.path)
      BY <1>4, <3>1, <3>4
    <3>8. QED
      BY <3>5, <3>6, <3>7
  <2>2. X \subseteq D /\ IsFiniteSet(D) /\ IsFiniteSet(st.black)
    <3>1. IsFiniteSet(D)
      BY <1>1, FS_Interval
    <3>2. ToSet(path) \subseteq D
      BY <1>1, MemberOfSeq
    <3>3. QED
      BY <1>1, <3>1, <3>2, FS_Subset
  <2>3. next.black \cup ToSet(next.path) = X \cup {v}
    BY <1>3, <2>1
  <2>4. v \notin X
    BY <1>2
  <2> HIDE DEF X
  <2>5. IsFiniteSet(X)
    BY <2>2, FS_Subset
  <2>6. Cardinality(X \cup {v}) = Cardinality(X) + 1 /\ Cardinality(X) \in Nat /\ Cardinality(st.black) \in Nat
    BY <2>2, <2>4, <2>5, FS_AddElement, FS_CardinalityType
  <2>7. Progress(st) = Cardinality(st.black) + Cardinality(X)
    BY DEF Progress, X
  <2>8. Progress(next) = Cardinality(st.black) + Cardinality(X \cup {v})
    BY <1>3, <2>3 DEF Progress
  <2>9. QED
    BY <2>6, <2>7, <2>8
<1>12. QED
  BY <1>10, <1>11 DEF next

\* Going back from a forwarder with nothing but black ones ahead.
LEMMA VisitGoesBack ==
  ASSUME NEW S, NEW n, n.fwds \in Seq(S), NEW st, SearchInv(n, st), ~st.cycle,
         Ahead(n, st) = {}, st.path # << >>
  PROVE  LET next == Colours(Front(st.path), st.black \cup {Last(st.path)}, FALSE)
         IN SearchInv(n, next) /\ Progress(next) = Progress(st) + 1
<1> DEFINE D    == DOMAIN n.fwds
           path == st.path
           x    == Last(path)
           next == Colours(Front(path), st.black \cup {x}, FALSE)
<1>1. /\ st \in SearchStates(D) /\ path \in Seq(D) /\ st.black \in SUBSET D
      /\ D = 1..Len(n.fwds) /\ Len(n.fwds) \in Nat
  BY SeqDomain DEF SearchInv, SearchStates
<1>2. /\ Len(path) \in Nat \ {0} /\ x = path[Len(path)]
      /\ Front(path) \in Seq(D) /\ Len(Front(path)) = Len(path) - 1
      /\ \A i \in 1..Len(path) - 1 : Front(path)[i] = path[i]
  BY <1>1, FrontIs
<1>3. /\ next.path = Front(path) /\ next.black = st.black \cup {x} /\ next.cycle = FALSE
      /\ next = [path |-> Front(path), black |-> st.black \cup {x}, cycle |-> FALSE]
  BY DEF Colours
<1>4. x \in D /\ NextForwarders(n, x) \subseteq st.black
  <2>1. x \in D
    BY <1>1, <1>2, ElementIn
  <2>2. Ahead(n, st) = NextForwarders(n, x) \ st.black
    BY DEF Ahead
  <2>3. QED
    BY <2>1, <2>2
<1> HIDE DEF next, D, x
<1>5. \A i \in 1..Len(next.path) : i \in 1..Len(path) /\ i # Len(path) /\ next.path[i] = path[i]
  BY <1>2, <1>3
<1>6. next \in SearchStates(D)
  BY <1>1, <1>2, <1>3, <1>4 DEF SearchStates
<1>7. \A i \in 1..Len(path) : path[i] \notin st.black /\ (i # Len(path) => path[i] # x)
  <2>1. Len(path) \in 1..Len(path)
    BY <1>2
  <2>2. QED
    BY <1>2, <2>1 DEF SearchInv
<1>8. \A i, j \in 1..Len(next.path) : next.path[i] = next.path[j] => i = j
  BY <1>5 DEF SearchInv
<1>9. \A i \in 1..Len(next.path) : next.path[i] \notin next.black
  BY <1>3, <1>5, <1>7
<1>10. \A i, j \in 1..Len(next.path) : j = i + 1 => next.path[j] \in NextForwarders(n, next.path[i])
  BY <1>5 DEF SearchInv
<1>11. x \notin st.black
  <2>1. Len(path) \in 1..Len(path)
    BY <1>2
  <2>2. QED
    BY <1>2, <1>7, <2>1
<1>12. \A b \in next.black : NextForwarders(n, b) \subseteq next.black
  BY <1>3, <1>4 DEF SearchInv
<1>13. ASSUME NEW C \in SUBSET next.black, C # {} PROVE \E c \in C : NextForwarders(n, c) \cap C = {}
  <2>1. CASE C \cap st.black # {}
    <3>1. C \cap st.black \in SUBSET st.black
      OBVIOUS
    <3>2. PICK c \in C \cap st.black : NextForwarders(n, c) \cap (C \cap st.black) = {}
      BY <2>1, <3>1 DEF SearchInv
    <3>3. NextForwarders(n, c) \subseteq st.black
      BY DEF SearchInv
    <3>4. NextForwarders(n, c) \cap C = {}
      BY <3>2, <3>3
    <3>5. QED
      BY <3>4
  <2>2. CASE C \cap st.black = {}
    <3>1. C = {x}
      BY <1>3, <1>13, <2>2
    <3>2. NextForwarders(n, x) \cap C = {}
      BY <1>4, <2>2
    <3>3. QED
      BY <3>1, <3>2
  <2>3. QED
    BY <2>1, <2>2
<1>14. SearchInv(n, next)
  BY <1>3, <1>6, <1>8, <1>9, <1>10, <1>12, <1>13 DEF SearchInv, D
<1>15. Progress(next) = Progress(st) + 1
  <2>1. next.black \cup ToSet(next.path) = st.black \cup ToSet(path)
    <3>1. \A y : y \in ToSet(path) <=> \E i \in 1..Len(path) : y = path[i]
      BY <1>1, PathSet
    <3>2. \A y : y \in ToSet(next.path) <=> \E i \in 1..Len(next.path) : y = next.path[i]
      BY <1>2, <1>3, PathSet
    <3>3. \A i \in 1..Len(path) : i = Len(path) \/ i \in 1..Len(next.path)
      BY <1>2, <1>3
    <3>4. ToSet(next.path) \subseteq ToSet(path)
      BY <1>5, <3>1, <3>2
    <3>5. \A y \in ToSet(path) : y = x \/ y \in ToSet(next.path)
      BY <1>2, <1>5, <3>1, <3>2, <3>3
    <3>6. x \in ToSet(path)
      <4>1. Len(path) \in 1..Len(path)
        BY <1>2
      <4>2. QED
        BY <1>2, <3>1, <4>1
    <3>7. QED
      BY <1>3, <3>4, <3>5, <3>6
  <2>2. IsFiniteSet(D)
    BY <1>1, FS_Interval
  <2>3. ToSet(path) \subseteq D
    BY <1>1, MemberOfSeq
  <2> DEFINE Y == st.black \cup ToSet(path)
  <2>4. Y \subseteq D /\ st.black \subseteq D
    BY <1>1, <2>3
  <2> HIDE DEF Y
  <2>5. IsFiniteSet(Y) /\ IsFiniteSet(st.black)
    BY <2>2, <2>4, FS_Subset
  <2>6. Cardinality(st.black \cup {x}) = Cardinality(st.black) + 1
    BY <1>11, <2>5, FS_AddElement
  <2>7. Cardinality(Y) \in Nat /\ Cardinality(st.black) \in Nat
    BY <2>5, FS_CardinalityType
  <2>8. Progress(st) = Cardinality(st.black) + Cardinality(Y)
    BY DEF Progress, Y
  <2>9. Progress(next) = Cardinality(st.black \cup {x}) + Cardinality(Y)
    BY <1>3, <2>1 DEF Progress, Y
  <2>10. QED
    BY <2>6, <2>7, <2>8, <2>9
<1>16. QED
  BY <1>14, <1>15 DEF next, x

\* A forwarder of the path that is met again is on a loop.
LEMMA VisitMeetsPath ==
  ASSUME NEW S, NEW n, n.fwds \in Seq(S), NEW st, SearchInv(n, st),
         NEW v \in Ahead(n, st), v \in ToSet(st.path)
  PROVE  SearchInv(n, Colours(st.path, st.black, TRUE))
<1> DEFINE D    == DOMAIN n.fwds
           path == st.path
           next == Colours(path, st.black, TRUE)
<1>1. st \in SearchStates(D) /\ path \in Seq(D) /\ st.black \in SUBSET D
  BY DEF SearchInv, SearchStates
<1>2. PICK j \in 1..Len(path) : v = path[j]
  BY <1>1, PathSet
<1>3. Len(path) \in Nat \ {0} /\ Last(path) = path[Len(path)] /\ v \in NextForwarders(n, Last(path))
  <2>1. path # << >>
    BY <1>2
  <2>2. QED
    BY <1>1, <2>1, FrontIs DEF Ahead
<1> DEFINE ks == {path[i] : i \in j..Len(path)}
<1>4. \A i \in j..Len(path) : i \in 1..Len(path)
  OBVIOUS
<1>5. ks \in SUBSET D /\ v \in ks
  BY <1>1, <1>2, <1>3, <1>4, ElementIn
<1>6. ASSUME NEW k \in ks PROVE NextForwarders(n, k) \cap ks # {}
  <2>1. PICK i \in j..Len(path) : k = path[i]
    OBVIOUS
  <2>2. CASE i = Len(path)
    BY <1>3, <1>5, <2>1, <2>2
  <2>3. CASE i # Len(path)
    <3>1. i + 1 \in j..Len(path) /\ i + 1 \in 1..Len(path) /\ i \in 1..Len(path)
      BY <1>3, <1>4, <2>3
    <3>2. path[i + 1] \in NextForwarders(n, path[i]) /\ path[i + 1] \in ks
      BY <3>1 DEF SearchInv
    <3>3. QED
      BY <2>1, <3>2
  <2>4. QED
    BY <2>2, <2>3
<1> HIDE DEF ks
<1>7. Looping(n)
  BY <1>5, <1>6 DEF Looping
<1>8. /\ next.path = path /\ next.black = st.black /\ next.cycle = TRUE
      /\ next = [path |-> path, black |-> st.black, cycle |-> TRUE]
  BY DEF Colours
<1>9. next \in SearchStates(D)
  BY <1>1, <1>8 DEF SearchStates
<1> HIDE DEF next
<1>10. SearchInv(n, next)
  BY <1>7, <1>8, <1>9 DEF SearchInv
<1>11. QED
  BY <1>10 DEF next

\* There is nothing left to do.
SearchDone(n, st) == st.cycle \/ st.black = DOMAIN n.fwds

LEMMA VisitStep ==
  ASSUME NEW S, NEW n, n.fwds \in Seq(S), NEW st, SearchInv(n, st)
  PROVE  LET next == VisitNext(n, st)
         IN /\ SearchInv(n, next)
            /\ SearchDone(n, st) => SearchDone(n, next)
            /\ SearchDone(n, next) \/ Progress(next) = Progress(st) + 1
<1> DEFINE v == CHOOSE v \in Ahead(n, st) : TRUE
<1>0. st.black \subseteq DOMAIN n.fwds
  BY DEF SearchInv, SearchStates
<1>1. CASE st.cycle \/ (Ahead(n, st) = {} /\ st.path = << >>)
  <2>1. VisitNext(n, st) = st
    BY <1>1 DEF VisitNext
  <2>2. SearchDone(n, st)
    BY <1>0, <1>1 DEF SearchDone, Ahead
  <2>3. QED
    BY <2>1, <2>2
<1>2. CASE ~st.cycle /\ Ahead(n, st) = {} /\ st.path # << >>
  <2>1. VisitNext(n, st) = Colours(Front(st.path), st.black \cup {Last(st.path)}, FALSE)
    BY <1>2 DEF VisitNext
  <2>2. SearchInv(n, VisitNext(n, st)) /\ Progress(VisitNext(n, st)) = Progress(st) + 1
    BY <1>2, <2>1, VisitGoesBack
  <2>3. VisitNext(n, st).black = st.black \cup {Last(st.path)} /\ VisitNext(n, st).black \subseteq DOMAIN n.fwds
    BY <2>1, <2>2 DEF Colours, SearchInv, SearchStates
  <2>4. SearchDone(n, st) => SearchDone(n, VisitNext(n, st))
    BY <1>2, <2>3 DEF SearchDone
  <2>5. QED
    BY <2>2, <2>4
<1>3. CASE ~st.cycle /\ Ahead(n, st) # {} /\ v \in ToSet(st.path)
  <2>1. VisitNext(n, st) = Colours(st.path, st.black, TRUE)
    BY <1>3 DEF VisitNext
  <2>2. v \in Ahead(n, st)
    BY <1>3
  <2>3. VisitNext(n, st).cycle
    BY <2>1 DEF Colours
  <2> HIDE DEF v
  <2>4. SearchInv(n, VisitNext(n, st))
    BY <1>3, <2>1, <2>2, VisitMeetsPath
  <2>5. QED
    BY <2>3, <2>4 DEF SearchDone
<1>4. CASE ~st.cycle /\ Ahead(n, st) # {} /\ v \notin ToSet(st.path)
  <2>1. VisitNext(n, st) = Colours(Append(st.path, v), st.black, FALSE)
    BY <1>4 DEF VisitNext
  <2>2. v \in Ahead(n, st)
    BY <1>4
  <2>3. VisitNext(n, st).black = st.black
    BY <2>1 DEF Colours
  <2> HIDE DEF v
  <2>4. SearchInv(n, VisitNext(n, st)) /\ Progress(VisitNext(n, st)) = Progress(st) + 1
    BY <1>4, <2>1, <2>2, VisitGoesOn
  <2>5. QED
    BY <1>4, <2>3, <2>4 DEF SearchDone
<1>5. QED
  BY <1>1, <1>2, <1>3, <1>4

\* The steps of the search, one after the other.
LEMMA SearchRuns ==
  ASSUME NEW S, NEW n, n.fwds \in Seq(S)
  PROVE  \E run : /\ run[0] = Colours(<< >>, {}, FALSE)
                  /\ \A k \in 1..2 * Len(n.fwds) : run[k] = VisitNext(n, run[k - 1])
                  /\ CycleFound(n) = run[2 * Len(n.fwds)].cycle
<1> DEFINE N  == 2 * Len(n.fwds)
           St == {st \in SearchStates(DOMAIN n.fwds) : SearchInv(n, st)}
           a  == Colours(<< >>, {}, FALSE)
           step == [p \in (1..N) \X St |-> VisitNext(n, p[2])]
<1>1. N \in Nat
  BY LenIsNat
<1>2. a \in St
  <2>1. a = [path |-> << >>, black |-> {}, cycle |-> FALSE] /\ << >> \in Seq(DOMAIN n.fwds) /\ Len(<< >>) = 0
    BY DEF Colours
  <2> HIDE DEF a
  <2>2. a.path = << >> /\ a.black = {} /\ a.cycle = FALSE /\ a \in SearchStates(DOMAIN n.fwds)
    BY <2>1 DEF SearchStates
  <2>3. SearchInv(n, a)
    BY <2>1, <2>2 DEF SearchInv
  <2>4. QED
    BY <2>2, <2>3
<1>3. step \in Steps(St, N)
  <2>1. \A st \in St : VisitNext(n, st) \in St
    <3>1. TAKE st \in St
    <3>2. SearchInv(n, VisitNext(n, st))
      BY VisitStep
    <3>3. QED
      BY <3>2 DEF SearchInv
  <2> HIDE DEF St
  <2>2. QED
    BY <2>1 DEF Steps
<1> HIDE DEF N, St, a
<1>4. PICK f : IsRun(f, St, N, a, step)
  <2> HIDE DEF step
  <2>1. QED
    BY <1>1, <1>2, <1>3, Recursion
<1>5. f \in [0..N -> St] /\ f[0] = a /\ \A k \in 1..N : f[k] = VisitNext(n, f[k - 1])
  <2>1. f \in [0..N -> St] /\ f[0] = a /\ \A k \in 1..N : f[k] = step[<<k, f[k - 1]>>]
    BY <1>4 DEF IsRun
  <2>2. ASSUME NEW k \in 1..N PROVE f[k] = VisitNext(n, f[k - 1])
    <3>1. k - 1 \in 0..N
      BY <1>1
    <3>2. <<k, f[k - 1]>> \in (1..N) \X St
      BY <2>1, <3>1
    <3>3. step[<<k, f[k - 1]>>] = VisitNext(n, f[k - 1])
      BY <3>2
    <3>4. QED
      BY <2>1, <3>3
  <2>3. QED
    BY <2>1, <2>2
<1> DEFINE Rec(g) == g = [k \in 0..N |-> IF k = 0 THEN a ELSE VisitNext(n, g[k - 1])]
           g == CHOOSE g : Rec(g)
<1>6. Rec(g)
  <2>1. \A k \in 0..N : f[k] = IF k = 0 THEN a ELSE VisitNext(n, f[k - 1])
    <3>1. TAKE k \in 0..N
    <3>2. k # 0 => k \in 1..N
      BY <1>1
    <3>3. QED
      BY <1>5, <3>2
  <2>2. Rec(f)
    BY <1>5, <2>1
  <2>3. QED
    BY <2>2
<1>7. CycleFound(n) = g[N].cycle
  BY DEF CycleFound, N, a
<1> HIDE DEF g
<1>8. g[0] = a /\ \A k \in 1..N : g[k] = VisitNext(n, g[k - 1])
  <2>1. 0 \in 0..N /\ \A k \in 1..N : k \in 0..N /\ k # 0
    BY <1>1
  <2>2. QED
    BY <1>6, <2>1
<1>9. QED
  BY <1>7, <1>8 DEF N, a

\* The search finds a cycle exactly when there is a loop.
LEMMA SearchExact ==
  ASSUME NEW S, NEW n, n.fwds \in Seq(S)
  PROVE  CycleFound(n) <=> Looping(n)
<1> DEFINE N == Len(n.fwds)
           D == DOMAIN n.fwds
<1>1. PICK run : /\ run[0] = Colours(<< >>, {}, FALSE)
                 /\ \A k \in 1..2 * Len(n.fwds) : run[k] = VisitNext(n, run[k - 1])
                 /\ CycleFound(n) = run[2 * Len(n.fwds)].cycle
  BY SearchRuns
<1>2. D = 1..N /\ N \in Nat /\ 2 * N \in Nat
  BY SeqDomain
<1> DEFINE InReach == {k \in 0..2 * N : SearchInv(n, run[k]) /\ (SearchDone(n, run[k]) \/ Progress(run[k]) = k)}
<1>3. 0 \in InReach
  <2> DEFINE st == run[0]
  <2>1. st = [path |-> << >>, black |-> {}, cycle |-> FALSE] /\ << >> \in Seq(D) /\ Len(<< >>) = 0
    BY <1>1 DEF Colours
  <2>2. st.path = << >> /\ st.black = {} /\ st.cycle = FALSE
    BY <2>1
  <2> HIDE DEF st
  <2>3. st \in SearchStates(D)
    BY <2>1 DEF SearchStates
  <2>4. SearchInv(n, st)
    BY <2>1, <2>2, <2>3 DEF SearchInv
  <2>5. ToSet(<< >>) = {}
    BY DEF ToSet
  <2>6. Progress(st) = 0
    <3>1. Progress(st) = Cardinality({}) + Cardinality({} \cup {})
      BY <2>2, <2>5 DEF Progress
    <3>2. Cardinality({}) = 0 /\ {} \cup {} = {}
      BY FS_EmptySet
    <3>3. QED
      BY <3>1, <3>2
  <2>7. QED
    BY <1>2, <2>4, <2>6 DEF st
<1>4. ASSUME NEW k \in 1..2 * N, k - 1 \in InReach PROVE k \in InReach
  <2>1. SearchInv(n, run[k - 1]) /\ (SearchDone(n, run[k - 1]) \/ Progress(run[k - 1]) = k - 1)
    BY <1>4
  <2>2. run[k] = VisitNext(n, run[k - 1]) /\ k \in 0..2 * N /\ k - 1 + 1 = k
    BY <1>1, <1>2
  <2>3. /\ SearchInv(n, run[k]) /\ (SearchDone(n, run[k - 1]) => SearchDone(n, run[k]))
        /\ SearchDone(n, run[k]) \/ Progress(run[k]) = Progress(run[k - 1]) + 1
    BY <2>1, <2>2, VisitStep
  <2>4. QED
    BY <2>1, <2>2, <2>3
<1>5. 2 * N \in InReach
  <2>1. 0..2 * N \subseteq InReach
    <3> HIDE DEF InReach, N
    <3>1. QED
      BY <1>2, <1>3, <1>4, UpTo
  <2>2. QED
    BY <1>2, <2>1
<1> DEFINE st == run[2 * N]
<1>6. SearchInv(n, st) /\ (SearchDone(n, st) \/ Progress(st) = 2 * N)
  BY <1>5
<1> HIDE DEF InReach, st
<1>7. SearchDone(n, st)
  <2>1. SUFFICES ASSUME Progress(st) = 2 * N PROVE st.black = D
    BY <1>6 DEF SearchDone
  <2>2. st.black \subseteq D /\ st.path \in Seq(D)
    BY <1>6 DEF SearchInv, SearchStates
  <2>3. st.black \cup ToSet(st.path) \subseteq D
    BY <2>2, MemberOfSeq
  <2>4. IsFiniteSet(D) /\ Cardinality(D) = N
    BY <1>2, FS_Interval
  <2> DEFINE Y == st.black \cup ToSet(st.path)
             B == st.black
  <2>5. Y \subseteq D /\ B \subseteq D /\ Progress(st) = Cardinality(B) + Cardinality(Y)
    BY <2>2, <2>3 DEF Progress
  <2> HIDE DEF Y, B, D
  <2>6. Cardinality(Y) <= N /\ Cardinality(B) <= N /\ Cardinality(Y) \in Nat /\ Cardinality(B) \in Nat
    BY <2>4, <2>5, FS_Subset, FS_CardinalityType
  <2>7. Cardinality(B) = N
    BY <1>2, <2>1, <2>5, <2>6
  <2>8. B = D
    BY <2>4, <2>5, <2>7, FS_Subset
  <2>9. QED
    BY <2>8 DEF B
<1>8. CycleFound(n) = st.cycle
  BY <1>1 DEF st
<1>9. st.cycle \in BOOLEAN
  BY <1>6 DEF SearchInv, SearchStates
<1>10. st.cycle => Looping(n)
  BY <1>6 DEF SearchInv
<1>11. ~st.cycle => ~Looping(n)
  <2>1. SUFFICES ASSUME st.black = D PROVE ~Looping(n)
    BY <1>7 DEF SearchDone
  <2>2. QED
    BY <1>6, <2>1 DEF SearchInv, Looping
<1>12. QED
  BY <1>8, <1>9, <1>10, <1>11

\* A frame is found by its name, when no other has it.
LEMMA FrameFound ==
  ASSUME NEW S, NEW n, n.frames \in Seq(S), FrameNamesApart(n), NEW f \in ToSet(n.frames)
  PROVE  FrameByName(n, f.name) = {f}
<1>1. DOMAIN n.frames = 1..Len(n.frames) /\ Len(n.frames) \in Nat
  BY SeqDomain
<1>2. PICK i \in DOMAIN n.frames : f = n.frames[i]
  BY DEF ToSet
<1> DEFINE ks == {k \in DOMAIN n.frames : n.frames[k].name = f.name}
<1>3. i \in ks /\ ks \subseteq 1..Len(n.frames)
  BY <1>1, <1>2
<1>4. \A k \in ks : k = i
  <2> DEFINE names == [k \in DOMAIN n.frames |-> n.frames[k].name]
  <2>1. \A a, b \in DOMAIN names : names[a] = names[b] => a = b
    BY DEF FrameNamesApart, IsInjective
  <2>2. QED
    BY <1>2, <2>1
<1> HIDE DEF ks
<1>5. LastOf(ks) = {i}
  BY <1>1, <1>3, <1>4, LastOfOne
<1>6. FrameByName(n, f.name) = {n.frames[k] : k \in LastOf(ks)}
  BY DEF FrameByName, LastEntry, ks
<1>7. QED
  BY <1>2, <1>5, <1>6

\* Where keys are apart, the search sees everything that really receives.
LEMMA ReceiversSeen ==
  ASSUME NEW S, NEW R, NEW n, n.fwds \in Seq(S), n.frames \in Seq(R),
         KeysApart(n), SocketsApart(n), FrameNamesApart(n), ForwardersDiffer(n),
         NEW k \in DOMAIN n.fwds, NEW m \in DOMAIN n.fwds, Receives(n, k, m)
  PROVE  m \in NextForwarders(n, k)
<1>1. DOMAIN n.fwds = 1..Len(n.fwds) /\ Len(n.fwds) \in Nat
  BY SeqDomain
<1> DEFINE w == n.fwds[k]
           v == n.fwds[m]
<1>2. PICK e \in ToSet(w.egresses) :
        IF e.kind = "can"
        THEN v.kind = "can" /\ v.at = e.to /\ \E f \in ToSet(n.frames) : f.name = v.ref /\ f.bus = v.at /\ f.id = e.id
        ELSE /\ v.kind = "pdu" /\ HeardAt(n, SocketKey(w, e.to), SocketKey(v, v.at))
             /\ v.ref \in AfterExtract(Ingress(n, w), e)
  BY DEF Receives
<1>3. CASE e.kind = "can"
  <2>1. PICK f \in ToSet(n.frames) : f.name = v.ref /\ f.bus = v.at /\ f.id = e.id
    BY <1>2, <1>3
  <2> DEFINE ks == {j \in DOMAIN n.fwds : /\ n.fwds[j].kind = "can" /\ n.fwds[j].at = e.to
                                          /\ \E g \in FrameByName(n, n.fwds[j].ref) : g.id = e.id}
  <2>2. f \in FrameByName(n, v.ref)
    <3>1. FrameByName(n, f.name) = {f}
      BY FrameFound
    <3>2. QED
      BY <2>1, <3>1
  <2>3. m \in ks /\ ks \subseteq 1..Len(n.fwds)
    BY <1>1, <1>2, <1>3, <2>1, <2>2
  <2>4. ASSUME NEW j \in ks PROVE j = m
    <3>1. PICK g \in FrameByName(n, n.fwds[j].ref) : g.id = e.id
      OBVIOUS
    <3>2. /\ n.fwds[j].kind = "can" /\ v.kind = "can" /\ n.fwds[j].at = v.at
          /\ j \in DOMAIN n.fwds
      BY <1>2, <1>3
    <3>3. ~(j < m) /\ ~(m < j)
      BY <2>1, <2>2, <3>1, <3>2 DEF KeysApart
    <3>4. QED
      BY <1>1, <3>2, <3>3
  <2> HIDE DEF ks
  <2>5. LastOf(ks) = {m}
    BY <1>1, <2>3, <2>4, LastOfOne
  <2>6. CanForwarderAt(n, e.to, e.id) = {m}
    BY <2>5 DEF CanForwarderAt, ks
  <2>7. QED
    BY <1>3, <2>6 DEF NextForwarders
<1>4. CASE e.kind # "can"
  <2>1. v.kind = "pdu" /\ v.ecu = w.ecu /\ v.ctrl = w.ctrl /\ v.at = e.to /\ v.ref \in AfterExtract(Ingress(n, w), e)
    <3>1. v.kind = "pdu" /\ HeardAt(n, SocketKey(w, e.to), SocketKey(v, v.at)) /\ v.ref \in AfterExtract(Ingress(n, w), e)
      BY <1>2, <1>4
    <3>2. SocketKey(w, e.to) = SocketKey(v, v.at)
      BY <1>4, <3>1 DEF SocketsApart
    <3>3. QED
      BY <3>1, <3>2 DEF SocketKey
  <2> DEFINE ks == {j \in DOMAIN n.fwds : /\ n.fwds[j].kind = "pdu" /\ n.fwds[j].ctrl = w.ctrl
                                          /\ n.fwds[j].at = e.to /\ n.fwds[j].ref = v.ref}
  <2>2. m \in ks /\ ks \subseteq 1..Len(n.fwds)
    BY <1>1, <2>1
  <2>3. ASSUME NEW j \in ks PROVE j = m
    <3>1. j \in DOMAIN n.fwds /\ n.fwds[j].ctrl = v.ctrl
      BY <2>1
    <3>2. n.fwds[j].ecu = v.ecu
      BY <3>1 DEF KeysApart
    <3> DEFINE keys == [i \in DOMAIN n.fwds |-> <<n.fwds[i].kind, n.fwds[i].ecu, n.fwds[i].ctrl, n.fwds[i].at, n.fwds[i].ref>>]
    <3>3. keys[j] = keys[m]
      BY <2>1, <3>1, <3>2
    <3>4. \A a, b \in DOMAIN keys : keys[a] = keys[b] => a = b
      BY DEF ForwardersDiffer, IsInjective
    <3>5. j \in DOMAIN keys /\ m \in DOMAIN keys
      BY <3>1
    <3> HIDE DEF keys
    <3>6. QED
      BY <3>3, <3>4, <3>5
  <2> HIDE DEF ks
  <2>4. LastOf(ks) = {m}
    BY <1>1, <2>2, <2>3, LastOfOne
  <2>5. PduForwarderAt(n, w.ctrl, e.to, v.ref) = {m}
    BY <2>4 DEF PduForwarderAt, ks
  <2>6. QED
    BY <1>4, <2>1, <2>5 DEF NextForwarders
<1>5. QED
  BY <1>3, <1>4

LEMMA ForwardingStops ==
  ASSUME NEW S, NEW R, NEW n, n.fwds \in Seq(S), n.frames \in Seq(R)
  PROVE  ForwardingEndsIfApart(n)
<1>1. SUFFICES ASSUME KeysApart(n), SocketsApart(n), FrameNamesApart(n), ForwardingAccepted(n), Circular(n) PROVE FALSE
  BY DEF ForwardingEndsIfApart, ForwardingEnds
<1>2. PICK ks \in SUBSET DOMAIN n.fwds : ks # {} /\ \A k \in ks : \E m \in ks : Receives(n, k, m)
  BY <1>1 DEF Circular
<1>3. ForwardersDiffer(n) /\ ~CycleFound(n)
  BY <1>1 DEF ForwardingAccepted
<1>4. \A k \in ks : \E m \in ks : m \in NextForwarders(n, k)
  BY <1>1, <1>2, <1>3, ReceiversSeen
<1>5. Looping(n)
  BY <1>2, <1>4 DEF Looping
<1>6. QED
  BY <1>3, <1>5, SearchExact

-----------------------------------------------------------------------------
(* ARXML documents (Arxml): nodes are numbered in document order, parents  *)
(* before their children.                                                  *)

ArxmlDoc(doc) ==
  /\ doc = [n \in DOMAIN doc |-> doc[n]]
  /\ \E m \in Nat : DOMAIN doc \subseteq 1..m
  /\ \A n \in DOMAIN doc : doc[n].parent = 0 \/ (doc[n].parent \in DOMAIN doc /\ doc[n].parent < n)

LEMMA TreeFinite ==
  ASSUME NEW doc, ArxmlDoc(doc)
  PROVE  IsFiniteSet(DOMAIN doc) /\ DOMAIN doc \subseteq Nat \ {0}
<1>1. PICK m \in Nat : DOMAIN doc \subseteq 1..m
  BY DEF ArxmlDoc
<1>2. IsFiniteSet(1..m)
  BY FS_Interval
<1>3. IsFiniteSet(DOMAIN doc)
  BY <1>1, <1>2, FS_Subset
<1>4. QED
  BY <1>1, <1>3

\* The chain of a node: that of its parent, and the node.
LEMMA ChainUnfolds ==
  ASSUME NEW doc, ArxmlDoc(doc), NEW n \in DOMAIN doc
  PROVE  Chain(doc, n) = IF doc[n].parent = 0 THEN <<n>> ELSE Append(Chain(doc, doc[n].parent), n)
<1> DEFINE D == DOMAIN doc
           S == [D -> Seq(Nat)]
           Up(g, i) == IF doc[i].parent = 0 THEN <<i>> ELSE Append(g[doc[i].parent], i)
<1>1. PICK m \in Nat : D \subseteq 1..m
  BY DEF ArxmlDoc
<1> DEFINE a == [i \in D |-> << >>]
           step == [p \in (1..m) \X S |-> [i \in D |-> IF i = p[1] THEN Up(p[2], i) ELSE p[2][i]]]
<1>2. D \subseteq Nat /\ \A i \in D : doc[i].parent # 0 => doc[i].parent \in D /\ doc[i].parent < i
  BY <1>1 DEF ArxmlDoc
<1>3. a \in S
  OBVIOUS
<1>4. step \in Steps(S, m)
  <2>1. ASSUME NEW g \in S, NEW i \in D PROVE Up(g, i) \in Seq(Nat) /\ g[i] \in Seq(Nat)
    <3>1. CASE doc[i].parent = 0
      BY <1>2, <3>1
    <3>2. CASE doc[i].parent # 0
      <4>1. g[doc[i].parent] \in Seq(Nat) /\ i \in Nat
        BY <1>2, <3>2
      <4>2. QED
        BY <3>2, <4>1
    <3>3. QED
      BY <3>1, <3>2
  <2> HIDE DEF Up
  <2>2. \A p \in (1..m) \X S : [i \in D |-> IF i = p[1] THEN Up(p[2], i) ELSE p[2][i]] \in S
    BY <2>1
  <2>3. QED
    BY <2>2 DEF Steps
<1> HIDE DEF a, Up, D
<1>5. PICK f : IsRun(f, S, m, a, step)
  <2> HIDE DEF step, S
  <2>1. QED
    BY <1>1, <1>3, <1>4, Recursion
<1>6. /\ f \in [0..m -> S]
      /\ \A k \in 1..m : f[k] = [i \in D |-> IF i = k THEN Up(f[k - 1], i) ELSE f[k - 1][i]]
  <2>1. f \in [0..m -> S] /\ \A k \in 1..m : f[k] = step[<<k, f[k - 1]>>]
    BY <1>5 DEF IsRun
  <2>2. ASSUME NEW k \in 1..m PROVE f[k] = [i \in D |-> IF i = k THEN Up(f[k - 1], i) ELSE f[k - 1][i]]
    <3>1. k - 1 \in 0..m
      OBVIOUS
    <3>2. <<k, f[k - 1]>> \in (1..m) \X S
      BY <2>1, <3>1
    <3> HIDE DEF S
    <3>3. step[<<k, f[k - 1]>>] = [i \in D |-> IF i = k THEN Up(f[k - 1], i) ELSE f[k - 1][i]]
      BY <3>2
    <3>4. QED
      BY <2>1, <3>3
  <2>3. QED
    BY <2>1, <2>2
<1> HIDE DEF step
<1> DEFINE Done == {k \in 0..m : \A i \in D : i <= k => f[k][i] = Up(f[k], i)}
<1>7. 0 \in Done
  BY <1>1
<1>8. ASSUME NEW k \in 1..m, k - 1 \in Done PROVE k \in Done
  <2>1. \A i \in D : i <= k - 1 => f[k - 1][i] = Up(f[k - 1], i)
    BY <1>8
  <2>2. \A i \in D : f[k][i] = IF i = k THEN Up(f[k - 1], i) ELSE f[k - 1][i]
    BY <1>6
  <2>3. ASSUME NEW i \in D, i <= k PROVE f[k][i] = Up(f[k], i)
    <3>1. doc[i].parent # 0 => doc[i].parent \in D /\ doc[i].parent < i /\ doc[i].parent # k
      BY <1>1, <1>2, <2>3
    <3>2. Up(f[k], i) = Up(f[k - 1], i)
      <4>1. CASE doc[i].parent = 0
        BY <4>1 DEF Up
      <4>2. CASE doc[i].parent # 0
        <5>1. f[k][doc[i].parent] = f[k - 1][doc[i].parent]
          BY <2>2, <3>1, <4>2
        <5>2. QED
          BY <5>1 DEF Up
      <4>3. QED
        BY <4>1, <4>2
    <3>3. CASE i = k
      BY <2>2, <3>2, <3>3
    <3>4. CASE i # k
      <4>1. i <= k - 1
        BY <1>1, <2>3, <3>4
      <4>2. QED
        BY <2>1, <2>2, <3>2, <3>4, <4>1
    <3>5. QED
      BY <3>3, <3>4
  <2>4. QED
    BY <2>3
<1>9. \A i \in D : f[m][i] = Up(f[m], i)
  <2>1. 0..m \subseteq Done
    <3> HIDE DEF Done
    <3>1. QED
      BY <1>1, <1>7, <1>8, UpTo
  <2>2. m \in Done /\ \A i \in D : i <= m
    BY <1>1, <2>1
  <2>3. QED
    BY <2>2
<1> HIDE DEF Done
<1> DEFINE Rec(g) == g = [i \in D |-> IF doc[i].parent = 0 THEN <<i>> ELSE Append(g[doc[i].parent], i)]
           c == CHOOSE c : Rec(c)
<1>10. Rec(f[m])
  <2>1. m \in 0..m
    BY <1>1
  <2>2. f[m] \in S
    BY <1>6, <2>1
  <2>3. f[m] = [i \in D |-> f[m][i]]
    BY <2>2
  <2> HIDE DEF S
  <2>4. [i \in D |-> f[m][i]] = [i \in D |-> IF doc[i].parent = 0 THEN <<i>> ELSE Append(f[m][doc[i].parent], i)]
    BY <1>9 DEF Up
  <2>5. QED
    BY <2>3, <2>4
<1>11. Rec(c)
  <2>1. \E g : Rec(g)
    <3> DEFINE g == f[m]
    <3>1. Rec(g)
      BY <1>10
    <3> HIDE DEF g, Rec
    <3>2. QED
      BY <3>1
  <2> HIDE DEF Rec
  <2>2. QED
    BY <2>1
<1>12. \A i : Chain(doc, i) = c[i]
  BY DEF Chain, D
<1> HIDE DEF c
<1>13. c[n] = IF doc[n].parent = 0 THEN <<n>> ELSE Append(c[doc[n].parent], n)
  BY <1>11 DEF D
<1>14. QED
  BY <1>12, <1>13

\* A chain is one of nodes, and ends in its own.
LEMMA ChainIs ==
  ASSUME NEW doc, ArxmlDoc(doc), NEW n \in DOMAIN doc
  PROVE  /\ Chain(doc, n) \in Seq(DOMAIN doc) /\ Len(Chain(doc, n)) \in Nat \ {0}
         /\ Chain(doc, n)[Len(Chain(doc, n))] = n
<1> DEFINE Good(i) == /\ Chain(doc, i) \in Seq(DOMAIN doc) /\ Len(Chain(doc, i)) \in Nat \ {0}
                      /\ Chain(doc, i)[Len(Chain(doc, i))] = i
           Bad == {i \in DOMAIN doc : ~Good(i)}
<1>1. SUFFICES ASSUME Bad # {} PROVE FALSE
  OBVIOUS
<1>2. Bad \subseteq Nat
  BY TreeFinite
<1>3. PICK i \in Bad : \A j \in Bad : i <= j
  <2> HIDE DEF Bad
  <2>1. QED
    BY <1>1, <1>2, LeastNat
<1>4. i \in DOMAIN doc /\ ~Good(i) /\ i \in Nat
  BY <1>2
<1>5. CASE doc[i].parent = 0
  <2>1. Chain(doc, i) = <<i>>
    BY <1>4, <1>5, ChainUnfolds
  <2>2. QED
    BY <1>4, <2>1
<1>6. CASE doc[i].parent # 0
  <2> DEFINE p == doc[i].parent
             s == Chain(doc, p)
  <2>1. p \in DOMAIN doc /\ p < i
    BY <1>4, <1>6 DEF ArxmlDoc
  <2>2. Good(p)
    <3>1. p \notin Bad
      <4>1. p \in Nat
        BY <2>1, TreeFinite
      <4> HIDE DEF Bad, p
      <4>2. QED
        BY <1>3, <1>4, <2>1, <4>1
    <3>2. QED
      BY <2>1, <3>1
  <2>3. s \in Seq(DOMAIN doc)
    BY <2>2
  <2>4. Chain(doc, i) = Append(s, i)
    BY <1>4, <1>6, ChainUnfolds
  <2> HIDE DEF s, Good
  <2>5. /\ Append(s, i) \in Seq(DOMAIN doc) /\ Len(Append(s, i)) \in Nat \ {0}
        /\ Append(s, i)[Len(Append(s, i))] = i
    BY <1>4, <2>3
  <2>6. Good(i)
    BY <2>4, <2>5 DEF Good
  <2>7. QED
    BY <1>4, <2>6
<1>7. QED
  BY <1>5, <1>6

-----------------------------------------------------------------------------
(* A document without a named node that has no children.                   *)

\* No node is below x, and no reference could mean x.
Removable(doc, x) ==
  /\ doc[x].name # << >>
  /\ \A n \in DOMAIN doc : doc[n].parent # x
  /\ \A n \in DOMAIN doc : \A r \in doc[n].refs : Last(r.path) # doc[x].name

LEMMA ExceptIs ==
  ASSUME NEW doc, ArxmlDoc(doc), NEW x, Removable(doc, x)
  PROVE  /\ ArxmlDoc(Except(doc, x)) /\ DOMAIN Except(doc, x) = DOMAIN doc \ {x}
         /\ \A n \in DOMAIN doc \ {x} : Except(doc, x)[n] = doc[n]
<1>1. /\ DOMAIN Except(doc, x) = DOMAIN doc \ {x} /\ \A n \in DOMAIN doc \ {x} : Except(doc, x)[n] = doc[n]
      /\ Except(doc, x) = [n \in DOMAIN Except(doc, x) |-> Except(doc, x)[n]]
  BY DEF Except
<1>2. \E m \in Nat : DOMAIN Except(doc, x) \subseteq 1..m
  <2>1. PICK m \in Nat : DOMAIN doc \subseteq 1..m
    BY DEF ArxmlDoc
  <2>2. QED
    BY <1>1, <2>1
<1>3. \A n \in DOMAIN doc \ {x} :
        doc[n].parent = 0 \/ (doc[n].parent \in DOMAIN doc \ {x} /\ doc[n].parent < n)
  BY DEF ArxmlDoc, Removable
<1>4. QED
  BY <1>1, <1>2, <1>3 DEF ArxmlDoc

\* The chains of the other nodes stay, and x is in none.
LEMMA ChainStays ==
  ASSUME NEW doc, ArxmlDoc(doc), NEW x, Removable(doc, x), NEW n \in DOMAIN doc \ {x}
  PROVE  Chain(Except(doc, x), n) = Chain(doc, n)
<1> DEFINE less == Except(doc, x)
           Bad  == {i \in DOMAIN doc \ {x} : Chain(less, i) # Chain(doc, i)}
<1>1. SUFFICES ASSUME Bad # {} PROVE FALSE
  OBVIOUS
<1>2. Bad \subseteq Nat
  BY TreeFinite
<1>3. PICK i \in Bad : \A j \in Bad : i <= j
  <2> HIDE DEF Bad
  <2>1. QED
    BY <1>1, <1>2, LeastNat
<1>4. i \in DOMAIN doc \ {x} /\ Chain(less, i) # Chain(doc, i) /\ i \in Nat
  BY <1>2
<1>5. ArxmlDoc(less) /\ DOMAIN less = DOMAIN doc \ {x} /\ less[i] = doc[i]
  BY <1>4, ExceptIs
<1> DEFINE p == doc[i].parent
<1>6. p # 0 => p \in DOMAIN doc \ {x} /\ p < i
  BY <1>4 DEF ArxmlDoc, Removable
<1>7. p # 0 => Chain(less, p) = Chain(doc, p)
  <2>1. SUFFICES ASSUME p # 0 PROVE p \notin Bad
    BY <1>6
  <2>2. p \in Nat /\ p < i
    BY <1>6, <2>1, TreeFinite
  <2> HIDE DEF Bad, p
  <2>3. QED
    BY <1>3, <1>4, <2>2
<1>8. Chain(doc, i) = IF p = 0 THEN <<i>> ELSE Append(Chain(doc, p), i)
  BY <1>4, ChainUnfolds
<1>9. Chain(less, i) = IF p = 0 THEN <<i>> ELSE Append(Chain(less, p), i)
  BY <1>4, <1>5, ChainUnfolds
<1>10. QED
  BY <1>4, <1>7, <1>8, <1>9

LEMMA AmongIn ==
  ASSUME NEW S, NEW s \in Seq(S), NEW keep
  PROVE  Among(s, keep) \in Seq(S)
<1> DEFINE t == [k \in DOMAIN s |-> IF s[k] \in keep THEN <<s[k]>> ELSE << >>]
<1>1. DOMAIN s = 1..Len(s) /\ Len(s) \in Nat
  BY SeqDomain
<1>2. t = [k \in 1..Len(s) |-> t[k]]
  BY <1>1
<1>3. \A k \in 1..Len(s) : t[k] \in Seq(S)
  <2>1. TAKE k \in 1..Len(s)
  <2>2. s[k] \in S /\ <<s[k]>> \in Seq(S) /\ << >> \in Seq(S)
    <3>1. s[k] \in S
      BY ElementIn
    <3>2. QED
      BY <3>1
  <2>3. t[k] = IF s[k] \in keep THEN <<s[k]>> ELSE << >>
    BY <1>1
  <2>4. QED
    BY <2>2, <2>3
<1>4. Among(s, keep) = FlattenSeq(t)
  BY DEF Among
<1> HIDE DEF t
<1>5. QED
  BY <1>1, <1>2, <1>3, <1>4, KeptOf

LEMMA AmongSame ==
  ASSUME NEW S, NEW s \in Seq(S), NEW keep, NEW hold, \A y \in S : y \in keep <=> y \in hold
  PROVE  Among(s, keep) = Among(s, hold)
<1>1. \A k \in DOMAIN s : s[k] \in S
  BY SeqDomain, ElementIn
<1>2. [k \in DOMAIN s |-> IF s[k] \in keep THEN <<s[k]>> ELSE << >>]
        = [k \in DOMAIN s |-> IF s[k] \in hold THEN <<s[k]>> ELSE << >>]
  BY <1>1
<1>3. QED
  BY <1>2 DEF Among

LEMMA NamesSame ==
  ASSUME NEW doc, NEW less, NEW s \in Seq(DOMAIN less), \A n \in DOMAIN less : less[n] = doc[n]
  PROVE  NamesOf(less, s) = NamesOf(doc, s)
<1>1. \A k \in DOMAIN s : s[k] \in DOMAIN less
  BY SeqDomain, ElementIn
<1>2. QED
  BY <1>1 DEF NamesOf

LEMMA PathsStay ==
  ASSUME NEW doc, ArxmlDoc(doc), NEW x, Removable(doc, x), NEW n \in DOMAIN doc \ {x}
  PROVE  /\ Hierarchy(Except(doc, x), n) = Hierarchy(doc, n)
         /\ PackagePath(Except(doc, x), n) = PackagePath(doc, n)
         /\ AutosarPath(Except(doc, x), n) = AutosarPath(doc, n)
<1> DEFINE less == Except(doc, x)
           D    == DOMAIN less
           s    == Chain(doc, n)
<1>1. ArxmlDoc(less) /\ D = DOMAIN doc \ {x} /\ \A i \in D : less[i] = doc[i]
  BY ExceptIs
<1>2. Chain(less, n) = s
  BY ChainStays
<1>3. n \in D
  BY <1>1
<1>4. s \in Seq(D) /\ Len(s) \in Nat \ {0}
  <2>1. Chain(less, n) \in Seq(DOMAIN less) /\ Len(Chain(less, n)) \in Nat \ {0}
    BY <1>1, <1>3, ChainIs
  <2>2. QED
    BY <1>2, <2>1
<1> HIDE DEF less, D, s
<1>5. Front(s) \in Seq(D)
  <2>1. s # << >>
    BY <1>4
  <2>2. QED
    BY <1>4, <2>1, FrontIs
<1>6. \A i \in D : i \in Named(less) <=> i \in Named(doc)
  BY <1>1 DEF Named, D
<1>7. Among(Front(s), Named(less)) = Among(Front(s), Named(doc))
  BY <1>5, <1>6, AmongSame
<1>8. \A i \in D : i \in {j \in Named(less) : less[j].tag = "AR-PACKAGE"} <=> i \in {j \in Named(doc) : doc[j].tag = "AR-PACKAGE"}
  BY <1>1, <1>6
<1>9. Among(s, {j \in Named(less) : less[j].tag = "AR-PACKAGE"}) = Among(s, {j \in Named(doc) : doc[j].tag = "AR-PACKAGE"})
  BY <1>4, <1>8, AmongSame
<1>10. \A t \in Seq(D) : NamesOf(less, t) = NamesOf(doc, t)
  BY <1>1, NamesSame DEF D
<1>11. Among(Front(s), Named(doc)) \in Seq(D) /\ Among(s, {j \in Named(doc) : doc[j].tag = "AR-PACKAGE"}) \in Seq(D)
  BY <1>4, <1>5, AmongIn
<1>12. Hierarchy(less, n) = Hierarchy(doc, n)
  BY <1>2, <1>7, <1>10, <1>11 DEF Hierarchy, s
<1>13. PackagePath(less, n) = PackagePath(doc, n)
  BY <1>2, <1>9, <1>10, <1>11 DEF PackagePath, s
<1>14. AutosarPath(less, n) = AutosarPath(doc, n)
  BY <1>1, <1>3, <1>12 DEF AutosarPath
<1>15. QED
  BY <1>12, <1>13, <1>14 DEF less

\* What the other nodes own stays, and x owns none of it.
LEMMA OwnedStays ==
  ASSUME NEW doc, ArxmlDoc(doc), NEW x, Removable(doc, x), NEW n \in DOMAIN doc \ {x}
  PROVE  /\ Owned(Except(doc, x), n) = Owned(doc, n) /\ Owned(doc, n) \subseteq DOMAIN doc \ {x}
         /\ ReferencesOf(Except(doc, x), n) = ReferencesOf(doc, n)
         /\ \A leaves : Values(Except(doc, x), n, leaves) = Values(doc, n, leaves)
<1> DEFINE less == Except(doc, x)
<1>1. ArxmlDoc(less) /\ DOMAIN less = DOMAIN doc \ {x} /\ \A i \in DOMAIN less : less[i] = doc[i]
  BY ExceptIs
<1>2. \A i \in DOMAIN less : Chain(less, i) = Chain(doc, i)
  BY <1>1, ChainStays
<1> HIDE DEF less
<1>3. ASSUME NEW i \in DOMAIN less PROVE i \in Owned(less, n) <=> i \in Owned(doc, n)
  <2> DEFINE s == Chain(doc, i)
  <2>1. s \in Seq(DOMAIN less)
    <3>1. Chain(less, i) \in Seq(DOMAIN less)
      BY <1>1, ChainIs
    <3>2. QED
      BY <1>2, <3>1
  <2>2. \A j \in DOMAIN s : s[j] \in DOMAIN less
    BY <2>1, SeqDomain, ElementIn
  <2>3. DOMAIN s = 1..Len(s) /\ Len(s) \in Nat
    BY <2>1, SeqDomain
  <2> HIDE DEF s
  <2>4. \A k \in DOMAIN s : \A j \in k + 1..Len(s) : j \in DOMAIN s
    BY <2>3
  <2>5. \A k \in DOMAIN s : \A j \in k + 1..Len(s) : less[s[j]] = doc[s[j]]
    BY <1>1, <2>2, <2>4
  <2>6. Chain(less, i) = s /\ Chain(doc, i) = s /\ i \in DOMAIN doc
    BY <1>1, <1>2 DEF s
  <2>7. QED
    BY <2>5, <2>6 DEF Owned
<1>4. x \notin Owned(doc, n)
  <2>1. SUFFICES ASSUME x \in DOMAIN doc,
                        NEW k \in DOMAIN Chain(doc, x), Chain(doc, x)[k] = n,
                        \A j \in k + 1..Len(Chain(doc, x)) : doc[Chain(doc, x)[j]].name = << >>
                 PROVE  FALSE
    BY DEF Owned
  <2> DEFINE s == Chain(doc, x)
  <2>2. s \in Seq(DOMAIN doc) /\ Len(s) \in Nat \ {0} /\ s[Len(s)] = x
    BY <2>1, ChainIs
  <2>3. k \in 1..Len(s)
    BY <2>1, <2>2, SeqDomain
  <2> HIDE DEF s
  <2>4. CASE k = Len(s)
    BY <2>1, <2>2, <2>4 DEF s
  <2>5. CASE k # Len(s)
    <3>1. Len(s) \in k + 1..Len(s)
      BY <2>2, <2>3, <2>5
    <3>2. doc[s[Len(s)]].name = << >>
      BY <2>1, <3>1 DEF s
    <3>3. QED
      BY <2>2, <3>2 DEF Removable
  <2>6. QED
    BY <2>4, <2>5
<1>5. Owned(less, n) \subseteq DOMAIN less /\ Owned(doc, n) \subseteq DOMAIN doc
  BY DEF Owned
<1>6. Owned(less, n) = Owned(doc, n) /\ Owned(doc, n) \subseteq DOMAIN less
  BY <1>1, <1>3, <1>4, <1>5
<1>7. ReferencesOf(less, n) = ReferencesOf(doc, n)
  BY <1>1, <1>6 DEF ReferencesOf
<1>8. ASSUME NEW leaves PROVE Values(less, n, leaves) = Values(doc, n, leaves)
  <2>1. UNION {less[i].leaves : i \in Owned(less, n)} = UNION {doc[i].leaves : i \in Owned(doc, n)}
    BY <1>1, <1>6
  <2>2. QED
    BY <2>1 DEF Values
<1>9. QED
  BY <1>1, <1>6, <1>7, <1>8 DEF less

\* References lead where they led.
LEMMA ReferencesStay ==
  ASSUME NEW doc, ArxmlDoc(doc), NEW x, Removable(doc, x), NEW n \in DOMAIN doc \ {x}, NEW r \in ReferencesOf(doc, n)
  PROVE  Resolve(Except(doc, x), r, n) = Resolve(doc, r, n) /\ Resolve(doc, r, n).targets \subseteq DOMAIN doc \ {x}
<1> DEFINE less == Except(doc, x)
           fit(d)    == {i \in DOMAIN d : d[i].name # << >> /\ (r.dest = "any" \/ d[i].tag = r.dest)}
           exact(d)  == {i \in fit(d) : AutosarPath(d, i) = r.path}
           byName(d) == {i \in fit(d) : d[i].name = Last(r.path)}
           nearby(d) == {i \in byName(d) : IsPrefix(PackagePath(d, n), PackagePath(d, i))}
<1>1. DOMAIN less = DOMAIN doc \ {x} /\ \A i \in DOMAIN less : less[i] = doc[i]
  BY ExceptIs
<1>2. \A i \in DOMAIN less : AutosarPath(less, i) = AutosarPath(doc, i) /\ PackagePath(less, i) = PackagePath(doc, i)
  BY <1>1, PathsStay
<1>3. Last(r.path) # doc[x].name
  <2>1. PICK i \in DOMAIN doc : r \in doc[i].refs
    BY DEF ReferencesOf, Owned
  <2>2. QED
    BY <2>1 DEF Removable
<1>4. x \in DOMAIN doc => Last(AutosarPath(doc, x)) = doc[x].name
  <2>1. SUFFICES ASSUME x \in DOMAIN doc PROVE Last(AutosarPath(doc, x)) = doc[x].name
    OBVIOUS
  <2> DEFINE h == Hierarchy(doc, x)
             S == {doc[i].name : i \in DOMAIN doc}
  <2>2. h \in Seq(S)
    <3> DEFINE s == Front(Chain(doc, x))
               t == Among(s, Named(doc))
    <3>1. s \in Seq(DOMAIN doc)
      <4>1. Chain(doc, x) \in Seq(DOMAIN doc) /\ Chain(doc, x) # << >>
        BY <2>1, ChainIs
      <4>2. QED
        BY <4>1, FrontIs
    <3> HIDE DEF s
    <3>2. t \in Seq(DOMAIN doc)
      BY <3>1, AmongIn
    <3>3. h = NamesOf(doc, t)
      BY DEF Hierarchy, s
    <3> HIDE DEF t, h
    <3>4. /\ DOMAIN t = 1..Len(t) /\ Len(t) \in Nat /\ \A k \in 1..Len(t) : t[k] \in DOMAIN doc
      BY <3>2, SeqDomain, ElementIn
    <3>5. h = [k \in 1..Len(t) |-> h[k]] /\ \A k \in 1..Len(t) : h[k] \in S
      BY <3>3, <3>4 DEF NamesOf
    <3> HIDE DEF S
    <3>6. QED
      BY <3>4, <3>5, FunctionIsSeq
  <2>3. doc[x].name \in S
    BY <2>1
  <2> HIDE DEF h, S
  <2>4. /\ Append(h, doc[x].name) \in Seq(S) /\ Len(Append(h, doc[x].name)) = Len(h) + 1
        /\ Append(h, doc[x].name)[Len(h) + 1] = doc[x].name /\ Len(h) \in Nat
    BY <2>2, <2>3
  <2>5. AutosarPath(doc, x) = Append(h, doc[x].name)
    BY DEF AutosarPath, h
  <2>6. QED
    BY <2>4, <2>5 DEF Last
<1>5. fit(less) = fit(doc) \ {x}
  BY <1>1
<1>6. x \notin exact(doc) /\ x \notin byName(doc)
  BY <1>3, <1>4
<1>7. exact(less) = exact(doc)
  BY <1>1, <1>2, <1>5, <1>6
<1>8. byName(less) = byName(doc)
  BY <1>1, <1>5, <1>6
<1>9. nearby(less) = nearby(doc)
  <2>1. byName(doc) \subseteq DOMAIN less /\ n \in DOMAIN less
    BY <1>1, <1>6
  <2> HIDE DEF byName, less
  <2>2. QED
    BY <1>2, <1>8, <2>1
<1>10. exact(doc) \subseteq DOMAIN doc \ {x} /\ byName(doc) \subseteq DOMAIN doc \ {x} /\ nearby(doc) \subseteq byName(doc)
  BY <1>6
<1> DEFINE found(d) == CASE exact(d) # {}                                 -> exact(d)
                         [] exact(d) = {} /\ ~r.absolute /\ nearby(d) # {} -> nearby(d)
                         [] OTHER                                      -> byName(d)
<1>11. Resolve(doc, r, n) = Decide(found(doc)) /\ Resolve(less, r, n) = Decide(found(less))
  BY DEF Resolve
<1> HIDE DEF exact, byName, nearby, fit
<1>12. found(less) = found(doc) /\ found(doc) \subseteq DOMAIN doc \ {x}
  BY <1>7, <1>8, <1>9, <1>10
<1>13. Decide(found(doc)).targets = found(doc)
  BY DEF Decide, Resolution
<1>14. QED
  BY <1>11, <1>12, <1>13 DEF less
-----------------------------------------------------------------------------
(* Rows (Mapping).                                                         *)

Categories == {"ecu", "can_frame", "pdu", "vlan", "someip_method", "someip_field", "socket"}

\* A FLYNC element of a category there are rules for, with finitely many
\* contexts.
Mappable(e) == e.category \in Categories /\ IsFiniteSet(DOMAIN e.context)

LEMMA RuleFinite ==
  ASSUME NEW c \in Categories
  PROVE  IsFiniteSet(RuleOfCategory(c).properties)
<1>1. \A p, q, r : IsFiniteSet({}) /\ IsFiniteSet({p}) /\ IsFiniteSet({p, q}) /\ IsFiniteSet({p, q, r})
  <2>1. TAKE p, q, r
  <2>2. IsFiniteSet({})
    BY FS_EmptySet
  <2>3. IsFiniteSet({} \cup {p})
    BY <2>2, FS_AddElement
  <2>4. IsFiniteSet(({} \cup {p}) \cup {q})
    BY <2>3, FS_AddElement
  <2>5. IsFiniteSet((({} \cup {p}) \cup {q}) \cup {r})
    BY <2>4, FS_AddElement
  <2>6. {} \cup {p} = {p} /\ ({} \cup {p}) \cup {q} = {p, q} /\ (({} \cup {p}) \cup {q}) \cup {r} = {p, q, r}
    OBVIOUS
  <2>7. QED
    BY <2>2, <2>3, <2>4, <2>5, <2>6
<1>2. \E p, q, r : RuleOfCategory(c).properties \in {{}, {p}, {p, q}, {p, q, r}}
  <2>1. CASE c = "ecu"
    <3>1. RuleOfCategory(c).properties = {}
      BY <2>1 DEF RuleOfCategory, RuleFor
    <3>2. QED
      BY <3>1
  <2>2. CASE c = "can_frame"
    <3>1. RuleOfCategory(c).properties = {Property("can_id", {"IDENTIFIER"}, TRUE), Property("length", {"FRAME-LENGTH"}, TRUE)}
      BY <2>2 DEF RuleOfCategory, RuleFor
    <3>2. QED
      BY <3>1
  <2>3. CASE c = "pdu"
    <3>1. RuleOfCategory(c).properties = {Property("length", {"LENGTH"}, TRUE),
                                          Property("pdu_id", {"HEADER-ID-LONG-HEADER", "HEADER-ID"}, FALSE)}
      BY <2>3 DEF RuleOfCategory, RuleFor
    <3>2. QED
      BY <3>1
  <2>4. CASE c = "vlan"
    <3>1. RuleOfCategory(c).properties = {Property("id", {"VLAN-IDENTIFIER"}, TRUE)}
      BY <2>4 DEF RuleOfCategory, RuleFor
    <3>2. QED
      BY <3>1
  <2>5. CASE c = "someip_method"
    <3>1. RuleOfCategory(c).properties = {Property("id", {"METHOD-IDENTIFIER", "METHOD-ID"}, TRUE)}
      BY <2>5 DEF RuleOfCategory, RuleFor
    <3>2. QED
      BY <3>1
  <2>6. CASE c = "someip_field"
    <3>1. RuleOfCategory(c).properties = {Property("getter_id", {"GETTER-IDENTIFIER"}, TRUE),
                                          Property("setter_id", {"SETTER-IDENTIFIER"}, TRUE),
                                          Property("notifier_id", {"NOTIFIER-IDENTIFIER"}, TRUE)}
      BY <2>6 DEF RuleOfCategory, RuleFor
    <3>2. QED
      BY <3>1
  <2>7. CASE c = "socket"
    <3>1. RuleOfCategory(c).properties = {Property("port_no", {"PORT-NUMBER"}, TRUE), Property("protocol", {"PROTOCOL"}, TRUE),
                                          Property("endpoint_address", {"IPV-4-ADDRESS"}, TRUE)}
      BY <2>7 DEF RuleOfCategory, RuleFor
    <3>2. QED
      BY <3>1
  <2>8. QED
    BY <2>1, <2>2, <2>3, <2>4, <2>5, <2>6, <2>7 DEF Categories
<1>3. PICK p, q, r : RuleOfCategory(c).properties \in {{}, {p}, {p, q}, {p, q, r}}
  BY <1>2
<1>4. IsFiniteSet({}) /\ IsFiniteSet({p}) /\ IsFiniteSet({p, q}) /\ IsFiniteSet({p, q, r})
  BY <1>1
<1>5. QED
  BY <1>3, <1>4

LEMMA SubsetCounts ==
  ASSUME NEW whole, IsFiniteSet(whole), NEW part, part \subseteq whole
  PROVE  IsFiniteSet(part) /\ Cardinality(part) <= Cardinality(whole) /\ Cardinality(part) \in Nat /\ Cardinality(whole) \in Nat
BY FS_Subset, FS_CardinalityType

LEMMA AnchorsFinite ==
  ASSUME NEW doc, NEW e, Mappable(e), NEW c
  PROVE  /\ IsFiniteSet(Given(e)) /\ Agreeing(doc, e, c) \subseteq Given(e)
         /\ IsFiniteSet(ContextAnchors(doc, e, c))
<1>1. IsFiniteSet(Given(e))
  BY RuleFinite, FS_Subset DEF Mappable, Given
<1> DEFINE whole == {<<"context", k>> : k \in DOMAIN e.context}
<1>2. IsFiniteSet(whole)
  <2> DEFINE f == [k \in DOMAIN e.context |-> <<"context", k>>]
  <2>1. f \in Surjection(DOMAIN e.context, whole)
    BY DEF Surjection
  <2>2. QED
    BY <2>1, FS_Surjection DEF Mappable
<1>3. IsFiniteSet(whole \cup {<<"name">>})
  BY <1>2, FS_AddElement
<1>4. ContextAnchors(doc, e, c) \subseteq whole \cup {<<"name">>}
  BY DEF ContextAnchors
<1> HIDE DEF whole
<1>5. IsFiniteSet(ContextAnchors(doc, e, c))
  BY <1>3, <1>4, FS_Subset
<1>6. QED
  BY <1>1, <1>5 DEF Agreeing

\* The evidence is counted.
LEMMA CountsAreNat ==
  ASSUME NEW doc, NEW e, Mappable(e), NEW c
  PROVE  Anchors(doc, e, c) \in Nat /\ Supporting(doc, e, c) \in Nat
<1>1. IsFiniteSet(Given(e)) /\ Agreeing(doc, e, c) \subseteq Given(e) /\ IsFiniteSet(ContextAnchors(doc, e, c))
  BY AnchorsFinite
<1> DEFINE firm == {p \in Agreeing(doc, e, c) : ~OnlySupports(doc, e, p)}
           weak == {p \in Agreeing(doc, e, c) : OnlySupports(doc, e, p)}
<1>2. firm \subseteq Given(e) /\ weak \subseteq Given(e)
  BY <1>1
<1> HIDE DEF firm, weak
<1>3. Cardinality(firm) \in Nat /\ Cardinality(weak) \in Nat /\ Cardinality(ContextAnchors(doc, e, c)) \in Nat
  BY <1>1, <1>2, SubsetCounts
<1>4. Anchors(doc, e, c) = Cardinality(ContextAnchors(doc, e, c)) + Cardinality(firm) + IF EndpointFound(doc, e, c) THEN 1 ELSE 0
  BY DEF Anchors, firm
<1>5. Supporting(doc, e, c) = Cardinality(weak) + IF Similar(doc[c].name, e.name) THEN 1 ELSE 0
  BY DEF Supporting, weak
<1>6. QED
  BY <1>3, <1>4, <1>5

\* What fits as well has as many anchors and as much that supports it.
LEMMA FitsCounts ==
  ASSUME NEW doc, NEW e, Mappable(e), NEW c, NEW d, FitsAsWell(doc, e, c, d)
  PROVE  Anchors(doc, e, c) <= Anchors(doc, e, d) /\ Supporting(doc, e, c) <= Supporting(doc, e, d)
<1>1. /\ IsFiniteSet(Given(e)) /\ Agreeing(doc, e, d) \subseteq Given(e)
      /\ IsFiniteSet(ContextAnchors(doc, e, d))
  BY AnchorsFinite
<1> DEFINE firm(x) == {p \in Agreeing(doc, e, x) : ~OnlySupports(doc, e, p)}
           weak(x) == {p \in Agreeing(doc, e, x) : OnlySupports(doc, e, p)}
           ends(x) == IF EndpointFound(doc, e, x) THEN 1 ELSE 0
           like(x) == IF Similar(doc[x].name, e.name) THEN 1 ELSE 0
<1>2. firm(c) \subseteq firm(d) /\ weak(c) \subseteq weak(d) /\ firm(d) \subseteq Given(e) /\ weak(d) \subseteq Given(e)
  BY <1>1 DEF FitsAsWell
<1>3. ContextAnchors(doc, e, c) \subseteq ContextAnchors(doc, e, d)
  BY DEF FitsAsWell, ContextAnchors
<1>4. ends(c) <= ends(d) /\ ends(c) \in 0..1 /\ ends(d) \in 0..1
  BY DEF FitsAsWell
<1>5. like(c) <= like(d) /\ like(c) \in 0..1 /\ like(d) \in 0..1
  BY DEF FitsAsWell
<1>6. \A x : Anchors(doc, e, x) = Cardinality(ContextAnchors(doc, e, x)) + Cardinality(firm(x)) + ends(x)
  BY DEF Anchors
<1>7. \A x : Supporting(doc, e, x) = Cardinality(weak(x)) + like(x)
  BY DEF Supporting
<1> HIDE DEF firm, weak, ends, like
<1>8. IsFiniteSet(firm(d)) /\ IsFiniteSet(weak(d))
  BY <1>1, <1>2, FS_Subset
<1>9. /\ Cardinality(firm(c)) <= Cardinality(firm(d)) /\ Cardinality(firm(c)) \in Nat /\ Cardinality(firm(d)) \in Nat
      /\ Cardinality(weak(c)) <= Cardinality(weak(d)) /\ Cardinality(weak(c)) \in Nat /\ Cardinality(weak(d)) \in Nat
  BY <1>2, <1>8, SubsetCounts
<1>10. /\ Cardinality(ContextAnchors(doc, e, c)) <= Cardinality(ContextAnchors(doc, e, d))
       /\ Cardinality(ContextAnchors(doc, e, c)) \in Nat /\ Cardinality(ContextAnchors(doc, e, d)) \in Nat
  BY <1>1, <1>3, SubsetCounts
<1>11. Anchors(doc, e, c) <= Anchors(doc, e, d)
  BY <1>4, <1>6, <1>9, <1>10
<1>12. Supporting(doc, e, c) <= Supporting(doc, e, d)
  BY <1>5, <1>7, <1>9
<1>13. QED
  BY <1>11, <1>12

\* The element of a mapped row is the only one.
LEMMA MappedOne ==
  ASSUME NEW doc, ArxmlDoc(doc), NEW e, Row(doc, e).status = "Mapped"
  PROVE  \E c \in Available(doc, e) :
           /\ Row(doc, e).elements = {c} /\ SelectCandidates(doc, e) = {c}
           /\ {p \in Given(e) : p.required} \subseteq Agreeing(doc, e, c)
           /\ \A r \in ReferencesOf(doc, c) : Resolve(doc, r, c).state # "ambiguous"
<1> DEFINE cs == SelectCandidates(doc, e)
           ev == EvidenceOf(doc, e, cs)
<1>1. Row(doc, e).elements = cs /\ Row(doc, e).status = Status(cs, ev)
  BY DEF Row
<1>2. cs \subseteq Available(doc, e) /\ Available(doc, e) \subseteq DOMAIN doc
  BY DEF SelectCandidates, Available, WithTags
<1>3. IsFiniteSet(cs)
  BY <1>2, TreeFinite, FS_Subset
<1> HIDE DEF cs
<1>4. cs # {} /\ (\A x \in ev : x.required => x.result = "match") /\ \A x \in ev : x.result # "ambiguous"
  BY <1>1 DEF Status
<1>5. ~(Cardinality(cs) > 1)
  <2>1. SUFFICES ASSUME Cardinality(cs) > 1 PROVE FALSE
    OBVIOUS
  <2>2. Evidence("ambiguous", TRUE, FALSE) \in ev
    BY <2>1 DEF EvidenceOf, AmbiguityEvidence
  <2>3. QED
    BY <1>4, <2>2 DEF Evidence
<1>6. PICK c \in cs : cs = {c}
  <2>1. PICK c \in cs : TRUE
    BY <1>4
  <2>2. IsFiniteSet({c}) /\ Cardinality({c}) = 1
    BY FS_Singleton
  <2>3. cs \subseteq {c}
    <3>1. SUFFICES ASSUME NEW d \in cs, d # c PROVE FALSE
      OBVIOUS
    <3>2. IsFiniteSet({c} \cup {d}) /\ Cardinality({c} \cup {d}) = 2
      <4>1. d \notin {c}
        BY <3>1
      <4>2. IsFiniteSet({c} \cup {d}) /\ Cardinality({c} \cup {d}) = Cardinality({c}) + 1
        BY <2>2, <4>1, FS_AddElement
      <4>3. QED
        BY <2>2, <4>2
    <3>3. {c} \cup {d} \subseteq cs
      BY <2>1
    <3>4. 2 <= Cardinality(cs) /\ Cardinality(cs) \in Nat
      BY <1>3, <3>2, <3>3, SubsetCounts
    <3>5. QED
      BY <1>5, <3>4
  <2>4. QED
    BY <2>1, <2>3
<1>7. ASSUME NEW p \in Given(e), p.required PROVE p \in Agreeing(doc, e, c)
  <2> DEFINE x == Compared(doc, cs, e.properties[p.key], p.leaves, p.required)
             actual == UNION {Values(doc, d, p.leaves) : d \in cs}
  <2>1. x \in ev
    BY DEF EvidenceOf
  <2>2. x.required = p.required /\ x.result = (CASE actual = {} -> "missing"
                                                 [] SomeSame(e.properties[p.key], actual) -> "match"
                                                 [] OTHER -> "mismatch")
    BY DEF Compared, Evidence
  <2>3. x.result = "match"
    BY <1>4, <1>7, <2>1, <2>2
  <2>4. actual # {} /\ SomeSame(e.properties[p.key], actual)
    <3>1. actual = {} => x.result = "missing"
      <4>1. SomeSame(e.properties[p.key], {}) = FALSE
        BY DEF SomeSame
      <4>2. QED
        BY <2>2, <4>1
    <3>2. actual # {} /\ ~SomeSame(e.properties[p.key], actual) => x.result = "mismatch"
      BY <2>2
    <3>3. QED
      BY <2>3, <3>1, <3>2
  <2>5. actual = Values(doc, c, p.leaves)
    BY <1>6
  <2>6. QED
    BY <2>4, <2>5 DEF Agreeing
<1>8. ASSUME NEW r \in ReferencesOf(doc, c) PROVE Resolve(doc, r, c).state # "ambiguous"
  <2>1. SUFFICES ASSUME Resolve(doc, r, c).state = "ambiguous" PROVE FALSE
    OBVIOUS
  <2> DEFINE x == Evidence(ReferenceResult(Resolve(doc, r, c)), FALSE, TRUE)
             q == [of |-> c, ref |-> r]
             pairs == UNION {{[of |-> d, ref |-> r2] : r2 \in ReferencesOf(doc, d)} : d \in cs}
  <2>2. q \in pairs
    BY <1>6, <1>8
  <2>3. q.of = c /\ q.ref = r
    OBVIOUS
  <2>4. ReferenceEvidence(doc, cs) = {Evidence(ReferenceResult(Resolve(doc, y.ref, y.of)), FALSE, TRUE) : y \in pairs}
    BY DEF ReferenceEvidence
  <2> HIDE DEF q, pairs
  <2>5. x \in ReferenceEvidence(doc, cs)
    BY <2>2, <2>3, <2>4
  <2>6. x \in ev
    BY <2>5 DEF EvidenceOf
  <2>7. x.result = "ambiguous"
    BY <2>1 DEF Evidence, ReferenceResult
  <2>8. QED
    BY <1>4, <2>6, <2>7
<1>9. c \in Available(doc, e)
  BY <1>2
<1>10. QED
  BY <1>1, <1>6, <1>7, <1>8, <1>9 DEF cs

\* Nothing else fits as well as the only candidate.
LEMMA NoneFitsAsWell ==
  ASSUME NEW doc, NEW e, Mappable(e), NEW c, SelectCandidates(doc, e) = {c},
         NEW d \in Available(doc, e) \ {c}
  PROVE  ~FitsAsWell(doc, e, c, d)
<1>1. SUFFICES ASSUME FitsAsWell(doc, e, c, d) PROVE FALSE
  OBVIOUS
<1> DEFINE credible == {x \in Available(doc, e) : Anchors(doc, e, x) > 0}
           stronger(x, y) == \/ Anchors(doc, e, x) > Anchors(doc, e, y)
                             \/ /\ Anchors(doc, e, x) = Anchors(doc, e, y)
                                /\ Supporting(doc, e, x) > Supporting(doc, e, y)
<1>2. SelectCandidates(doc, e) = {x \in credible : \A y \in credible : ~stronger(y, x)}
  BY DEF SelectCandidates
<1>3. c \in credible /\ (\A y \in credible : ~stronger(y, c)) /\ ~(d \in credible /\ \A y \in credible : ~stronger(y, d))
  <2> HIDE DEF credible, stronger
  <2>1. QED
    BY <1>2
<1>4. Anchors(doc, e, c) <= Anchors(doc, e, d) /\ Supporting(doc, e, c) <= Supporting(doc, e, d)
  BY <1>1, FitsCounts
<1>5. \A x : Anchors(doc, e, x) \in Nat /\ Supporting(doc, e, x) \in Nat
  BY CountsAreNat
<1>6. d \in credible
  BY <1>3, <1>4, <1>5
<1>7. \A y \in credible : stronger(y, d) => stronger(y, c)
  <2>1. TAKE y \in credible
  <2> DEFINE ay == Anchors(doc, e, y)
             ac == Anchors(doc, e, c)
             ad == Anchors(doc, e, d)
             sy == Supporting(doc, e, y)
             sc == Supporting(doc, e, c)
             sd == Supporting(doc, e, d)
  <2>2. /\ ay \in Nat /\ ac \in Nat /\ ad \in Nat /\ sy \in Nat /\ sc \in Nat /\ sd \in Nat
        /\ ac <= ad /\ sc <= sd
    BY <1>4, <1>5
  <2>3. (stronger(y, d) <=> ay > ad \/ (ay = ad /\ sy > sd)) /\ (stronger(y, c) <=> ay > ac \/ (ay = ac /\ sy > sc))
    OBVIOUS
  <2> HIDE DEF ay, ac, ad, sy, sc, sd, stronger
  <2>4. QED
    BY <2>2, <2>3
<1>8. QED
  BY <1>3, <1>6, <1>7

\* A row does not depend on an element that has nothing to do with it.
LEMMA RowStays ==
  ASSUME NEW doc, ArxmlDoc(doc), NEW e, NEW x \in DOMAIN doc, Unrelated(doc, RuleOfCategory(e.category).tags, x)
  PROVE  Row(Except(doc, x), e) = Row(doc, e)
<1> DEFINE less == Except(doc, x)
           D    == DOMAIN less
<1>1. Removable(doc, x) /\ doc[x].tag \notin RuleOfCategory(e.category).tags
  BY DEF Unrelated, Removable
<1>2. D = DOMAIN doc \ {x} /\ \A i \in D : less[i] = doc[i]
  BY <1>1, ExceptIs
<1>3. \A i \in D : /\ Hierarchy(less, i) = Hierarchy(doc, i) /\ ReferencesOf(less, i) = ReferencesOf(doc, i)
                   /\ \A leaves : Values(less, i, leaves) = Values(doc, i, leaves)
  BY <1>1, <1>2, PathsStay, OwnedStays
<1>4. \A i \in D : \A r \in ReferencesOf(doc, i) : Resolve(less, r, i) = Resolve(doc, r, i) /\ Resolve(doc, r, i).targets \subseteq D
  BY <1>1, <1>2, ReferencesStay
<1> HIDE DEF less, D
<1>5. Available(less, e) = Available(doc, e) /\ Available(doc, e) \subseteq D
  BY <1>1, <1>2 DEF Available, WithTags, D
<1>6. \A i \in D : ContextAnchors(less, e, i) = ContextAnchors(doc, e, i)
  BY <1>2, <1>3 DEF ContextAnchors
<1>7. \A i \in D : Agreeing(less, e, i) = Agreeing(doc, e, i)
  BY <1>3 DEF Agreeing
<1>8. \A p : OnlySupports(less, e, p) <=> OnlySupports(doc, e, p)
  <2>1. TAKE p
  <2>2. {c \in Available(less, e) : p \in Agreeing(less, e, c)} = {c \in Available(doc, e) : p \in Agreeing(doc, e, c)}
    BY <1>5, <1>7
  <2>3. QED
    BY <2>2 DEF OnlySupports
<1>9. \A i \in D : EndpointFound(less, e, i) <=> EndpointFound(doc, e, i)
  <2>1. TAKE i \in D
  <2>2. ReferencesOf(less, i) = ReferencesOf(doc, i)
    BY <1>3
  <2>3. ASSUME NEW r \in ReferencesOf(doc, i)
        PROVE  (\E t \in Resolve(less, r, i).targets : SomeSame(e.properties["endpoint_address"], Values(less, t, {"IPV-4-ADDRESS"})))
               <=> \E t \in Resolve(doc, r, i).targets : SomeSame(e.properties["endpoint_address"], Values(doc, t, {"IPV-4-ADDRESS"}))
    <3>1. Resolve(less, r, i) = Resolve(doc, r, i) /\ Resolve(doc, r, i).targets \subseteq D
      BY <1>4
    <3>2. \A t \in D : Values(less, t, {"IPV-4-ADDRESS"}) = Values(doc, t, {"IPV-4-ADDRESS"})
      BY <1>3
    <3>3. QED
      BY <3>1, <3>2
  <2>4. QED
    BY <2>2, <2>3 DEF EndpointFound
<1>10. \A i \in D : Anchors(less, e, i) = Anchors(doc, e, i)
  <2>1. TAKE i \in D
  <2>2. {p \in Agreeing(less, e, i) : ~OnlySupports(less, e, p)} = {p \in Agreeing(doc, e, i) : ~OnlySupports(doc, e, p)}
    BY <1>7, <1>8
  <2>3. QED
    BY <1>6, <1>9, <2>2 DEF Anchors
<1>11. \A i \in D : Supporting(less, e, i) = Supporting(doc, e, i)
  <2>1. TAKE i \in D
  <2>2. {p \in Agreeing(less, e, i) : OnlySupports(less, e, p)} = {p \in Agreeing(doc, e, i) : OnlySupports(doc, e, p)}
    BY <1>7, <1>8
  <2>3. less[i] = doc[i]
    BY <1>2
  <2>4. QED
    BY <2>2, <2>3 DEF Supporting
<1>12. SelectCandidates(less, e) = SelectCandidates(doc, e)
  <2> DEFINE credible(f) == {c \in Available(f, e) : Anchors(f, e, c) > 0}
             stronger(f, c, d) == \/ Anchors(f, e, c) > Anchors(f, e, d)
                                  \/ /\ Anchors(f, e, c) = Anchors(f, e, d)
                                     /\ Supporting(f, e, c) > Supporting(f, e, d)
  <2>1. \A f : SelectCandidates(f, e) = {c \in credible(f) : \A d \in credible(f) : ~stronger(f, d, c)}
    BY DEF SelectCandidates
  <2>2. credible(less) = credible(doc) /\ credible(doc) \subseteq D
    BY <1>5, <1>10
  <2>3. \A c, d \in D : stronger(less, c, d) <=> stronger(doc, c, d)
    BY <1>10, <1>11
  <2> HIDE DEF credible, stronger
  <2>4. {c \in credible(less) : \A d \in credible(less) : ~stronger(less, d, c)}
          = {c \in credible(doc) : \A d \in credible(doc) : ~stronger(doc, d, c)}
    BY <2>2, <2>3
  <2>5. QED
    BY <2>1, <2>4
<1> DEFINE cs == SelectCandidates(doc, e)
<1>13. cs \subseteq D
  BY <1>5 DEF SelectCandidates
<1> HIDE DEF cs
<1>14. \A expected, leaves, required : Compared(less, cs, expected, leaves, required) = Compared(doc, cs, expected, leaves, required)
  <2>1. TAKE expected, leaves, required
  <2>2. UNION {Values(less, c, leaves) : c \in cs} = UNION {Values(doc, c, leaves) : c \in cs}
    BY <1>3, <1>13
  <2>3. QED
    BY <2>2 DEF Compared
<1>15. ReferenceEvidence(less, cs) = ReferenceEvidence(doc, cs)
  <2> DEFINE refs(f) == UNION {{[of |-> c, ref |-> r] : r \in ReferencesOf(f, c)} : c \in cs}
  <2>1. refs(less) = refs(doc)
    BY <1>3, <1>13
  <2>2. \A q \in refs(doc) : Resolve(less, q.ref, q.of) = Resolve(doc, q.ref, q.of)
    <3>1. TAKE q \in refs(doc)
    <3>2. PICK c \in cs : \E r \in ReferencesOf(doc, c) : q = [of |-> c, ref |-> r]
      OBVIOUS
    <3>3. PICK r \in ReferencesOf(doc, c) : q = [of |-> c, ref |-> r]
      BY <3>2
    <3>4. q.of = c /\ q.ref = r /\ c \in D
      BY <1>13, <3>3
    <3>5. QED
      BY <1>4, <3>4
  <2>3. \A f : ReferenceEvidence(f, cs) = {Evidence(ReferenceResult(Resolve(f, q.ref, q.of)), FALSE, TRUE) : q \in refs(f)}
    BY DEF ReferenceEvidence
  <2> HIDE DEF refs
  <2>4. {Evidence(ReferenceResult(Resolve(less, q.ref, q.of)), FALSE, TRUE) : q \in refs(doc)}
          = {Evidence(ReferenceResult(Resolve(doc, q.ref, q.of)), FALSE, TRUE) : q \in refs(doc)}
    BY <2>2
  <2>5. QED
    BY <2>1, <2>3, <2>4
<1>16. SocketEvidence(less, e, cs) = SocketEvidence(doc, e, cs)
  BY <1>14 DEF SocketEvidence
<1>17. EvidenceOf(less, e, cs) = EvidenceOf(doc, e, cs)
  <2>1. {Compared(less, cs, e.properties[p.key], p.leaves, p.required) : p \in Given(e)}
          = {Compared(doc, cs, e.properties[p.key], p.leaves, p.required) : p \in Given(e)}
    BY <1>14
  <2>2. QED
    BY <1>15, <1>16, <2>1 DEF EvidenceOf
<1>18. QED
  BY <1>12, <1>17 DEF Row, cs, less

LEMMA RowsAreTrue ==
  ASSUME NEW doc, ArxmlDoc(doc), NEW e, Mappable(e)
  PROVE  MappedTruly(doc, e)
<1>1. ASSUME Row(doc, e).status = "Mapped"
      PROVE  \E c \in Row(doc, e).elements :
               /\ Row(doc, e).elements = {c}
               /\ {p \in Given(e) : p.required} \subseteq Agreeing(doc, e, c)
               /\ \A r \in ReferencesOf(doc, c) : Resolve(doc, r, c).state # "ambiguous"
               /\ \A d \in Available(doc, e) \ {c} : ~FitsAsWell(doc, e, c, d)
  <2>1. PICK c \in Available(doc, e) :
          /\ Row(doc, e).elements = {c} /\ SelectCandidates(doc, e) = {c}
          /\ {p \in Given(e) : p.required} \subseteq Agreeing(doc, e, c)
          /\ \A r \in ReferencesOf(doc, c) : Resolve(doc, r, c).state # "ambiguous"
    BY <1>1, MappedOne
  <2>2. \A d \in Available(doc, e) \ {c} : ~FitsAsWell(doc, e, c, d)
    BY <2>1, NoneFitsAsWell
  <2>3. c \in Row(doc, e).elements
    BY <2>1
  <2>4. QED
    BY <2>1, <2>2, <2>3
<1>2. \A x \in DOMAIN doc : Unrelated(doc, RuleOfCategory(e.category).tags, x) => Row(Except(doc, x), e) = Row(doc, e)
  BY RowStays
<1>3. QED
  BY <1>1, <1>2 DEF MappedTruly

-----------------------------------------------------------------------------
(* The way back (Projection).                                              *)

\* Within a concept, what can be recovered has a name of its own.
LEMMA RecoverablesApart ==
  ASSUME NEW s \in Concepts, NEW p \in s.properties, NEW q \in s.properties, p.name = q.name
  PROVE  p = q
<1>1. \/ s.properties \in {{}, OfField, {Recoverable("length", {"LENGTH"})}, {Recoverable("vlan_id", {"VLAN-IDENTIFIER"})}}
      \/ s.properties = {Recoverable("can_id", {"IDENTIFIER"}), Recoverable("length", {"FRAME-LENGTH"})}
      \/ s.properties = {Recoverable("port", {"PORT-NUMBER"}), Recoverable("protocol", {"PROTOCOL"})}
      \/ s.properties = {Recoverable("method_id", {"METHOD-IDENTIFIER", "METHOD-ID"})}
  BY DEF Concepts, Concept, Length
<1>2. CASE s.properties = OfField
  <2>1. OfField = {Recoverable(a.id, {a.leaf}) : a \in Accessors} \cup {Recoverable(a.has, {a.flag}) : a \in Accessors}
    BY DEF OfField
  <2>2. \A x \in OfField : \E a \in Accessors : x = Recoverable(a.id, {a.leaf}) \/ x = Recoverable(a.has, {a.flag})
    BY <2>1
  <2>3. PICK a \in Accessors : p = Recoverable(a.id, {a.leaf}) \/ p = Recoverable(a.has, {a.flag})
    BY <1>2, <2>2
  <2>4. PICK b \in Accessors : q = Recoverable(b.id, {b.leaf}) \/ q = Recoverable(b.has, {b.flag})
    BY <1>2, <2>2
  <2>5. /\ (p.name = a.id /\ p = Recoverable(a.id, {a.leaf})) \/ (p.name = a.has /\ p = Recoverable(a.has, {a.flag}))
        /\ (q.name = b.id /\ q = Recoverable(b.id, {b.leaf})) \/ (q.name = b.has /\ q = Recoverable(b.has, {b.flag}))
    BY <2>3, <2>4 DEF Recoverable
  <2>6. a.id # b.has /\ a.has # b.id /\ (a.id = b.id => a = b) /\ (a.has = b.has => a = b)
    BY DEF Accessors, Accessor
  <2>7. QED
    BY <2>5, <2>6
<1>3. CASE s.properties # OfField
  <2>1. CASE s.properties \in {{}, {Recoverable("length", {"LENGTH"})}, {Recoverable("vlan_id", {"VLAN-IDENTIFIER"})}}
    BY <2>1
  <2>2. CASE s.properties = {Recoverable("can_id", {"IDENTIFIER"}), Recoverable("length", {"FRAME-LENGTH"})}
    <3> DEFINE x == Recoverable("can_id", {"IDENTIFIER"})
               y == Recoverable("length", {"FRAME-LENGTH"})
    <3>1. x.name # y.name
      BY DEF Recoverable
    <3> HIDE DEF x, y
    <3>2. QED
      BY <2>2, <3>1 DEF x, y
  <2>3. CASE s.properties = {Recoverable("port", {"PORT-NUMBER"}), Recoverable("protocol", {"PROTOCOL"})}
    <3> DEFINE x == Recoverable("port", {"PORT-NUMBER"})
               y == Recoverable("protocol", {"PROTOCOL"})
    <3>1. x.name # y.name
      BY DEF Recoverable
    <3> HIDE DEF x, y
    <3>2. QED
      BY <2>3, <3>1 DEF x, y
  <2>4. CASE s.properties = {Recoverable("method_id", {"METHOD-IDENTIFIER", "METHOD-ID"})}
    BY <2>4
  <2>5. QED
    BY <1>1, <1>3, <2>1, <2>2, <2>3, <2>4
<1>4. QED
  BY <1>2, <1>3

LEMMA RecoveredIs ==
  ASSUME NEW doc, NEW i, NEW s \in Concepts, NEW q \in s.properties, Values(doc, i, q.leaves) # {}
  PROVE  q.name \in DOMAIN Recovered(doc, i, s) /\ Recovered(doc, i, s)[q.name] = Values(doc, i, q.leaves)
<1> DEFINE named == {p.name : p \in {p \in s.properties : Values(doc, i, p.leaves) # {}}}
<1>1. Recovered(doc, i, s) = [name \in named |-> Values(doc, i, (CHOOSE p \in s.properties : p.name = name).leaves)]
  BY DEF Recovered
<1>2. q.name \in named
  OBVIOUS
<1>3. (CHOOSE p \in s.properties : p.name = q.name) = q
  BY RecoverablesApart
<1>4. QED
  BY <1>1, <1>2, <1>3

LEMMA LostIs ==
  ASSUME NEW s \in Concepts
  PROVE  s.lost = {} \/ s.lost # {}
OBVIOUS

\* The types a rule looks for belong to one concept each.
LEMMA OneConcept ==
  ASSUME NEW c \in Categories, NEW tag \in RuleOfCategory(c).tags,
         NEW s \in Concepts, NEW z \in Concepts, tag \in s.tags, tag \in z.tags
  PROVE  s = z
<1>1. CASE tag \in {"ECU-INSTANCE", "MACHINE-DESIGN", "MACHINE"}
  BY <1>1 DEF Concepts, Concept
<1>2. CASE tag \in {"CAN-FRAME-TRIGGERING", "CAN-FRAME"}
  BY <1>2 DEF Concepts, Concept
<1>3. CASE tag \in {"I-SIGNAL-I-PDU", "MULTIPLEXED-I-PDU", "CONTAINER-I-PDU", "N-PDU"}
  BY <1>3 DEF Concepts, Concept
<1>4. CASE tag \in {"VLAN", "ETHERNET-PHYSICAL-CHANNEL"}
  BY <1>4 DEF Concepts, Concept
<1>5. CASE tag \in {"CLIENT-SERVER-OPERATION", "FIELD", "SOCKET-ADDRESS"}
  <2>1. CASE tag = "CLIENT-SERVER-OPERATION"
    <3>1. \A y \in Concepts : tag \in y.tags => y.name = "someip_method"
      BY <2>1 DEF Concepts, Concept
    <3> DEFINE m == Concept("someip_method", "adaptive", {"CLIENT-SERVER-OPERATION"},
                            {Recoverable("method_id", {"METHOD-IDENTIFIER", "METHOD-ID"})}, {"name", "method_id"}, {}, {"METHODS"})
    <3>2. \A y \in Concepts : y.name = "someip_method" => y = m
      BY DEF Concepts, Concept
    <3> HIDE DEF m
    <3>3. QED
      BY <3>1, <3>2
  <2>2. CASE tag = "FIELD"
    BY <2>2 DEF Concepts, Concept
  <2>3. CASE tag = "SOCKET-ADDRESS"
    BY <2>3 DEF Concepts, Concept
  <2>4. QED
    BY <1>5, <2>1, <2>2, <2>3
<1>6. QED
  BY <1>1, <1>2, <1>3, <1>4, <1>5 DEF Categories, RuleOfCategory, RuleFor

\* What a concept needs is among what the rule of its elements demands.
LEMMA NeedsAreDemanded ==
  ASSUME NEW c \in Categories, NEW tag \in RuleOfCategory(c).tags, NEW s \in Concepts, tag \in s.tags
  PROVE  /\ \A r \in s.required \ {"name"} :
              \E q \in s.properties, p \in RuleOfCategory(c).properties : q.name = r /\ p.required /\ p.leaves = q.leaves
         /\ s.name = "someip_field" => \A a \in Accessors :
              \E q \in s.properties, p \in RuleOfCategory(c).properties : q.name = a.id /\ p.required /\ p.leaves = q.leaves
<1>1. CASE c = "ecu"
  <2>1. tag \in {"ECU-INSTANCE", "MACHINE-DESIGN", "MACHINE"}
    BY <1>1 DEF RuleOfCategory, RuleFor
  <2>2. s.required = {"name"} /\ s.name = "ecu"
    BY <2>1 DEF Concepts, Concept
  <2>3. QED
    BY <2>2
<1>2. CASE c = "can_frame"
  <2>1. /\ tag \in {"CAN-FRAME-TRIGGERING", "CAN-FRAME"}
        /\ RuleOfCategory(c).properties = {Property("can_id", {"IDENTIFIER"}, TRUE), Property("length", {"FRAME-LENGTH"}, TRUE)}
    BY <1>2 DEF RuleOfCategory, RuleFor
  <2>2. /\ s.required = {"name", "can_id", "length"} /\ s.name = "can_frame"
        /\ s.properties = {Recoverable("can_id", {"IDENTIFIER"}), Recoverable("length", {"FRAME-LENGTH"})}
    BY <2>1 DEF Concepts, Concept
  <2>3. QED
    BY <2>1, <2>2 DEF Recoverable, Property
<1>3. CASE c = "pdu"
  <2>1. /\ tag \in {"I-SIGNAL-I-PDU", "MULTIPLEXED-I-PDU", "CONTAINER-I-PDU", "N-PDU"}
        /\ Property("length", {"LENGTH"}, TRUE) \in RuleOfCategory(c).properties
    BY <1>3 DEF RuleOfCategory, RuleFor
  <2>2. s.required = {"name", "length"} /\ s.name # "someip_field" /\ s.properties = {Recoverable("length", {"LENGTH"})}
    BY <2>1 DEF Concepts, Concept, Length
  <2>3. QED
    BY <2>1, <2>2 DEF Recoverable, Property
<1>4. CASE c = "vlan"
  <2>1. /\ tag \in {"VLAN", "ETHERNET-PHYSICAL-CHANNEL"}
        /\ Property("id", {"VLAN-IDENTIFIER"}, TRUE) \in RuleOfCategory(c).properties
    BY <1>4 DEF RuleOfCategory, RuleFor
  <2>2. /\ s.name # "someip_field"
        /\ \/ s.required = {"name"}
           \/ s.required = {"name", "vlan_id"} /\ s.properties = {Recoverable("vlan_id", {"VLAN-IDENTIFIER"})}
    BY <2>1 DEF Concepts, Concept
  <2>3. CASE s.required = {"name"}
    BY <2>2, <2>3
  <2>4. CASE s.required = {"name", "vlan_id"} /\ s.properties = {Recoverable("vlan_id", {"VLAN-IDENTIFIER"})}
    <3> DEFINE q == Recoverable("vlan_id", {"VLAN-IDENTIFIER"})
               p == Property("id", {"VLAN-IDENTIFIER"}, TRUE)
    <3>1. q \in s.properties /\ p \in RuleOfCategory(c).properties /\ q.name = "vlan_id" /\ p.required /\ p.leaves = q.leaves
      BY <2>1, <2>4 DEF Recoverable, Property
    <3> HIDE DEF q, p
    <3>2. QED
      BY <2>2, <2>4, <3>1
  <2>5. QED
    BY <2>2, <2>3, <2>4
<1>5. CASE c = "someip_method"
  <2>1. /\ tag = "CLIENT-SERVER-OPERATION"
        /\ Property("id", {"METHOD-IDENTIFIER", "METHOD-ID"}, TRUE) \in RuleOfCategory(c).properties
    BY <1>5 DEF RuleOfCategory, RuleFor
  <2>2. /\ s.name = "someip_method" /\ s.required = {"name", "method_id"}
        /\ s.properties = {Recoverable("method_id", {"METHOD-IDENTIFIER", "METHOD-ID"})}
    BY <2>1 DEF Concepts, Concept
  <2>3. QED
    BY <2>1, <2>2 DEF Recoverable, Property
<1>6. CASE c = "someip_field"
  <2>1. /\ tag = "FIELD"
        /\ RuleOfCategory(c).properties = {Property("getter_id", {"GETTER-IDENTIFIER"}, TRUE),
                                           Property("setter_id", {"SETTER-IDENTIFIER"}, TRUE),
                                           Property("notifier_id", {"NOTIFIER-IDENTIFIER"}, TRUE)}
    BY <1>6 DEF RuleOfCategory, RuleFor
  <2>2. /\ s.required = {"name"}
        /\ s.properties = OfField
    BY <2>1 DEF Concepts, Concept
  <2>3. ASSUME NEW a \in Accessors
        PROVE  \E q \in s.properties, p \in RuleOfCategory(c).properties : q.name = a.id /\ p.required /\ p.leaves = q.leaves
    <3>1. PICK p \in RuleOfCategory(c).properties : p.required /\ p.leaves = {a.leaf}
      BY <2>1 DEF Accessors, Accessor, Property
    <3>2. Recoverable(a.id, {a.leaf}) \in s.properties
      BY <2>2 DEF OfField
    <3>3. QED
      BY <3>1, <3>2 DEF Recoverable
  <2>4. QED
    BY <2>2, <2>3
<1>7. CASE c = "socket"
  <2>1. /\ tag = "SOCKET-ADDRESS"
        /\ Property("port_no", {"PORT-NUMBER"}, TRUE) \in RuleOfCategory(c).properties
        /\ Property("protocol", {"PROTOCOL"}, TRUE) \in RuleOfCategory(c).properties
    BY <1>7 DEF RuleOfCategory, RuleFor
  <2>2. /\ s.name = "socket" /\ s.required = {"name", "port", "protocol"}
        /\ s.properties = {Recoverable("port", {"PORT-NUMBER"}), Recoverable("protocol", {"PROTOCOL"})}
    BY <2>1 DEF Concepts, Concept
  <2>3. QED
    BY <2>1, <2>2 DEF Recoverable, Property
<1>8. QED
  BY <1>1, <1>2, <1>3, <1>4, <1>5, <1>6, <1>7 DEF Categories

LEMMA OnlyMember ==
  ASSUME NEW S, IsFiniteSet(S), NEW x \in S, ~(Cardinality(S) > 1)
  PROVE  S = {x}
<1>1. IsFiniteSet({x}) /\ Cardinality({x}) = 1
  BY FS_Singleton
<1>2. SUFFICES ASSUME NEW y \in S, y # x PROVE FALSE
  OBVIOUS
<1>3. y \notin {x}
  BY <1>2
<1>4. IsFiniteSet({x} \cup {y}) /\ Cardinality({x} \cup {y}) = 2
  <2>1. IsFiniteSet({x} \cup {y}) /\ Cardinality({x} \cup {y}) = Cardinality({x}) + 1
    BY <1>1, <1>3, FS_AddElement
  <2>2. QED
    BY <1>1, <2>1
<1>5. {x} \cup {y} \subseteq S
  OBVIOUS
<1>6. 2 <= Cardinality(S) /\ Cardinality(S) \in Nat
  BY <1>4, <1>5, SubsetCounts
<1>7. QED
  BY <1>6

LEMMA ResolutionIs ==
  ASSUME NEW doc, ArxmlDoc(doc), NEW r, NEW i
  PROVE  /\ Resolve(doc, r, i).state \in {"resolved", "ambiguous", "missing"}
         /\ Resolve(doc, r, i).state = "resolved" =>
              \E t \in DOMAIN doc : /\ Resolve(doc, r, i).targets = {t}
                                   /\ (CHOOSE u \in Resolve(doc, r, i).targets : TRUE) = t
<1> DEFINE fitting == {j \in DOMAIN doc : doc[j].name # << >> /\ (r.dest = "any" \/ doc[j].tag = r.dest)}
           exact   == {j \in fitting : AutosarPath(doc, j) = r.path}
           byName  == {j \in fitting : doc[j].name = Last(r.path)}
           nearby  == {j \in byName : IsPrefix(PackagePath(doc, i), PackagePath(doc, j))}
           ts      == CASE exact # {}                                 -> exact
                        [] exact = {} /\ ~r.absolute /\ nearby # {}   -> nearby
                        [] OTHER                                      -> byName
           found   == Resolve(doc, r, i)
<1>1. found = Decide(ts)
  BY DEF Resolve
<1>2. ts \subseteq DOMAIN doc
  <2>1. exact \subseteq DOMAIN doc /\ byName \subseteq DOMAIN doc /\ nearby \subseteq DOMAIN doc
    OBVIOUS
  <2> HIDE DEF exact, byName, nearby
  <2>2. ts = exact \/ ts = nearby \/ ts = byName
    OBVIOUS
  <2>3. QED
    BY <2>1, <2>2
<1> HIDE DEF ts, found
<1>3. found.targets = ts /\ found.state = (CASE Cardinality(ts) = 1 -> "resolved"
                                             [] Cardinality(ts) > 1 -> "ambiguous"
                                             [] OTHER               -> "missing")
  BY <1>1 DEF Decide, Resolution
<1>4. IsFiniteSet(ts) /\ Cardinality(ts) \in Nat
  BY <1>2, TreeFinite, FS_Subset, FS_CardinalityType
<1>5. found.state \in {"resolved", "ambiguous", "missing"}
  BY <1>3
<1>6. ASSUME found.state = "resolved"
      PROVE  \E t \in DOMAIN doc : found.targets = {t} /\ (CHOOSE u \in found.targets : TRUE) = t
  <2>1. Cardinality(ts) = 1
    BY <1>3, <1>4, <1>6
  <2>2. ts # {}
    BY <2>1, FS_EmptySet
  <2>3. PICK t \in ts : TRUE
    BY <2>2
  <2>4. ts = {t}
    BY <1>4, <2>1, <2>3, OnlyMember
  <2>5. (CHOOSE u \in ts : TRUE) = t
    BY <2>4
  <2>6. QED
    BY <1>2, <1>3, <2>4, <2>5
<1>7. QED
  BY <1>5, <1>6 DEF found

\* The element a resolved reference leads to.
LEMMA TargetsFit ==
  ASSUME NEW doc, NEW r, NEW i, NEW t, t \in Resolve(doc, r, i).targets
  PROVE  t \in Named(doc) /\ (AutosarPath(doc, t) = r.path \/ doc[t].name = Last(r.path))
<1> DEFINE fitting == {j \in DOMAIN doc : doc[j].name # << >> /\ (r.dest = "any" \/ doc[j].tag = r.dest)}
           exact   == {j \in fitting : AutosarPath(doc, j) = r.path}
           byName  == {j \in fitting : doc[j].name = Last(r.path)}
           nearby  == {j \in byName : IsPrefix(PackagePath(doc, i), PackagePath(doc, j))}
           ts      == CASE exact # {}                                 -> exact
                        [] exact = {} /\ ~r.absolute /\ nearby # {}   -> nearby
                        [] OTHER                                      -> byName
<1>1. Resolve(doc, r, i) = Decide(ts)
  BY Zenon DEF Resolve
<1>2. t \in ts
  BY <1>1 DEF Decide, Resolution
<1>3. exact \subseteq fitting /\ byName \subseteq fitting /\ nearby \subseteq byName /\ fitting \subseteq Named(doc)
  BY DEF Named
<1>4. t \in exact \/ t \in byName
  <2> HIDE DEF exact, byName, nearby
  <2>1. QED
    BY <1>2, <1>3
<1>5. QED
  BY <1>3, <1>4

LEMMA SeveralFinite ==
  ASSUME NEW a, NEW b, NEW c, NEW d, NEW e, NEW f, NEW g, NEW h, NEW i, NEW j, NEW k
  PROVE  IsFiniteSet({a, b, c, d, e, f, g, h, i, j, k})
<1>1. IsFiniteSet({a, b}) /\ IsFiniteSet({c, d}) /\ IsFiniteSet({e, f}) /\ IsFiniteSet({g, h}) /\ IsFiniteSet({i, j})
  <2>1. \A x, y : IsFiniteSet({x}) /\ {x, y} = {x} \cup {y}
    BY FS_Singleton
  <2>2. ASSUME NEW x, NEW y PROVE IsFiniteSet({x, y})
    <3>1. IsFiniteSet({x}) /\ IsFiniteSet({y})
      BY <2>1
    <3>2. IsFiniteSet({x} \cup {y})
      BY <3>1, FS_Union
    <3>3. QED
      BY <2>1, <3>2
  <2>3. QED
    BY <2>2
<1>2. IsFiniteSet({a, b} \cup {c, d} \cup {e, f} \cup {g, h} \cup {i, j} \cup {k})
  BY <1>1, FS_Union, FS_Singleton
<1>3. {a, b, c, d, e, f, g, h, i, j, k} = {a, b} \cup {c, d} \cup {e, f} \cup {g, h} \cup {i, j} \cup {k}
  OBVIOUS
<1>4. QED
  BY <1>2, <1>3

LEMMA ConceptsFinite ==
  IsFiniteSet(Concepts)
BY SeveralFinite DEF Concepts

LEMMA ReverseStatuses ==
  ASSUME NEW doc, NEW c, ReverseStatus(doc, c) = "Projected"
  PROVE  \A r \in ReferencesOf(doc, c) : Resolve(doc, r, c).state = "resolved"
<1> DEFINE fitting == Fitting(doc, c)
           partial == \/ \E s \in fitting : Missing(doc, c, s) # {}
                      \/ \E r \in ReferencesOf(doc, c) : Resolve(doc, r, c).state # "resolved"
<1>1. ReverseStatus(doc, c) =
        CASE fitting = {}                              -> "Unsupported"
          [] Cardinality(fitting) > 1                  -> "Ambiguous"
          [] Cardinality(fitting) = 1 /\ partial       -> "Partial"
          [] OTHER                                     -> "Projected"
  BY Zenon DEF ReverseStatus
<1>2. IsFiniteSet(fitting)
  <2>1. IsFiniteSet(Concepts)
    BY ConceptsFinite
  <2>2. QED
    BY <2>1, FS_Subset DEF Fitting
<1>3. Cardinality(fitting) \in Nat /\ (Cardinality(fitting) = 0 <=> fitting = {})
  BY <1>2, FS_CardinalityType, FS_EmptySet
<1> HIDE DEF fitting, partial
<1>4. fitting # {} /\ ~(Cardinality(fitting) > 1) /\ ~(Cardinality(fitting) = 1 /\ partial)
  BY <1>1
<1>5. ~partial
  BY <1>3, <1>4
<1>6. QED
  BY <1>5 DEF partial

LEMMA ProjectedResolves ==
  ASSUME NEW doc, ArxmlDoc(doc), NEW c, ReverseStatus(doc, c) = "Projected", NEW r \in ReferencesOf(doc, c)
  PROVE  \E t \in Named(doc) : /\ Resolve(doc, r, c).targets = {t}
                               /\ AutosarPath(doc, t) = r.path \/ doc[t].name = Last(r.path)
<1>1. PICK t \in DOMAIN doc : Resolve(doc, r, c).targets = {t}
  BY ReverseStatuses, ResolutionIs
<1>2. QED
  BY <1>1, TargetsFit

LEMMA ElementsComeBack ==
  ASSUME NEW doc, ArxmlDoc(doc), NEW e, Mappable(e)
  PROVE  ComesBack(doc, e)
<1> DEFINE rule == RuleOfCategory(e.category)
<1>1. SUFFICES ASSUME Row(doc, e).status = "Mapped", {p \in rule.properties : p.required} \subseteq Given(e),
                      NEW c \in Row(doc, e).elements, doc[c].name # << >>
               PROVE  /\ \A s \in Fitting(doc, c) : \A p \in Given(e) : \A q \in s.properties :
                           p.required /\ p.leaves = q.leaves =>
                             q.name \in DOMAIN Recovered(doc, c, s) /\ SomeSame(e.properties[p.key], Recovered(doc, c, s)[q.name])
                      /\ Fitting(doc, c) # {} /\ (\A r \in ReferencesOf(doc, c) : Resolve(doc, r, c).state = "resolved")
                           => ReverseStatus(doc, c) = IF \E s \in Fitting(doc, c) : s.lost # {} THEN "Partial" ELSE "Projected"
  BY ProjectedResolves DEF ComesBack
<1>2. c \in Available(doc, e) /\ {p \in Given(e) : p.required} \subseteq Agreeing(doc, e, c)
  <2>1. PICK d \in Available(doc, e) :
          Row(doc, e).elements = {d} /\ {p \in Given(e) : p.required} \subseteq Agreeing(doc, e, d)
    BY <1>1, MappedOne
  <2>2. QED
    BY <2>1
<1>3. ASSUME NEW p \in Given(e), p.required
      PROVE  SomeSame(e.properties[p.key], Values(doc, c, p.leaves)) /\ Values(doc, c, p.leaves) # {}
  <2>1. SomeSame(e.properties[p.key], Values(doc, c, p.leaves))
    BY <1>2, <1>3 DEF Agreeing
  <2>2. QED
    BY <2>1 DEF SomeSame
<1>4. e.category \in Categories /\ doc[c].tag \in rule.tags
  BY <1>2 DEF Mappable, Available, WithTags
<1>5. \A s \in Fitting(doc, c) : s \in Concepts /\ doc[c].tag \in s.tags
  BY DEF Fitting
<1>6. ASSUME NEW s \in Fitting(doc, c), NEW p \in Given(e), NEW q \in s.properties, p.required, p.leaves = q.leaves
      PROVE  q.name \in DOMAIN Recovered(doc, c, s) /\ SomeSame(e.properties[p.key], Recovered(doc, c, s)[q.name])
  BY <1>3, <1>5, <1>6, RecoveredIs
<1>7. ASSUME NEW s \in Fitting(doc, c) PROVE Missing(doc, c, s) = s.lost
  <2>1. ASSUME NEW name, NEW q \in s.properties, NEW p \in rule.properties, q.name = name, p.required, p.leaves = q.leaves
        PROVE  name \in DOMAIN Recovered(doc, c, s)
    <3>1. p \in Given(e)
      BY <1>1, <2>1
    <3>2. QED
      BY <1>6, <2>1, <3>1
  <2>2. \A r \in s.required : r # "name" => r \in DOMAIN Recovered(doc, c, s)
    <3>1. TAKE r \in s.required
    <3>2. SUFFICES ASSUME r # "name" PROVE r \in DOMAIN Recovered(doc, c, s)
      OBVIOUS
    <3>3. r \in s.required \ {"name"}
      BY <3>2
    <3>4. PICK q \in s.properties, p \in rule.properties : q.name = r /\ p.required /\ p.leaves = q.leaves
      BY <1>4, <1>5, <3>3, NeedsAreDemanded
    <3>5. QED
      BY <2>1, <3>4
  <2>3. s.name = "someip_field" => \A a \in Accessors : a.id \in DOMAIN Recovered(doc, c, s)
    <3>1. SUFFICES ASSUME s.name = "someip_field", NEW a \in Accessors PROVE a.id \in DOMAIN Recovered(doc, c, s)
      OBVIOUS
    <3>2. PICK q \in s.properties, p \in rule.properties : q.name = a.id /\ p.required /\ p.leaves = q.leaves
      BY <1>4, <1>5, <3>1, NeedsAreDemanded
    <3>3. QED
      BY <2>1, <3>2
  <2>4. {r \in s.required : r # "name" /\ r \notin DOMAIN Recovered(doc, c, s)} = {}
    BY <2>2
  <2>5. {a \in Accessors : s.name = "someip_field" /\ Flagged(Recovered(doc, c, s), a.has) /\ a.id \notin DOMAIN Recovered(doc, c, s)} = {}
    BY <2>3
  <2>6. QED
    BY <2>4, <2>5 DEF Missing
<1>8. ASSUME Fitting(doc, c) # {}, \A r \in ReferencesOf(doc, c) : Resolve(doc, r, c).state = "resolved"
      PROVE  ReverseStatus(doc, c) = IF \E s \in Fitting(doc, c) : s.lost # {} THEN "Partial" ELSE "Projected"
  <2> DEFINE fitting == Fitting(doc, c)
  <2>1. PICK s \in fitting : fitting = {s}
    <3>1. PICK s \in fitting : TRUE
      BY <1>8
    <3>2. \A z \in fitting : z = s
      BY <1>4, <1>5, <3>1, OneConcept
    <3>3. QED
      BY <3>1, <3>2
  <2>2. Cardinality(fitting) = 1
    BY <2>1, FS_Singleton
  <2>3. ~\E r \in ReferencesOf(doc, c) : Resolve(doc, r, c).state # "resolved"
    BY <1>8
  <2>4. (\E z \in fitting : Missing(doc, c, z) # {}) <=> \E z \in fitting : z.lost # {}
    BY <1>7
  <2>5. fitting # {} /\ ~(Cardinality(fitting) > 1)
    BY <2>1, <2>2
  <2> HIDE DEF fitting
  <2>6. ReverseStatus(doc, c) =
          CASE fitting = {}             -> "Unsupported"
            [] Cardinality(fitting) > 1 -> "Ambiguous"
            [] /\ Cardinality(fitting) = 1
               /\ \/ \E z \in fitting : Missing(doc, c, z) # {}
                  \/ \E r \in ReferencesOf(doc, c) : Resolve(doc, r, c).state # "resolved" -> "Partial"
            [] OTHER                    -> "Projected"
    BY DEF ReverseStatus, fitting
  <2>7. CASE \E z \in fitting : z.lost # {}
    <3>1. ReverseStatus(doc, c) = "Partial"
      BY <2>2, <2>4, <2>5, <2>6, <2>7
    <3>2. QED
      BY <2>7, <3>1 DEF fitting
  <2>8. CASE ~\E z \in fitting : z.lost # {}
    <3>1. ReverseStatus(doc, c) = "Projected"
      BY <2>2, <2>3, <2>4, <2>5, <2>6, <2>8
    <3>2. QED
      BY <2>8, <3>1 DEF fitting
  <2>9. QED
    BY <2>7, <2>8
<1>9. QED
  BY <1>6, <1>8

-----------------------------------------------------------------------------
(* The documents of RuleDocuments.                                         *)

\* For any forwarders and frames: detect_forwarder_cycles finds a cycle exactly
\* when some forwarders each have another one of them ahead in its index; and in
\* an accepted network whose frames and forwarders have names and keys of their
\* own, and in which no forwarder hears what is sent on another socket,
\* nothing that is forwarded comes back.  So it is in the networks that are
\* written here.
THEOREM CyclesAreFound ==
  /\ \A fs, gs, n : n.fwds \in Seq(fs) /\ n.frames \in Seq(gs) =>
       (CycleFound(n) <=> Looping(n)) /\ ForwardingEndsIfApart(n)
  /\ RuleSpec => []CyclesFound
<1>1. \A fs, gs, n : n.fwds \in Seq(fs) /\ n.frames \in Seq(gs) =>
        (CycleFound(n) <=> Looping(n)) /\ ForwardingEndsIfApart(n)
  BY SearchExact, ForwardingStops
<1>2. RuleInv => CyclesFound
  <2>1. SUFFICES ASSUME RuleInv, kind = "forwarding", items # << >> PROVE ForwardingEndsIfApart(ForwardingDoc)
    BY DEF CyclesFound
  <2>2. Doc(ForwarderHeads, DOMAIN ForwarderItems)
    BY <2>1 DEF RuleInv
  <2>3. Written \in Seq(DOMAIN ForwarderItems)
    BY <2>1, <2>2, DocIsSeq
  <2> DEFINE fs == {ForwarderItems[i].item : i \in DOMAIN ForwarderItems}
             gs == {FrameOf("x", "b1", 1), items[1]}
  <2>4. \A i \in DOMAIN ForwarderItems : ForwarderItems[i].tag = "fwd" => ForwarderItems[i].item \in fs
    OBVIOUS
  <2> HIDE DEF fs
  <2>5. ForwardingDoc.fwds \in Seq(fs)
    BY <2>3, <2>4, ChosenSeqIn DEF ForwardingDoc
  <2>6. ForwardingDoc.frames \in Seq(gs)
    <3>1. <<FrameOf("x", "b1", 1), items[1]>> \in Seq(gs)
      OBVIOUS
    <3>2. QED
      BY <3>1 DEF ForwardingDoc
  <2> HIDE DEF gs
  <2>7. QED
    BY <2>5, <2>6, ForwardingStops
<1>3. QED
  BY <1>1, <1>2, InvHolds, PTL

\* The nodes that are written are below nodes that are written.
LEMMA TreeIsDoc ==
  ASSUME Written \in Seq(DOMAIN MappingNodes)
  PROVE  ArxmlDoc(TreeOf(Base, MappingNodes))
<1> DEFINE doc     == TreeOf(Base, MappingNodes)
           all     == Base \o MappingNodes
           written == DOMAIN Base \cup {Len(Base) + n : n \in ToSet(Written)}
<1>1. Len(Base) = 5 /\ DOMAIN Base = 1..5 /\ DOMAIN MappingNodes = 1..14 /\ Len(MappingNodes) = 14
  BY DEF Base, MappingNodes
<1>2. DOMAIN doc = {i \in written : all[i].parent \in written \cup {0}} /\ \A i \in DOMAIN doc : doc[i] = all[i]
  BY DEF TreeOf
<1>3. doc = [n \in DOMAIN doc |-> doc[n]]
  BY DEF TreeOf
<1>4. \A n \in ToSet(Written) : n \in 1..14
  BY <1>1, MemberOfSeq
<1>5. \A i \in 1..5 : Base[i].parent \in 0..4 /\ Base[i].parent < i
  BY DEF Base, Package, Arx
<1>6. \A i \in 1..14 : MappingNodes[i].parent \in 1..6 /\ (i = 1 => MappingNodes[i].parent = 1)
  BY DEF MappingNodes, Arx
<1>7. \A i \in 1..5 : all[i] = Base[i]
  BY <1>1 DEF Base, MappingNodes
<1>8. \A i \in 1..14 : all[5 + i] = MappingNodes[i]
  BY <1>1 DEF Base, MappingNodes
<1> HIDE DEF doc, all
<1>9. written \subseteq 1..19 /\ 1..5 \subseteq written
  BY <1>1, <1>4
<1>10. \A i \in written : i \in 1..5 \/ (i - 5 \in 1..14 /\ i = 5 + (i - 5))
  BY <1>1, <1>4
<1> HIDE DEF written
<1>11. ASSUME NEW i \in DOMAIN doc
       PROVE  doc[i].parent = 0 \/ (doc[i].parent \in DOMAIN doc /\ doc[i].parent < i)
  <2>1. i \in written /\ doc[i] = all[i] /\ all[i].parent \in written \cup {0}
    BY <1>2
  <2>2. \A j \in 1..5 : j \in DOMAIN doc
    <3>1. TAKE j \in 1..5
    <3>2. all[j].parent \in 0..4
      BY <1>5, <1>7
    <3>3. all[j].parent \in written \cup {0} /\ j \in written
      BY <1>9, <3>2
    <3>4. QED
      BY <1>2, <3>3
  <2>3. CASE i \in 1..5
    <3>1. all[i].parent \in 0..4 /\ all[i].parent < i
      BY <1>5, <1>7, <2>3
    <3>2. QED
      BY <2>1, <2>2, <3>1
  <2>4. CASE i - 5 \in 1..14 /\ i = 5 + (i - 5)
    <3>1. all[i] = MappingNodes[i - 5]
      BY <1>8, <2>4
    <3>2. all[i].parent \in 1..6 /\ (i - 5 = 1 => all[i].parent = 1)
      BY <1>6, <2>4, <3>1
    <3>3. CASE all[i].parent \in 1..5
      <4>1. all[i].parent < i
        BY <2>4, <3>3
      <4>2. QED
        BY <2>1, <2>2, <3>3, <4>1
    <3>4. CASE all[i].parent = 6
      <4>1. 6 \in written /\ i - 5 # 1
        BY <2>1, <3>2, <3>4
      <4>2. all[6] = MappingNodes[1]
        <5>1. 1 \in 1..14 /\ 5 + 1 = 6
          OBVIOUS
        <5>2. QED
          BY <1>8, <5>1
      <4>3. all[6].parent = 1
        BY <1>6, <4>2
      <4>4. 6 \in DOMAIN doc
        BY <1>2, <1>9, <4>1, <4>3
      <4>5. 6 < i
        BY <2>4, <4>1
      <4>6. QED
        BY <2>1, <3>4, <4>4, <4>5
    <3>5. QED
      BY <3>2, <3>3, <3>4
  <2>5. QED
    BY <1>10, <2>1, <2>3, <2>4
<1>12. \E m \in Nat : DOMAIN doc \subseteq 1..m
  <2>1. DOMAIN doc \subseteq 1..19
    BY <1>2, <1>9
  <2>2. QED
    BY <2>1
<1>13. QED
  BY <1>3, <1>11, <1>12 DEF ArxmlDoc, doc

LEMMA HeadsAreMappable ==
  ASSUME NEW e \in MappingHeads
  PROVE  Mappable(e)
<1>1. e.category \in Categories
  BY DEF MappingHeads, FlyncElement, Categories
<1>2. e.context = [network |-> <<"net">>] \/ e.context = << >>
  BY DEF MappingHeads, FlyncElement
<1>3. DOMAIN e.context = {"network"} \/ DOMAIN e.context = {}
  BY <1>2
<1>4. IsFiniteSet(DOMAIN e.context)
  BY <1>3, FS_Singleton, FS_EmptySet
<1>5. QED
  BY <1>1, <1>4 DEF Mappable

LEMMA MappingWritten ==
  ASSUME RuleInv, kind = "mapping", items # << >>
  PROVE  ArxmlDoc(TreeOf(Base, MappingNodes)) /\ Mappable(items[1])
<1>1. Doc(MappingHeads, DOMAIN MappingNodes)
  BY DEF RuleInv
<1>2. items[1] \in MappingHeads /\ Written \in Seq(DOMAIN MappingNodes)
  BY <1>1, DocIsSeq
<1>3. QED
  BY <1>2, TreeIsDoc, HeadsAreMappable

\* For ARXML documents of any size and elements of any category: what the
\* forward mapping calls mapped is one element with all the values that are
\* demanded, no reference of it could mean two, and nothing else fits as well;
\* and a row does not change with an element that has nothing to do with it.
THEOREM RowsAlwaysHold ==
  /\ \A doc, e : ArxmlDoc(doc) /\ Mappable(e) => MappedTruly(doc, e)
  /\ RuleSpec => []RowsHold
<1>1. \A doc, e : ArxmlDoc(doc) /\ Mappable(e) => MappedTruly(doc, e)
  BY RowsAreTrue
<1>2. RuleInv => RowsHold
  BY MappingWritten, RowsAreTrue DEF RowsHold
<1>3. QED
  BY <1>1, <1>2, InvHolds, PTL

\* In the same documents: the reverse mapping projects what was mapped, to one
\* concept, with the values that were compared, and calls it partial only for
\* references that lead nowhere and what the concept always loses; and of what
\* it calls projected, mapped or not, every reference leads to one element.
THEOREM RowsAlwaysComeBack ==
  /\ \A doc, e : ArxmlDoc(doc) /\ Mappable(e) => ComesBack(doc, e)
  /\ RuleSpec => []RowsComeBack
<1>1. \A doc, e : ArxmlDoc(doc) /\ Mappable(e) => ComesBack(doc, e)
  BY ElementsComeBack
<1>2. RuleInv => RowsComeBack
  BY MappingWritten, ElementsComeBack DEF RowsComeBack
<1>3. QED
  BY <1>1, <1>2, InvHolds, PTL

-----------------------------------------------------------------------------
(* Numbers and their bits (Binary).                                        *)

LEMMA Pow2Unfolds ==
  /\ Pow2 \in [Nat -> Nat]
  /\ Pow2[0] = 1
  /\ \A n \in Nat : Pow2[n + 1] = 2 * Pow2[n] /\ Pow2[n] >= 1
<1> DEFINE st == [p \in Nat \X Nat |-> 2 * p[2]]
<1>1. st \in [Nat \X Nat -> Nat]
  OBVIOUS
<1>2. \A k, x \in Nat : st[<<k, x>>] = 2 * x
  OBVIOUS
<1> HIDE DEF st
<1>3. PICK g : Unfolding(g, Nat, 1, st)
  BY <1>1, RecursionOnNat
<1>4. \A k \in Nat \ {0} : g[k] = 2 * g[k - 1]
  <2>1. TAKE k \in Nat \ {0}
  <2>2. k - 1 \in Nat
    OBVIOUS
  <2>3. g[k - 1] \in Nat
    BY <1>3, <2>2 DEF Unfolding
  <2>4. QED
    BY <1>2, <1>3, <2>3 DEF Unfolding
<1>5. g = [n \in Nat |-> IF n = 0 THEN 1 ELSE 2 * g[n - 1]]
  <2>1. \A n \in Nat : g[n] = IF n = 0 THEN 1 ELSE 2 * g[n - 1]
    BY <1>3, <1>4 DEF Unfolding
  <2>2. QED
    BY <1>3, <2>1 DEF Unfolding
<1>6. Pow2 = [n \in Nat |-> IF n = 0 THEN 1 ELSE 2 * Pow2[n - 1]]
  BY <1>5 DEF Pow2
<1>7. Pow2[0] = 1 /\ \A k \in Nat \ {0} : Pow2[k] = 2 * Pow2[k - 1]
  BY <1>6
<1>8. \A n \in Nat : Pow2[n + 1] = 2 * Pow2[n]
  <2>1. TAKE n \in Nat
  <2>2. n + 1 \in Nat \ {0} /\ (n + 1) - 1 = n
    OBVIOUS
  <2>3. QED
    BY <1>7, <2>2
<1>9. ASSUME NEW n \in Nat PROVE Pow2[n] \in Nat /\ Pow2[n] >= 1
  <2> DEFINE Good == {k \in 0..n : Pow2[k] \in Nat /\ Pow2[k] >= 1}
  <2>1. 0 \in Good
    BY <1>7
  <2>2. ASSUME NEW k \in 1..n, k - 1 \in Good PROVE k \in Good
    <3>1. Pow2[k] = 2 * Pow2[k - 1] /\ Pow2[k - 1] \in Nat /\ Pow2[k - 1] >= 1
      BY <1>7, <2>2
    <3>2. QED
      BY <3>1
  <2> HIDE DEF Good
  <2>3. 0..n \subseteq Good
    BY <2>1, <2>2, UpTo
  <2>4. QED
    BY <2>3 DEF Good
<1>10. Pow2 \in [Nat -> Nat]
  BY <1>6, <1>9
<1>11. QED
  BY <1>7, <1>8, <1>9, <1>10

Bit(n) == IF n % 2 = 1 THEN 1 ELSE 0

LEMMA HalvedUnfolds ==
  ASSUME NEW v \in Nat
  PROVE  /\ Halved(v) \in [Nat -> Nat]
         /\ Halved(v)[0] = v
         /\ \A n \in Nat : Halved(v)[n] = 2 * Halved(v)[n + 1] + Bit(Halved(v)[n])
<1> DEFINE st == [p \in Nat \X Nat |-> p[2] \div 2]
<1>1. st \in [Nat \X Nat -> Nat]
  <2>1. \A x \in Nat : x \div 2 \in Nat
    OBVIOUS
  <2>2. QED
    BY <2>1
<1>2. \A k, x \in Nat : st[<<k, x>>] = x \div 2
  OBVIOUS
<1> HIDE DEF st
<1>3. PICK g : Unfolding(g, Nat, v, st)
  BY <1>1, RecursionOnNat
<1>4. \A k \in Nat \ {0} : g[k] = g[k - 1] \div 2
  <2>1. TAKE k \in Nat \ {0}
  <2>2. k \in Nat /\ k - 1 \in Nat
    OBVIOUS
  <2>3. g[k - 1] \in Nat
    BY <1>3, <2>2 DEF Unfolding
  <2>4. g[k] = st[<<k, g[k - 1]>>]
    BY <1>3 DEF Unfolding
  <2>5. QED
    BY <1>2, <2>2, <2>3, <2>4
<1>5. g = [n \in Nat |-> IF n = 0 THEN v ELSE g[n - 1] \div 2]
  <2>1. \A n \in Nat : g[n] = IF n = 0 THEN v ELSE g[n - 1] \div 2
    BY <1>3, <1>4 DEF Unfolding
  <2>2. QED
    BY <1>3, <2>1 DEF Unfolding
<1> DEFINE half == CHOOSE f : f = [n \in Nat |-> IF n = 0 THEN v ELSE f[n - 1] \div 2]
<1>6. half = [n \in Nat |-> IF n = 0 THEN v ELSE half[n - 1] \div 2]
  BY <1>5
<1>7. Halved(v) = half
  BY DEF Halved
<1> HIDE DEF half
<1>8. half[0] = v /\ \A k \in Nat \ {0} : half[k] = half[k - 1] \div 2
  BY <1>6
<1>9. ASSUME NEW n \in Nat PROVE half[n] \in Nat
  <2> DEFINE Good == {k \in 0..n : half[k] \in Nat}
  <2>1. 0 \in Good
    BY <1>8
  <2>2. ASSUME NEW k \in 1..n, k - 1 \in Good PROVE k \in Good
    <3>1. half[k] = half[k - 1] \div 2 /\ half[k - 1] \in Nat
      BY <1>8, <2>2
    <3>2. QED
      BY <3>1
  <2> HIDE DEF Good
  <2>3. 0..n \subseteq Good
    BY <2>1, <2>2, UpTo
  <2>4. QED
    BY <2>3 DEF Good
<1>10. half \in [Nat -> Nat]
  BY <1>6, <1>9
<1>11. ASSUME NEW n \in Nat PROVE half[n] = 2 * half[n + 1] + Bit(half[n])
  <2>1. n + 1 \in Nat \ {0} /\ (n + 1) - 1 = n
    OBVIOUS
  <2>2. half[n + 1] = half[n] \div 2 /\ half[n] \in Nat
    BY <1>8, <1>9, <2>1
  <2>3. QED
    BY <2>2 DEF Bit
<1>12. QED
  BY <1>7, <1>8, <1>10, <1>11

LEMMA WorthUnfolds ==
  ASSUME NEW bits
  PROVE  /\ Worth(bits) \in [Nat -> Nat]
         /\ Worth(bits)[0] = 0
         /\ \A n \in Nat : Worth(bits)[n + 1] = Worth(bits)[n] + (IF n \in bits THEN Pow2[n] ELSE 0)
<1> DEFINE more(k) == IF k - 1 \in bits THEN Pow2[k - 1] ELSE 0
           st == [p \in Nat \X Nat |-> IF p[1] = 0 THEN 0 ELSE p[2] + more(p[1])]
<1>0. \A k \in Nat \ {0} : k - 1 \in Nat /\ more(k) \in Nat
  <2>1. TAKE k \in Nat \ {0}
  <2>2. k - 1 \in Nat
    OBVIOUS
  <2>3. QED
    BY <2>2, Pow2Unfolds
<1> HIDE DEF more
<1>1. st \in [Nat \X Nat -> Nat]
  <2>1. \A k, x \in Nat : (IF k = 0 THEN 0 ELSE x + more(k)) \in Nat
    BY <1>0
  <2>2. QED
    BY <2>1
<1>2. \A k, x \in Nat : k # 0 => st[<<k, x>>] = x + more(k)
  OBVIOUS
<1> HIDE DEF st
<1>3. PICK g : Unfolding(g, Nat, 0, st)
  BY <1>1, RecursionOnNat
<1>4. \A k \in Nat \ {0} : g[k] = g[k - 1] + more(k)
  <2>1. TAKE k \in Nat \ {0}
  <2>2. k \in Nat /\ k # 0 /\ k - 1 \in Nat
    OBVIOUS
  <2>3. g[k - 1] \in Nat
    BY <1>3, <2>2 DEF Unfolding
  <2>4. g[k] = st[<<k, g[k - 1]>>]
    BY <1>3 DEF Unfolding
  <2>5. QED
    BY <1>2, <2>2, <2>3, <2>4
<1>5. g = [n \in Nat |-> IF n = 0 THEN 0 ELSE g[n - 1] + more(n)]
  <2>1. \A n \in Nat : g[n] = IF n = 0 THEN 0 ELSE g[n - 1] + more(n)
    BY <1>3, <1>4 DEF Unfolding
  <2>2. QED
    BY <1>3, <2>1 DEF Unfolding
<1> DEFINE sum == CHOOSE f : f = [n \in Nat |-> IF n = 0 THEN 0 ELSE f[n - 1] + more(n)]
<1>6. sum = [n \in Nat |-> IF n = 0 THEN 0 ELSE sum[n - 1] + more(n)]
  BY <1>5
<1>7. Worth(bits) = sum
  BY DEF Worth, more
<1> HIDE DEF sum
<1>8. sum[0] = 0 /\ \A k \in Nat \ {0} : sum[k] = sum[k - 1] + more(k)
  BY <1>6
<1>9. ASSUME NEW n \in Nat PROVE sum[n] \in Nat
  <2> DEFINE Good == {k \in 0..n : sum[k] \in Nat}
  <2>1. 0 \in Good
    BY <1>8
  <2>2. ASSUME NEW k \in 1..n, k - 1 \in Good PROVE k \in Good
    <3>1. sum[k] = sum[k - 1] + more(k) /\ sum[k - 1] \in Nat /\ more(k) \in Nat
      BY <1>0, <1>8, <2>2
    <3>2. QED
      BY <3>1
  <2> HIDE DEF Good
  <2>3. 0..n \subseteq Good
    BY <2>1, <2>2, UpTo
  <2>4. QED
    BY <2>3 DEF Good
<1>10. sum \in [Nat -> Nat]
  BY <1>6, <1>9
<1>11. ASSUME NEW n \in Nat PROVE sum[n + 1] = sum[n] + (IF n \in bits THEN Pow2[n] ELSE 0)
  <2>1. n + 1 \in Nat \ {0} /\ (n + 1) - 1 = n
    OBVIOUS
  <2>2. sum[n + 1] = sum[n] + more(n + 1)
    BY <1>8, <2>1
  <2>3. more(n + 1) = (IF n \in bits THEN Pow2[n] ELSE 0)
    BY <2>1 DEF more
  <2>4. QED
    BY <2>2, <2>3
<1>12. QED
  BY <1>7, <1>8, <1>10, <1>11

LEMMA Pow2Grows ==
  ASSUME NEW m \in Nat, NEW n \in Nat, m <= n
  PROVE  Pow2[m] <= Pow2[n] /\ Pow2[m] \in Nat /\ Pow2[n] \in Nat /\ Pow2[m] >= 1
<1> DEFINE Good == {k \in 0..n : m <= k => Pow2[m] <= Pow2[k]}
<1>0. Pow2[m] \in Nat /\ Pow2[n] \in Nat /\ Pow2[m] >= 1
  BY Pow2Unfolds
<1>1. 0 \in Good
  <2>1. m <= 0 => m = 0
    OBVIOUS
  <2>2. QED
    BY <1>0, <2>1
<1>2. ASSUME NEW k \in 1..n, k - 1 \in Good PROVE k \in Good
  <2>1. k - 1 \in Nat /\ (k - 1) + 1 = k
    OBVIOUS
  <2>2. Pow2[k] = 2 * Pow2[k - 1] /\ Pow2[k - 1] \in Nat
    BY <2>1, Pow2Unfolds
  <2>3. CASE m = k
    BY <2>2, <2>3
  <2>4. CASE m <= k - 1
    BY <1>0, <1>2, <2>2, <2>4
  <2>5. CASE m > k
    BY <2>5
  <2>6. QED
    BY <2>3, <2>4, <2>5
<1> HIDE DEF Good
<1>3. n \in Good
  BY <1>1, <1>2, UpTo
<1>4. QED
  BY <1>0, <1>3 DEF Good

LEMMA BelowPow2 ==
  ASSUME NEW n \in Nat
  PROVE  n < Pow2[n]
<1> DEFINE Good == {k \in 0..n : k < Pow2[k]}
<1>1. 0 \in Good
  BY Pow2Unfolds
<1>2. ASSUME NEW k \in 1..n, k - 1 \in Good PROVE k \in Good
  <2>1. k - 1 \in Nat /\ (k - 1) + 1 = k
    OBVIOUS
  <2>2. Pow2[k] = 2 * Pow2[k - 1] /\ Pow2[k - 1] \in Nat /\ Pow2[k - 1] >= 1
    BY <2>1, Pow2Unfolds
  <2>3. k - 1 < Pow2[k - 1]
    BY <1>2
  <2>4. QED
    BY <2>2, <2>3
<1> HIDE DEF Good
<1>3. n \in Good
  BY <1>1, <1>2, UpTo
<1>4. QED
  BY <1>3 DEF Good

\* What the bits below n are worth is less than the next power.
LEMMA WorthBound ==
  ASSUME NEW bits, NEW n \in Nat
  PROVE  Worth(bits)[n] \in Nat /\ Worth(bits)[n] < Pow2[n]
<1> DEFINE Good == {k \in 0..n : Worth(bits)[k] < Pow2[k]}
<1>0. Worth(bits)[n] \in Nat
  BY WorthUnfolds
<1>1. 0 \in Good
  BY Pow2Unfolds, WorthUnfolds
<1>2. ASSUME NEW k \in 1..n, k - 1 \in Good PROVE k \in Good
  <2>1. k - 1 \in Nat /\ (k - 1) + 1 = k
    OBVIOUS
  <2>2. Pow2[k] = 2 * Pow2[k - 1] /\ Pow2[k - 1] \in Nat
    BY <2>1, Pow2Unfolds
  <2>3. Worth(bits)[k] = Worth(bits)[k - 1] + (IF k - 1 \in bits THEN Pow2[k - 1] ELSE 0) /\ Worth(bits)[k - 1] \in Nat
    BY <2>1, WorthUnfolds
  <2>4. Worth(bits)[k - 1] < Pow2[k - 1]
    BY <1>2
  <2>5. QED
    BY <2>2, <2>3, <2>4
<1> HIDE DEF Good
<1>3. n \in Good
  BY <1>1, <1>2, UpTo
<1>4. QED
  BY <1>0, <1>3 DEF Good

\* Bits from n on do not count for what is below n, and there is nothing else.
LEMMA WorthStays ==
  ASSUME NEW bits, NEW m \in Nat, NEW n \in Nat, m <= n, \A b \in bits : b \notin m..n
  PROVE  Worth(bits)[n] = Worth(bits)[m]
<1> DEFINE Good == {k \in 0..n : m <= k => Worth(bits)[k] = Worth(bits)[m]}
<1>1. 0 \in Good
  <2>1. m <= 0 => m = 0
    OBVIOUS
  <2>2. QED
    BY <2>1
<1>2. ASSUME NEW k \in 1..n, k - 1 \in Good PROVE k \in Good
  <2>1. k - 1 \in Nat /\ (k - 1) + 1 = k
    OBVIOUS
  <2>2. Worth(bits)[k] = Worth(bits)[k - 1] + (IF k - 1 \in bits THEN Pow2[k - 1] ELSE 0) /\ Worth(bits)[k - 1] \in Nat
    BY <2>1, WorthUnfolds
  <2>3. CASE m <= k - 1
    <3>1. k - 1 \notin bits
      BY <2>3
    <3>2. Worth(bits)[k - 1] = Worth(bits)[m]
      BY <1>2, <2>3
    <3>3. QED
      BY <2>2, <3>1, <3>2
  <2>4. CASE m = k
    BY <2>4
  <2>5. CASE m > k
    BY <2>5
  <2>6. QED
    BY <2>3, <2>4, <2>5
<1> HIDE DEF Good
<1>3. n \in Good
  BY <1>1, <1>2, UpTo
<1>4. QED
  BY <1>3 DEF Good

\* Bits that are worth the same are the same.
LEMMA WorthTells ==
  ASSUME NEW b, NEW c, NEW n \in Nat, Worth(b)[n] = Worth(c)[n]
  PROVE  \A k \in 0..(n - 1) : k \in b <=> k \in c
<1> DEFINE Good == {k \in 0..n : Worth(b)[k] = Worth(c)[k] => \A i \in 0..(k - 1) : i \in b <=> i \in c}
<1>1. 0 \in Good
  OBVIOUS
<1>2. ASSUME NEW k \in 1..n, k - 1 \in Good PROVE k \in Good
  <2>1. k - 1 \in Nat /\ (k - 1) + 1 = k
    OBVIOUS
  <2>2. /\ Worth(b)[k] = Worth(b)[k - 1] + (IF k - 1 \in b THEN Pow2[k - 1] ELSE 0)
        /\ Worth(c)[k] = Worth(c)[k - 1] + (IF k - 1 \in c THEN Pow2[k - 1] ELSE 0)
    BY <2>1, WorthUnfolds
  <2>3. /\ Worth(b)[k - 1] \in Nat /\ Worth(b)[k - 1] < Pow2[k - 1]
        /\ Worth(c)[k - 1] \in Nat /\ Worth(c)[k - 1] < Pow2[k - 1] /\ Pow2[k - 1] \in Nat
    BY <2>1, WorthBound, Pow2Unfolds
  <2>4. SUFFICES ASSUME Worth(b)[k] = Worth(c)[k] PROVE \A i \in 0..(k - 1) : i \in b <=> i \in c
    OBVIOUS
  <2>5. (k - 1 \in b <=> k - 1 \in c) /\ Worth(b)[k - 1] = Worth(c)[k - 1]
    BY <2>2, <2>3, <2>4
  <2>6. \A i \in 0..((k - 1) - 1) : i \in b <=> i \in c
    BY <1>2, <2>5
  <2>7. \A i \in 0..(k - 1) : i = k - 1 \/ i \in 0..((k - 1) - 1)
    OBVIOUS
  <2>8. QED
    BY <2>5, <2>6, <2>7
<1> HIDE DEF Good
<1>3. n \in Good
  BY <1>1, <1>2, UpTo
<1>4. QED
  BY <1>3 DEF Good

AllBits(v) == {n \in Nat : Halved(v)[n] % 2 = 1}

LEMMA NumberSplits ==
  ASSUME NEW v \in Nat, NEW n \in Nat
  PROVE  v = Pow2[n] * Halved(v)[n] + Worth(AllBits(v))[n]
<1> DEFINE h == Halved(v)
           w == Worth(AllBits(v))
           Good == {k \in 0..n : v = Pow2[k] * h[k] + w[k]}
<1>1. 0 \in Good
  <2>1. h[0] = v /\ w[0] = 0 /\ Pow2[0] = 1
    BY HalvedUnfolds, WorthUnfolds, Pow2Unfolds
  <2> HIDE DEF h, w
  <2>2. QED
    BY <2>1
<1>2. ASSUME NEW k \in 1..n, k - 1 \in Good PROVE k \in Good
  <2>1. k - 1 \in Nat /\ (k - 1) + 1 = k
    OBVIOUS
  <2>2. Pow2[k] = 2 * Pow2[k - 1] /\ Pow2[k - 1] \in Nat
    BY <2>1, Pow2Unfolds
  <2>3. h[k - 1] = 2 * h[k] + Bit(h[k - 1]) /\ h[k] \in Nat /\ h[k - 1] \in Nat
    BY <2>1, HalvedUnfolds
  <2>4. w[k] = w[k - 1] + (IF h[k - 1] % 2 = 1 THEN Pow2[k - 1] ELSE 0) /\ w[k - 1] \in Nat
    <3> DEFINE B == AllBits(v)
    <3>1. k - 1 \in B <=> h[k - 1] % 2 = 1
      BY <2>1 DEF AllBits
    <3> HIDE DEF B
    <3>2. Worth(B)[k] = Worth(B)[k - 1] + (IF k - 1 \in B THEN Pow2[k - 1] ELSE 0) /\ Worth(B)[k - 1] \in Nat
      BY <2>1, WorthUnfolds
    <3>3. w = Worth(B)
      BY DEF B
    <3> HIDE DEF h, w
    <3>4. QED
      BY <3>1, <3>2, <3>3
  <2> HIDE DEF h, w
  <2>5. v = Pow2[k - 1] * h[k - 1] + w[k - 1]
    BY <1>2
  <2>6. CASE h[k - 1] % 2 = 1
    <3>1. h[k - 1] = 2 * h[k] + 1 /\ w[k] = w[k - 1] + Pow2[k - 1]
      BY <2>3, <2>4, <2>6 DEF Bit
    <3> DEFINE x == h[k]
               p == Pow2[k - 1]
    <3>2. x \in Nat /\ p \in Nat /\ Pow2[k] = 2 * p /\ w[k - 1] \in Nat /\ v = p * (2 * x + 1) + w[k - 1] /\ w[k] = w[k - 1] + p
      BY <2>2, <2>3, <2>4, <2>5, <3>1
    <3> HIDE DEF x, p
    <3>3. p * (2 * x + 1) = (2 * p) * x + p
      BY <3>2
    <3>4. v = Pow2[k] * x + w[k]
      BY <3>2, <3>3
    <3>5. QED
      BY <3>4 DEF x
  <2>7. CASE h[k - 1] % 2 # 1
    <3>1. h[k - 1] = 2 * h[k] + 0 /\ w[k] = w[k - 1] + 0
      BY <2>3, <2>4, <2>7 DEF Bit
    <3> DEFINE x == h[k]
               p == Pow2[k - 1]
    <3>2. x \in Nat /\ p \in Nat /\ Pow2[k] = 2 * p /\ w[k - 1] \in Nat /\ v = p * (2 * x) + w[k - 1] /\ w[k] = w[k - 1]
      BY <2>2, <2>3, <2>4, <2>5, <3>1
    <3> HIDE DEF x, p
    <3>3. p * (2 * x) = (2 * p) * x
      BY <3>2
    <3>4. v = Pow2[k] * x + w[k]
      BY <3>2, <3>3
    <3>5. QED
      BY <3>4 DEF x
  <2>8. QED
    BY <2>6, <2>7
<1> HIDE DEF Good
<1>3. n \in Good
  BY <1>1, <1>2, UpTo
<1>4. QED
  BY <1>3 DEF Good

\* A number below a power of two has no other bits than those below.
LEMMA NoBitsAbove ==
  ASSUME NEW v \in Nat, NEW w \in Nat, v < Pow2[w], NEW n \in Nat, w <= n
  PROVE  Halved(v)[n] = 0
<1>1. v = Pow2[n] * Halved(v)[n] + Worth(AllBits(v))[n]
  BY NumberSplits
<1>2. Halved(v)[n] \in Nat /\ Worth(AllBits(v))[n] \in Nat
  <2>1. Halved(v)[n] \in Nat
    BY HalvedUnfolds
  <2>2. Worth(AllBits(v))[n] \in Nat
    BY WorthBound
  <2>3. QED
    BY <2>1, <2>2
<1>3. Pow2[w] <= Pow2[n] /\ Pow2[w] \in Nat /\ Pow2[n] \in Nat
  BY Pow2Grows
<1> DEFINE h == Halved(v)[n]
           p == Pow2[n]
<1>4. h \in Nat /\ p \in Nat /\ v < p /\ v >= p * h
  <2> DEFINE r == Worth(AllBits(v))[n]
  <2>1. v = p * h + r /\ r \in Nat /\ h \in Nat /\ p \in Nat
    BY <1>1, <1>2, <1>3
  <2>2. v < p
    BY <1>3
  <2> HIDE DEF h, p, r
  <2>3. p * h \in Nat
    BY <2>1
  <2>4. QED
    BY <2>1, <2>2, <2>3
<1> HIDE DEF h, p
<1>5. h >= 1 => p * h >= p
  BY <1>4
<1>6. p * h \in Nat
  BY <1>4
<1>7. h = 0
  BY <1>4, <1>5, <1>6
<1>8. QED
  BY <1>7 DEF h

LEMMA BitsAreAll ==
  ASSUME NEW v \in Nat
  PROVE  BitsOf(v) = AllBits(v) /\ \A w \in Nat : v < Pow2[w] => BitsOf(v) \subseteq 0..(w - 1)
<1>1. ASSUME NEW w \in Nat, v < Pow2[w], NEW n \in AllBits(v) PROVE n \in 0..(w - 1)
  <2>1. n \in Nat /\ Halved(v)[n] # 0
    BY DEF AllBits
  <2>2. ~(w <= n)
    BY <1>1, <2>1, NoBitsAbove
  <2>3. QED
    BY <2>1, <2>2
<1>2. \A n \in AllBits(v) : n \in 0..v
  <2>1. v < Pow2[v]
    BY BelowPow2
  <2>2. \A n \in AllBits(v) : n \in 0..(v - 1)
    BY <1>1, <2>1
  <2>3. QED
    BY <2>2
<1>3. BitsOf(v) = AllBits(v)
  BY <1>2 DEF BitsOf, AllBits
<1>4. QED
  BY <1>1, <1>3

LEMMA ValueIsWorth ==
  ASSUME NEW bits, NEW w \in Nat, bits \subseteq 0..(w - 1)
  PROVE  ValueOf(bits) = Worth(bits)[w]
<1>1. CASE bits = {}
  <2>1. \A b \in bits : b \notin 0..w
    BY <1>1
  <2>2. Worth(bits)[w] = Worth(bits)[0] /\ Worth(bits)[0] = 0
    BY <2>1, WorthStays, WorthUnfolds
  <2>3. QED
    BY <1>1, <2>2 DEF ValueOf
<1>2. CASE bits # {}
  <2> DEFINE ups == {b + 1 : b \in bits}
  <2>1. ups \subseteq 1..w /\ ups # {}
    <3>1. \A b \in bits : b + 1 \in 1..w
      OBVIOUS
    <3>2. QED
      BY <1>2, <3>1
  <2>2. PICK u \in ups : \A q \in ups : q <= u
    <3> HIDE DEF ups
    <3>1. QED
      BY <2>1, GreatestUpTo
  <2>3. PICK p \in bits : u = p + 1
    BY <2>2
  <2>4. \A q \in bits : q <= p
    <3>1. TAKE q \in bits
    <3>2. q + 1 \in ups /\ q \in Int /\ p \in Int
      OBVIOUS
    <3> HIDE DEF ups
    <3>3. QED
      BY <2>2, <2>3, <3>2
  <2>5. Max(bits) = p
    <3>1. bits \subseteq Int
      OBVIOUS
    <3>2. QED
      BY <2>4, <3>1, MaxIs
  <2>6. p + 1 \in Nat /\ p + 1 <= w /\ \A b \in bits : b \notin (p + 1)..w
    BY <2>4
  <2>7. Worth(bits)[w] = Worth(bits)[p + 1]
    BY <2>6, WorthStays
  <2>8. QED
    BY <1>2, <2>5, <2>7 DEF ValueOf
<1>3. QED
  BY <1>1, <1>2

\* A number is the value of its bits, and those are below w for a number that
\* can be written with w bits.
LEMMA ValueOfBits ==
  ASSUME NEW v \in Nat, NEW w \in Nat, v < Pow2[w]
  PROVE  BitsOf(v) \subseteq 0..(w - 1) /\ ValueOf(BitsOf(v)) = v /\ Worth(BitsOf(v))[w] = v
<1>1. BitsOf(v) \subseteq 0..(w - 1) /\ BitsOf(v) = AllBits(v)
  BY BitsAreAll
<1>2. ValueOf(BitsOf(v)) = Worth(BitsOf(v))[w]
  BY <1>1, ValueIsWorth
<1>3. v = Pow2[w] * Halved(v)[w] + Worth(AllBits(v))[w]
  BY NumberSplits
<1>4. Halved(v)[w] = 0
  BY NoBitsAbove
<1>5. Pow2[w] \in Nat /\ Worth(AllBits(v))[w] \in Nat
  BY Pow2Unfolds, WorthBound
<1>6. v = Worth(AllBits(v))[w]
  BY <1>3, <1>4, <1>5
<1>7. QED
  BY <1>1, <1>2, <1>6

\* Bits are those of their value.
LEMMA BitsOfValue ==
  ASSUME NEW bits, NEW w \in Nat, bits \subseteq 0..(w - 1)
  PROVE  ValueOf(bits) \in Nat /\ ValueOf(bits) < Pow2[w] /\ BitsOf(ValueOf(bits)) = bits
<1> DEFINE v == ValueOf(bits)
<1>1. v = Worth(bits)[w]
  BY ValueIsWorth
<1>2. v \in Nat /\ v < Pow2[w]
  BY <1>1, WorthBound
<1> HIDE DEF v
<1>3. BitsOf(v) \subseteq 0..(w - 1) /\ Worth(BitsOf(v))[w] = v
  BY <1>2, ValueOfBits
<1>4. \A k \in 0..(w - 1) : k \in BitsOf(v) <=> k \in bits
  BY <1>1, <1>3, WorthTells
<1>5. BitsOf(v) = bits
  BY <1>3, <1>4
<1>6. QED
  BY <1>2, <1>5 DEF v

LEMMA FiniteHasMax ==
  ASSUME NEW S, S \subseteq Nat, IsFiniteSet(S)
  PROVE  \E m \in Nat : S \subseteq 0..(m - 1)
<1>1. PICK n \in Nat : ExistsSurjection(1..n, S)
  BY FS_NatSurjection
<1>2. PICK f \in Surjection(1..n, S) : TRUE
  BY <1>1 DEF ExistsSurjection
<1>3. f \in [1..n -> S] /\ \A x \in S : \E k \in 1..n : f[k] = x
  BY <1>2 DEF Surjection
<1> DEFINE Good == {k \in 0..n : \E m \in Nat : \A i \in 1..k : f[i] < m}
<1>4. 0 \in Good
  OBVIOUS
<1>5. ASSUME NEW k \in 1..n, k - 1 \in Good PROVE k \in Good
  <2>1. PICK m \in Nat : \A i \in 1..(k - 1) : f[i] < m
    BY <1>5
  <2>2. f[k] \in Nat
    BY <1>3
  <2>3. m + f[k] + 1 \in Nat /\ \A i \in 1..k : f[i] < m + f[k] + 1
    <3>1. \A i \in 1..k : i = k \/ i \in 1..(k - 1)
      OBVIOUS
    <3>2. \A i \in 1..k : f[i] \in Nat
      <4>1. \A i \in 1..k : i \in 1..n
        OBVIOUS
      <4>2. QED
        BY <1>3, <4>1
    <3>3. QED
      BY <2>1, <2>2, <3>1, <3>2
  <2>4. \E b \in Nat : \A i \in 1..k : f[i] < b
    BY <2>3, Zenon
  <2>5. k \in 0..n
    OBVIOUS
  <2>6. QED
    BY <2>4, <2>5
<1> HIDE DEF Good
<1>6. n \in Good
  BY <1>4, <1>5, UpTo
<1>7. PICK m \in Nat : \A i \in 1..n : f[i] < m
  BY <1>6 DEF Good
<1>8. ASSUME NEW x \in S PROVE x \in 0..(m - 1)
  <2>1. PICK k \in 1..n : f[k] = x
    BY <1>3
  <2>2. x \in Nat /\ x < m
    BY <1>7, <2>1
  <2>3. QED
    BY <2>2
<1>9. QED
  BY <1>8

LEMMA WorthGrows ==
  ASSUME NEW bits, NEW m \in Nat, NEW n \in Nat, m <= n
  PROVE  Worth(bits)[m] <= Worth(bits)[n]
<1> DEFINE Good == {k \in 0..n : m <= k => Worth(bits)[m] <= Worth(bits)[k]}
<1>1. 0 \in Good
  <2>1. m <= 0 => m = 0
    OBVIOUS
  <2>2. Worth(bits)[m] \in Nat
    BY WorthUnfolds
  <2>3. QED
    BY <2>1, <2>2
<1>2. ASSUME NEW k \in 1..n, k - 1 \in Good PROVE k \in Good
  <2>1. k - 1 \in Nat /\ (k - 1) + 1 = k
    OBVIOUS
  <2>2. Worth(bits)[k] = Worth(bits)[k - 1] + (IF k - 1 \in bits THEN Pow2[k - 1] ELSE 0)
    BY <2>1, WorthUnfolds
  <2>3. Worth(bits)[m] \in Nat /\ Worth(bits)[k] \in Nat /\ Worth(bits)[k - 1] \in Nat /\ Pow2[k - 1] \in Nat
    BY <2>1, WorthUnfolds, Pow2Unfolds
  <2>4. CASE m <= k - 1
    BY <1>2, <2>2, <2>3, <2>4
  <2>5. CASE m = k
    BY <2>3, <2>5
  <2>6. CASE m > k
    BY <2>6
  <2>7. QED
    BY <2>4, <2>5, <2>6
<1> HIDE DEF Good
<1>3. n \in Good
  BY <1>1, <1>2, UpTo
<1>4. QED
  BY <1>3 DEF Good

\* A mask that fits a signal has no bits but those of the signal.
LEMMA MaskFits ==
  ASSUME NEW bits, bits \subseteq Nat, IsFiniteSet(bits), NEW w \in Nat, ValueOf(bits) <= Pow2[w] - 1
  PROVE  bits \subseteq 0..(w - 1)
<1>1. \E m \in Nat : bits \subseteq 0..(m - 1)
  BY FiniteHasMax
<1>2. PICK m \in Nat : bits \subseteq 0..(m - 1)
  BY <1>1
<1>3. ValueOf(bits) = Worth(bits)[m]
  BY <1>2, ValueIsWorth
<1>4. ASSUME NEW b \in bits PROVE b <= w - 1
  <2>1. b \in Nat /\ b + 1 \in Nat /\ b + 1 <= m
    BY <1>2
  <2>2. Worth(bits)[b + 1] = Worth(bits)[b] + Pow2[b] /\ Worth(bits)[b] \in Nat
    BY <2>1, WorthUnfolds
  <2>3. Worth(bits)[m] >= Worth(bits)[b + 1]
    BY <2>1, WorthGrows
  <2>4. Pow2[b] \in Nat /\ Pow2[w] \in Nat
    BY <2>1, Pow2Unfolds
  <2>5. w <= b => Pow2[w] <= Pow2[b]
    BY <2>1, Pow2Grows
  <2>6. Worth(bits)[m] \in Nat /\ Worth(bits)[b + 1] \in Nat
    BY <2>1, WorthUnfolds
  <2>7. QED
    BY <1>3, <2>1, <2>2, <2>3, <2>4, <2>5, <2>6
<1>5. QED
  BY <1>4

\* The highest bit.
LEMMA TopBit ==
  ASSUME NEW v \in Nat, NEW w \in Nat, w >= 1, v < Pow2[w]
  PROVE  w - 1 \in BitsOf(v) <=> v >= Pow2[w - 1]
<1>1. w - 1 \in Nat /\ (w - 1) + 1 = w
  OBVIOUS
<1>2. Worth(BitsOf(v))[w] = v
  BY ValueOfBits
<1>3. Worth(BitsOf(v))[w] = Worth(BitsOf(v))[w - 1] + (IF w - 1 \in BitsOf(v) THEN Pow2[w - 1] ELSE 0)
  BY <1>1, WorthUnfolds
<1>4. Worth(BitsOf(v))[w - 1] \in Nat /\ Worth(BitsOf(v))[w - 1] < Pow2[w - 1]
  BY <1>1, WorthBound
<1>5. Pow2[w - 1] \in Nat
  BY <1>1, Pow2Unfolds
<1>6. QED
  BY <1>2, <1>3, <1>4, <1>5

-----------------------------------------------------------------------------
(* Signals and enumerations (Encodings, SomeIp).                           *)

\* Entries and states: labels with a range of numbers.
Typed(entries, S) == \A k \in DOMAIN entries : entries[k].from \in S /\ entries[k].to \in S

LEMMA OneActive ==
  ASSUME NEW entries, DOMAIN entries \subseteq Nat, Typed(entries, Int), RangesApart(entries), NEW v \in Int
  PROVE  Cardinality(Active(entries, v)) <= 1
<1>1. ASSUME NEW i \in Active(entries, v), NEW j \in Active(entries, v), i < j PROVE FALSE
  <2>1. i \in DOMAIN entries /\ j \in DOMAIN entries /\ v \in entries[i].from..entries[i].to /\ v \in entries[j].from..entries[j].to
    BY DEF Active
  <2>2. entries[i].from > entries[j].to \/ entries[j].from > entries[i].to
    BY <1>1, <2>1 DEF RangesApart
  <2>3. QED
    BY <2>1, <2>2 DEF Typed
<1>2. \A i, j \in Active(entries, v) : i \in Nat /\ j \in Nat
  BY DEF Active
<1>3. \A i, j \in Active(entries, v) : i = j
  BY <1>1, <1>2
<1>4. QED
  BY <1>3, AtMostOne

LEMMA PatternRead ==
  ASSUME NEW s, s.bits \in Nat \ {0}, s.type \in Unsigned \cup Signed, NEW v \in Raw(s)
  PROVE  Pattern(s, v) \subseteq 0..(s.bits - 1) /\ ReadBack(s, Pattern(s, v)) = v
<1> DEFINE w == s.bits
           M == Pow2[w]
           H == Pow2[w - 1]
<1>1. w \in Nat /\ w >= 1 /\ w - 1 \in Nat /\ (w - 1) + 1 = w
  OBVIOUS
<1>2. M = 2 * H /\ H \in Nat /\ M \in Nat /\ H >= 1
  BY <1>1, Pow2Unfolds
<1>3. CASE s.type \in Unsigned
  <2>1. v \in Nat /\ v < M /\ s.type \notin Signed
    BY <1>2, <1>3 DEF Raw, Lowest, Highest, Unsigned, Signed
  <2>2. BitsOf(v) \subseteq 0..(w - 1) /\ ValueOf(BitsOf(v)) = v
    BY <1>1, <2>1, ValueOfBits
  <2>3. Pattern(s, v) = BitsOf(v)
    BY <2>1 DEF Pattern
  <2>4. ReadBack(s, BitsOf(v)) = v
    BY <2>1, <2>2 DEF ReadBack
  <2>5. QED
    BY <2>2, <2>3, <2>4
<1>4. CASE s.type \in Signed
  <2>1. v \in Int /\ -H <= v /\ v <= H - 1
    <3>1. s.type \notin Unsigned
      BY <1>4 DEF Unsigned, Signed
    <3>2. v \in (-H)..(H - 1)
      BY <3>1 DEF Raw, Lowest, Highest
    <3>3. QED
      BY <1>2, <3>2
  <2> DEFINE u == IF v >= 0 THEN v ELSE v + M
  <2>2. u \in Nat /\ u < M /\ (u >= H <=> v < 0)
    BY <1>2, <2>1
  <2>3. Pattern(s, v) = BitsOf(u)
    BY DEF Pattern
  <2> HIDE DEF u
  <2>4. BitsOf(u) \subseteq 0..(w - 1) /\ ValueOf(BitsOf(u)) = u
    BY <1>1, <2>2, ValueOfBits
  <2>5. w - 1 \in BitsOf(u) <=> u >= H
    BY <1>1, <2>2, TopBit
  <2>6. ReadBack(s, BitsOf(u)) = IF v < 0 THEN u - M ELSE u
    BY <1>4, <2>2, <2>4, <2>5 DEF ReadBack
  <2>7. (IF v < 0 THEN u - M ELSE u) = v
    BY <1>2, <2>1 DEF u
  <2>8. QED
    BY <2>3, <2>4, <2>6, <2>7
<1>5. QED
  BY <1>3, <1>4

\* Groups of bits that are read as states.
GroupList(groups) ==
  /\ DOMAIN groups \subseteq Nat
  /\ \A k \in DOMAIN groups : /\ groups[k].mask \subseteq Nat /\ IsFiniteSet(groups[k].mask)
                              /\ DOMAIN groups[k].states \subseteq Nat /\ Typed(groups[k].states, Nat)

LEMMA GroupsRead ==
  ASSUME NEW groups, GroupList(groups), BitfieldsAccepted(groups), NEW w \in Nat,
         \A g \in ToSet(groups) : ValueOf(g.mask) <= Pow2[w] - 1,
         NEW v \in 0..(Pow2[w] - 1), NEW g \in ToSet(groups)
  PROVE  Cardinality(Active(g.states, At(g, v))) <= 1
<1>1. PICK k \in DOMAIN groups : g = groups[k]
  BY DEF ToSet
<1>2. BitfieldGroupAccepted(g)
  BY DEF BitfieldsAccepted
<1>3. g.mask \subseteq 0..(w - 1)
  BY <1>1, MaskFits DEF GroupList
<1>4. At(g, v) \in Nat
  <2>1. BitsOf(v) \cap g.mask \subseteq 0..(w - 1)
    BY <1>3
  <2>2. QED
    BY <2>1, BitsOfValue DEF At
<1>5. DOMAIN g.states \subseteq Nat /\ Typed(g.states, Int)
  BY <1>1 DEF GroupList, Typed
<1>6. RangesApart(g.states)
  BY <1>2 DEF BitfieldGroupAccepted
<1>7. QED
  BY <1>4, <1>5, <1>6, OneActive

LEMMA StatesTogether ==
  ASSUME NEW groups, GroupList(groups), BitfieldsAccepted(groups), NEW w \in Nat,
         \A g \in ToSet(groups) : ValueOf(g.mask) <= Pow2[w] - 1,
         NEW pick, \A k \in DOMAIN groups : pick[k] \in DOMAIN groups[k].states
  PROVE  \E v \in 0..(Pow2[w] - 1) : \A k \in DOMAIN groups : pick[k] \in Active(groups[k].states, At(groups[k], v))
<1> DEFINE from(k) == groups[k].states[pick[k]].from
           upto(k) == groups[k].states[pick[k]].to
           U == UNION {BitsOf(from(k)) : k \in DOMAIN groups}
           v == ValueOf(U)
<1>1. ASSUME NEW k \in DOMAIN groups
      PROVE  from(k) \in Nat /\ upto(k) \in Nat /\ from(k) <= upto(k) /\ BitsOf(from(k)) \subseteq groups[k].mask
  <2>1. groups[k] \in ToSet(groups)
    BY DEF ToSet
  <2>2. BitfieldGroupAccepted(groups[k])
    BY <2>1 DEF BitfieldsAccepted
  <2>3. groups[k].states[pick[k]] \in ToSet(groups[k].states)
    BY DEF ToSet
  <2>4. from(k) \in Nat /\ upto(k) \in Nat
    BY DEF GroupList, Typed
  <2>5. QED
    BY <2>2, <2>3, <2>4 DEF BitfieldGroupAccepted, Bounded
<1>2. ASSUME NEW k \in DOMAIN groups PROVE groups[k].mask \subseteq 0..(w - 1)
  <2>1. groups[k] \in ToSet(groups)
    BY DEF ToSet
  <2>2. QED
    BY <2>1, MaskFits DEF GroupList
<1>3. U \subseteq 0..(w - 1)
  <2> HIDE DEF from
  <2>1. \A k \in DOMAIN groups : BitsOf(from(k)) \subseteq 0..(w - 1)
    BY <1>1, <1>2
  <2>2. QED
    BY <2>1
<1>4. v \in Nat /\ v < Pow2[w] /\ BitsOf(v) = U
  <2> HIDE DEF U
  <2>1. QED
    BY <1>3, BitsOfValue
<1>5. ASSUME NEW k \in DOMAIN groups PROVE pick[k] \in Active(groups[k].states, At(groups[k], v))
  <2>1. U \cap groups[k].mask = BitsOf(from(k))
    <3>1. ASSUME NEW m \in DOMAIN groups, m # k PROVE groups[m].mask \cap groups[k].mask = {}
      <4>1. m < k \/ k < m
        BY <3>1 DEF GroupList
      <4>2. MasksApart(groups)
        BY DEF BitfieldsAccepted
      <4>3. QED
        BY <4>1, <4>2 DEF MasksApart
    <3> HIDE DEF from
    <3>2. \A m \in DOMAIN groups : m # k => BitsOf(from(m)) \cap groups[k].mask = {}
      BY <1>1, <3>1
    <3>3. BitsOf(from(k)) \subseteq groups[k].mask
      BY <1>1
    <3>4. QED
      BY <3>2, <3>3
  <2>2. ValueOf(BitsOf(from(k))) = from(k)
    <3> HIDE DEF from
    <3>1. from(k) \in Nat
      BY <1>1
    <3>2. from(k) < Pow2[from(k)]
      BY <3>1, BelowPow2
    <3>3. QED
      BY <3>1, <3>2, ValueOfBits
  <2>3. At(groups[k], v) = from(k)
    <3> HIDE DEF U, v, from
    <3>1. QED
      BY <1>4, <2>1, <2>2 DEF At
  <2>4. from(k) \in from(k)..upto(k)
    <3> HIDE DEF from, upto
    <3>1. QED
      BY <1>1
  <2>5. QED
    BY <2>3, <2>4 DEF Active
<1>6. v \in 0..(Pow2[w] - 1)
  <2> HIDE DEF v
  <2>1. Pow2[w] \in Nat
    BY Pow2Unfolds
  <2>2. QED
    BY <1>4, <2>1
<1> HIDE DEF v
<1>7. QED
  BY <1>5, <1>6

\* What the loader makes of any signal.
SignalShape(s) ==
  /\ s.bits \in Nat \ {0} /\ s.initial \subseteq Int
  /\ s.encoding.type \in {"none", "text_table", "bitfield_text_table", "bitmask_flags"}
  /\ s.encoding.type = "text_table" => DOMAIN s.encoding.items \subseteq Nat /\ Typed(s.encoding.items, Int)
  /\ s.encoding.type = "bitfield_text_table" => GroupList(s.encoding.items)

LEMMA EncodingsAreRead ==
  ASSUME NEW s, SignalShape(s)
  PROVE  EncodingsRead(s)
<1>1. SUFFICES ASSUME SignalAccepted(s)
               PROVE  /\ s.type \in Unsigned \cup Signed => \A v \in s.initial \cup Raw(s) :
                             Pattern(s, v) \subseteq 0..(s.bits - 1) /\ ReadBack(s, Pattern(s, v)) = v
                      /\ s.encoding.type = "text_table" =>
                           \A v \in Raw(s) : Cardinality(Active(s.encoding.items, v)) <= 1
                      /\ s.encoding.type = "bitfield_text_table" =>
                           /\ \A v \in 0..(Pow2[s.bits] - 1) : \A g \in ToSet(s.encoding.items) :
                                Cardinality(Active(g.states, At(g, v))) <= 1
                           /\ \A pick \in [DOMAIN s.encoding.items -> UNION {DOMAIN g.states : g \in ToSet(s.encoding.items)}] :
                                (\A k \in DOMAIN s.encoding.items : pick[k] \in DOMAIN s.encoding.items[k].states) =>
                                  \E v \in 0..(Pow2[s.bits] - 1) : \A k \in DOMAIN s.encoding.items :
                                    pick[k] \in Active(s.encoding.items[k].states, At(s.encoding.items[k], v))
  BY DEF EncodingsRead
<1>2. s.bits \in Nat /\ s.bits \in Nat \ {0}
  BY DEF SignalShape
<1>3. ASSUME s.type \in Unsigned \cup Signed, NEW v \in s.initial \cup Raw(s)
      PROVE  Pattern(s, v) \subseteq 0..(s.bits - 1) /\ ReadBack(s, Pattern(s, v)) = v
  <2>1. v \in Raw(s)
    BY <1>1, <1>3 DEF SignalAccepted
  <2>2. QED
    BY <1>2, <1>3, <2>1, PatternRead
<1>4. ASSUME s.encoding.type = "text_table", NEW v \in Raw(s)
      PROVE  Cardinality(Active(s.encoding.items, v)) <= 1
  <2>1. TextTableAccepted(s.encoding.items)
    BY <1>1, <1>4 DEF SignalAccepted, EncodingAccepted
  <2>2. v \in Int
    BY DEF Raw
  <2>3. QED
    BY <1>4, <2>1, <2>2, OneActive DEF SignalShape, TextTableAccepted
<1>5. ASSUME s.encoding.type = "bitfield_text_table"
      PROVE  /\ GroupList(s.encoding.items) /\ BitfieldsAccepted(s.encoding.items)
             /\ \A g \in ToSet(s.encoding.items) : ValueOf(g.mask) <= Pow2[s.bits] - 1
  <2>1. BitfieldsAccepted(s.encoding.items)
    BY <1>1, <1>5 DEF SignalAccepted, EncodingAccepted
  <2>2. \A g \in ToSet(s.encoding.items) : ValueOf(g.mask) <= Pow2[s.bits] - 1
    BY <1>1, <1>5 DEF SignalAccepted, EncodingFits
  <2>3. QED
    BY <1>5, <2>1, <2>2 DEF SignalShape
<1>6. QED
  BY <1>2, <1>3, <1>4, <1>5, GroupsRead, StatesTogether

\* Enumerations.
LEMMA ModIs ==
  ASSUME NEW v \in Int, NEW m \in Nat, m > 0
  PROVE  /\ 0 <= v /\ v < m => v % m = v
         /\ -m <= v /\ v < 0 => v % m = v + m
OBVIOUS

LEMMA EnumsAreRead ==
  ASSUME NEW t, t.bits \in Nat \ {0}, NEW values
  PROVE  EnumsReadBack(t, values)
<1> DEFINE M == Pow2[t.bits]
           H == Pow2[t.bits - 1]
<1>1. t.bits \in Nat /\ t.bits - 1 \in Nat /\ (t.bits - 1) + 1 = t.bits
  OBVIOUS
<1>2. M = 2 * H /\ H \in Nat /\ M \in Nat /\ H >= 1 /\ M > 0
  BY <1>1, Pow2Unfolds
<1>3. SUFFICES ASSUME EnumAccepted(t, values) PROVE IsInjective([k \in DOMAIN values |-> Sent(t, values[k])])
  BY DEF EnumsReadBack
<1>4. ASSUME NEW k \in DOMAIN values PROVE values[k] \in BaseRange(t)
  BY <1>3 DEF EnumAccepted, ToSet
<1>5. ASSUME NEW x \in BaseRange(t), NEW y \in BaseRange(t), Sent(t, x) = Sent(t, y) PROVE x = y
  <2>1. CASE t.signed
    <3>1. x \in Int /\ y \in Int /\ -H <= x /\ x < H /\ -H <= y /\ y < H
      BY <1>2, <2>1 DEF BaseRange
    <3>2. Sent(t, x) = (IF x >= 0 THEN x ELSE x + M) /\ Sent(t, y) = (IF y >= 0 THEN y ELSE y + M)
      BY <1>2, <3>1, ModIs DEF Sent
    <3>3. (IF x >= 0 THEN x ELSE x + M) = (IF y >= 0 THEN y ELSE y + M)
      BY <1>5, <3>2
    <3> HIDE DEF M, H
    <3>4. QED
      BY <1>2, <3>1, <3>3
  <2>2. CASE ~t.signed
    <3>1. x \in Int /\ y \in Int /\ 0 <= x /\ x < M /\ 0 <= y /\ y < M
      BY <1>2, <2>2 DEF BaseRange
    <3>2. Sent(t, x) = x /\ Sent(t, y) = y
      BY <1>2, <3>1, ModIs DEF Sent
    <3>3. QED
      BY <1>5, <3>2
  <2>3. QED
    BY <2>1, <2>2
<1>6. QED
  BY <1>3, <1>4, <1>5 DEF EnumAccepted, IsInjective

LEMMA MenuTyped ==
  /\ \A e \in EntryMenu : e.from \in Int /\ e.to \in Int
  /\ \A g \in Groups : g.mask \subseteq Nat /\ IsFiniteSet(g.mask) /\ DOMAIN g.states \subseteq Nat /\ Typed(g.states, Nat)
<1>1. \A e \in EntryMenu : e.from \in Int /\ e.to \in Int
  BY DEF EntryMenu, Entry
<1>2. \A a, b : IsFiniteSet({a}) /\ IsFiniteSet({a, b})
  <2>1. TAKE a, b
  <2>2. IsFiniteSet({a}) /\ IsFiniteSet({b})
    BY FS_Singleton
  <2>3. IsFiniteSet({a} \cup {b}) /\ {a, b} = {a} \cup {b}
    BY <2>2, FS_Union
  <2>4. QED
    BY <2>2, <2>3
<1>3. ASSUME NEW g \in Groups PROVE g.mask \subseteq Nat /\ IsFiniteSet(g.mask)
  <2>1. g.mask = {0, 1} \/ g.mask = {2} \/ g.mask = {1, 2} \/ g.mask = {3}
    BY DEF Groups
  <2>2. \A a, b : a \in Nat /\ b \in Nat => {a, b} \subseteq Nat /\ {a} \subseteq Nat
    OBVIOUS
  <2>3. 0 \in Nat /\ 1 \in Nat /\ 2 \in Nat /\ 3 \in Nat
    OBVIOUS
  <2>4. /\ {0, 1} \subseteq Nat /\ {2} \subseteq Nat /\ {1, 2} \subseteq Nat /\ {3} \subseteq Nat
        /\ IsFiniteSet({0, 1}) /\ IsFiniteSet({2}) /\ IsFiniteSet({1, 2}) /\ IsFiniteSet({3})
    BY <1>2, <2>2, <2>3, Zenon
  <2>5. QED
    BY <2>1, <2>4
<1>4. ASSUME NEW g \in Groups PROVE DOMAIN g.states \subseteq Nat /\ Typed(g.states, Nat)
  <2>1. \A a, b : /\ DOMAIN <<a>> = 1..1 /\ <<a>>[1] = a
                  /\ DOMAIN <<a, b>> = 1..2 /\ <<a, b>>[1] = a /\ <<a, b>>[2] = b
    OBVIOUS
  <2>2. \A l, x, y : Entry(l, x, y).from = x /\ Entry(l, x, y).to = y
    BY DEF Entry
  <2>3. \A l, x, y, m, z, w : x \in Nat /\ y \in Nat /\ z \in Nat /\ w \in Nat =>
          /\ DOMAIN <<Entry(l, x, y), Entry(m, z, w)>> \subseteq Nat /\ Typed(<<Entry(l, x, y), Entry(m, z, w)>>, Nat)
          /\ DOMAIN <<Entry(l, x, y)>> \subseteq Nat /\ Typed(<<Entry(l, x, y)>>, Nat)
    BY <2>1, <2>2 DEF Typed
  <2>4. \E l, x, y, m, z, w : /\ x \in Nat /\ y \in Nat /\ z \in Nat /\ w \in Nat
                             /\ g.states \in {<<Entry(l, x, y), Entry(m, z, w)>>, <<Entry(l, x, y)>>}
    <3>1. \/ g.states = <<Entry("x", 0, 1), Entry("y", 2, 3)>> \/ g.states = <<Entry("x", 0, 1), Entry("y", 1, 3)>>
          \/ g.states = <<Entry("x", 0, 0), Entry("y", 4, 4)>> \/ g.states = <<Entry("x", 2, 2), Entry("y", 6, 6)>>
          \/ g.states = <<Entry("x", 0, 8)>>
      BY DEF Groups
    <3>2. 0 \in Nat /\ 1 \in Nat /\ 2 \in Nat /\ 3 \in Nat /\ 4 \in Nat /\ 6 \in Nat /\ 8 \in Nat
      OBVIOUS
    <3>3. \A a, b : a \in {a, b} /\ b \in {a, b}
      OBVIOUS
    <3>4. QED
      BY <3>1, <3>2, <3>3, Zenon
  <2>5. QED
    BY <2>3, <2>4, Zenon
<1>5. QED
  BY <1>1, <1>3, <1>4

LEMMA SignalWritten ==
  ASSUME RuleInv, kind = "signal", items # << >>
  PROVE  SignalShape(SignalDoc)
<1>1. items[1] \in SignalHeads /\ Written \in Seq(EncodingMenu(items[1].encoding))
  BY DocIsSeq DEF RuleInv
<1>2. /\ SignalDoc.bits = items[1].bits /\ SignalDoc.initial = items[1].initial
      /\ SignalDoc.encoding.type = items[1].encoding /\ SignalDoc.encoding.items = Written
  BY DEF SignalDoc
<1>3. /\ items[1].bits \in Nat \ {0} /\ items[1].initial \subseteq Int
      /\ items[1].encoding \in {"none", "text_table", "bitfield_text_table"}
  BY <1>1 DEF SignalHeads
<1>4. DOMAIN Written \subseteq Nat /\ \A k \in DOMAIN Written : Written[k] \in EncodingMenu(items[1].encoding)
  BY <1>1
<1>5. items[1].encoding = "text_table" => EncodingMenu(items[1].encoding) = EntryMenu
  BY DEF EncodingMenu
<1>6. items[1].encoding = "bitfield_text_table" => EncodingMenu(items[1].encoding) = Groups
  BY DEF EncodingMenu
<1>7. items[1].encoding = "text_table" => Typed(Written, Int)
  BY <1>4, <1>5, MenuTyped DEF Typed
<1>8. items[1].encoding = "bitfield_text_table" => GroupList(Written)
  BY <1>4, <1>6, MenuTyped DEF GroupList
<1>9. QED
  BY <1>2, <1>3, <1>4, <1>7, <1>8 DEF SignalShape

\* For signals of any length, with any entries, groups and states: what is
\* accepted is sent with the bits it has and read back as it was, never as two
\* entries of a table or two states of a group, and states of all groups can be
\* sent together.
\* The values of an accepted enumeration are sent as different patterns.  So
\* it is for the signals and enumerations that are written here.
THEOREM SignalsAreRead ==
  /\ \A s : SignalShape(s) => EncodingsRead(s)
  /\ \A t, values : t.bits \in Nat \ {0} => EnumsReadBack(t, values)
  /\ RuleSpec => []SignalsRead
<1>1. \A s : SignalShape(s) => EncodingsRead(s)
  BY EncodingsAreRead
<1>2. \A t, values : t.bits \in Nat \ {0} => EnumsReadBack(t, values)
  BY EnumsAreRead
<1>3. RuleInv => SignalsRead
  <2>1. ASSUME RuleInv, kind = "signal", items # << >> PROVE EncodingsRead(SignalDoc)
    BY <1>1, <2>1, SignalWritten
  <2>2. ASSUME RuleInv, kind = "enum", items # << >> PROVE EnumsReadBack(items[1], Written)
    <3>1. items[1] \in BaseTypes
      BY <2>2, DocIsSeq DEF RuleInv
    <3>2. items[1].bits \in Nat \ {0}
      BY <3>1 DEF BaseTypes
    <3>3. QED
      BY <1>2, <3>2
  <2>3. QED
    BY <2>1, <2>2 DEF SignalsRead
<1>4. QED
  BY <1>1, <1>2, <1>3, InvHolds, PTL

-----------------------------------------------------------------------------
(* The models of RuleDocuments.                                            *)

\* The fields that are written are finitely many, of models with a place.
LEMMA ModelsWritten ==
  ASSUME RuleInv, kind = "models", items # << >>
  PROVE  IsFiniteSet(SchemaDoc) /\ Alphabet(SchemaDoc, Places)
<1>1. Written \in Seq(DOMAIN ModelFields)
  BY DocIsSeq DEF RuleInv
<1>2. DOMAIN ModelFields = 1..12
  BY DEF ModelFields
<1> DEFINE S == ToSet(Written)
           g == [n \in S |-> ModelFields[n]]
<1>3. S \subseteq 1..12
  BY <1>1, <1>2, MemberOfSeq
<1>4. IsFiniteSet(S)
  <2>1. \A n \in Int : IsFiniteSet(1..n)
    BY FS_Interval
  <2>2. 12 \in Int
    OBVIOUS
  <2> HIDE DEF S
  <2>3. IsFiniteSet(1..12)
    BY <2>1, <2>2, Zenon
  <2>4. QED
    BY <1>3, <2>3, FS_Subset, Zenon
<1> HIDE DEF S
<1>5. SchemaDoc = {g[n] : n \in S}
  BY DEF SchemaDoc, S
<1>6. g \in Surjection(S, SchemaDoc)
  <2>1. DOMAIN g = S
    OBVIOUS
  <2>2. g \in [S -> SchemaDoc] /\ \A f \in SchemaDoc : \E n \in S : g[n] = f
    BY <1>5
  <2> HIDE DEF g
  <2>3. QED
    BY <2>1, <2>2 DEF Surjection
<1>7. IsFiniteSet(SchemaDoc)
  BY <1>4, <1>6, FS_Surjection
<1>8. \A n \in 1..12 : ModelFields[n].of \in {"Root", "A", "B", "C", "D"}
  BY DEF ModelFields, Field
<1>9. \A m \in {"Root", "A", "B", "C", "D"} : Places[m] \in Nat
  BY DEF Places
<1>10. \A f \in SchemaDoc : Places[f.of] \in Nat
  BY <1>3, <1>5, <1>8, <1>9
<1>11. QED
  BY <1>7, <1>10 DEF Alphabet

\* For schemas of any finite size: the paths are known of all the models the
\* root leads to and of no others, and go to no model's fields twice; and the
\* files of an external field are validated as what its annotation says,
\* unless the external fields of its name differ, or its model leads back.
THEOREM TypesAreRebuilt ==
  /\ \A schema, root, before :
       IsFiniteSet(schema) /\ Alphabet(schema, before) => FilesFound(schema, root, before)
  /\ RuleSpec => []TypesRebuilt
<1>1. \A schema, root, before :
        IsFiniteSet(schema) /\ Alphabet(schema, before) => FilesFound(schema, root, before)
  BY FilesAreFound
<1>2. RuleInv => TypesRebuilt
  BY ModelsWritten, FilesAreFound DEF TypesRebuilt
<1>3. QED
  BY <1>1, <1>2, InvHolds, PTL

-----------------------------------------------------------------------------
(* The datatypes of parameters (Datatypes).                                *)

SpotKinds(doc) == {KindOf(doc, i) : i \in DOMAIN doc} \cup {"absent", "cycle", "resolved", "ambiguous", "missing"}

Spots(doc) == [type : {0} \cup DOMAIN doc, kind : SpotKinds(doc), visited : SUBSET DOMAIN doc]

LEMMA TypeNodeIs ==
  ASSUME NEW doc, NEW i \in DOMAIN doc, NEW visited \in SUBSET DOMAIN doc
  PROVE  /\ TypeNode(doc, i, visited) \in Spots(doc)
         /\ i \in visited => TypeNode(doc, i, visited) = Spot(0, "cycle", {})
         /\ i \notin visited => TypeNode(doc, i, visited) = Spot(i, KindOf(doc, i), visited \cup {i})
<1>1. i \in visited => TypeNode(doc, i, visited) = Spot(0, "cycle", {})
  BY DEF TypeNode
<1>2. i \notin visited => TypeNode(doc, i, visited) = Spot(i, KindOf(doc, i), visited \cup {i})
  BY DEF TypeNode
<1>3. Spot(0, "cycle", {}) \in Spots(doc) /\ Spot(i, KindOf(doc, i), visited \cup {i}) \in Spots(doc)
  BY DEF Spot, Spots, SpotKinds
<1>4. QED
  BY <1>1, <1>2, <1>3

\* A child is a type that was not visited on the way, or has a kind that says
\* why it is none.
LEMMA ChildIs ==
  ASSUME NEW doc, ArxmlDoc(doc), NEW s \in Spots(doc), NEW k
  PROVE  /\ ChildNode(doc, s, k) \in Spots(doc)
         /\ ChildNode(doc, s, k).kind \notin {"absent", "cycle", "ambiguous", "missing"} =>
              /\ TypeBelow(doc, s.type, k) \in DOMAIN doc \ s.visited
              /\ ChildNode(doc, s, k).type = TypeBelow(doc, s.type, k)
              /\ ChildNode(doc, s, k).kind = KindOf(doc, TypeBelow(doc, s.type, k))
              /\ ChildNode(doc, s, k).visited = s.visited \cup {TypeBelow(doc, s.type, k)}
<1> DEFINE refs  == TypeReferences(doc, s.type)
           found == Resolve(doc, refs[k], s.type)
           none  == s.type = 0 \/ k \notin DOMAIN refs
           child == ChildNode(doc, s, k)
           t     == CHOOSE u \in found.targets : TRUE
<1>1. s.visited \in SUBSET DOMAIN doc
  BY DEF Spots
<1>2. child = IF none THEN Absent
              ELSE IF found.state = "resolved" THEN TypeNode(doc, t, s.visited) ELSE Spot(0, found.state, {})
  BY Zenon DEF ChildNode, Behind
<1>3. found.state \in {"resolved", "ambiguous", "missing"} /\ (found.state = "resolved" => t \in DOMAIN doc)
  BY ResolutionIs
<1>4. ~none /\ found.state = "resolved" => TypeBelow(doc, s.type, k) = t
  BY Zenon DEF TypeBelow, TargetOf
<1> HIDE DEF refs, found, child, t
<1>5. CASE none
  <2>1. child = Absent
    BY <1>2, <1>5
  <2>2. child.kind = "absent" /\ child \in Spots(doc)
    BY <2>1 DEF Absent, Spot, Spots, SpotKinds
  <2>3. QED
    BY <2>2 DEF child
<1>6. CASE ~none /\ found.state = "resolved"
  <2>1. child = TypeNode(doc, t, s.visited)
    BY <1>2, <1>6
  <2>2. t \in DOMAIN doc
    BY <1>3, <1>6
  <2>3. child \in Spots(doc)
    BY <1>1, <2>1, <2>2, TypeNodeIs
  <2>4. CASE t \in s.visited
    <3>1. child.kind = "cycle"
      BY <1>1, <2>1, <2>2, <2>4, TypeNodeIs DEF Spot
    <3>2. QED
      BY <2>3, <3>1 DEF child
  <2>5. CASE t \notin s.visited
    <3>1. child = Spot(t, KindOf(doc, t), s.visited \cup {t})
      BY <1>1, <2>1, <2>2, <2>5, TypeNodeIs
    <3>2. child.type = t /\ child.kind = KindOf(doc, t) /\ child.visited = s.visited \cup {t}
      BY <3>1 DEF Spot
    <3>3. TypeBelow(doc, s.type, k) = t
      BY <1>4, <1>6
    <3>4. QED
      BY <2>2, <2>3, <2>5, <3>2, <3>3 DEF child
  <2>6. QED
    BY <2>4, <2>5
<1>7. CASE ~none /\ found.state # "resolved"
  <2>1. child = Spot(0, found.state, {}) /\ found.state \in {"ambiguous", "missing"}
    BY <1>2, <1>3, <1>7
  <2>2. child.kind \in {"ambiguous", "missing"} /\ child \in Spots(doc)
    BY <2>1 DEF Spot, Spots, SpotKinds
  <2>3. QED
    BY <2>2 DEF child
<1>8. QED
  BY <1>5, <1>6, <1>7

LEMMA TypeBelowIs ==
  ASSUME NEW doc, ArxmlDoc(doc), NEW i, NEW k
  PROVE  TypeBelow(doc, i, k) \in {0} \cup DOMAIN doc
<1> DEFINE found == Resolve(doc, TypeReferences(doc, i)[k], i)
<1>1. found.state = "resolved" => (CHOOSE t \in found.targets : TRUE) \in DOMAIN doc
  BY ResolutionIs
<1>2. TargetOf(found) \in {0} \cup DOMAIN doc
  BY <1>1 DEF TargetOf
<1>3. TypeBelow(doc, i, k) = 0 \/ TypeBelow(doc, i, k) = TargetOf(found)
  BY Zenon DEF TypeBelow
<1>4. QED
  BY <1>2, <1>3

LEMMA NodesUnfold ==
  ASSUME NEW doc, ArxmlDoc(doc), NEW i \in DOMAIN doc, NEW p \in Seq(Nat)
  PROVE  \E f : /\ f[0] = TypeNode(doc, i, {})
                /\ \A n \in 1..Len(p) : f[n] = ChildNode(doc, f[n - 1], p[n])
                /\ NodeAt(doc, i, p) = f[Len(p)]
                /\ \A n \in 0..Len(p) : f[n] \in Spots(doc)
<1> DEFINE N == Len(p)
           S == Spots(doc)
           a == TypeNode(doc, i, {})
           step == [x \in (1..N) \X S |-> ChildNode(doc, x[2], p[x[1]])]
<1>1. N \in Nat
  BY LenIsNat
<1>2. a \in S
  BY TypeNodeIs
<1>3. step \in Steps(S, N)
  <2>1. \A s \in S : \A n \in 1..N : ChildNode(doc, s, p[n]) \in S
    BY ChildIs
  <2> HIDE DEF S
  <2>2. QED
    BY <2>1 DEF Steps
<1> HIDE DEF N, S, a
<1>4. PICK g : IsRun(g, S, N, a, step)
  <2> HIDE DEF step
  <2>1. QED
    BY <1>1, <1>2, <1>3, Recursion
<1>5. g \in [0..N -> S] /\ g[0] = a /\ \A k \in 1..N : g[k] = ChildNode(doc, g[k - 1], p[k])
  <2>1. g \in [0..N -> S] /\ g[0] = a /\ \A k \in 1..N : g[k] = step[<<k, g[k - 1]>>]
    BY <1>4 DEF IsRun
  <2>2. ASSUME NEW k \in 1..N PROVE g[k] = ChildNode(doc, g[k - 1], p[k])
    <3>1. k - 1 \in 0..N
      BY <1>1
    <3>2. <<k, g[k - 1]>> \in (1..N) \X S
      BY <2>1, <3>1
    <3>3. step[<<k, g[k - 1]>>] = ChildNode(doc, g[k - 1], p[k])
      BY <3>2
    <3>4. QED
      BY <2>1, <3>3
  <2>3. QED
    BY <2>1, <2>2
<1> DEFINE Rec(h) == h = [k \in 0..N |-> IF k = 0 THEN a ELSE ChildNode(doc, h[k - 1], p[k])]
           f == CHOOSE h : Rec(h)
<1>6. Rec(f)
  <2>1. \A k \in 0..N : g[k] = IF k = 0 THEN a ELSE ChildNode(doc, g[k - 1], p[k])
    <3>1. TAKE k \in 0..N
    <3>2. k # 0 => k \in 1..N
      BY <1>1
    <3>3. QED
      BY <1>5, <3>2
  <2>2. Rec(g)
    BY <1>5, <2>1
  <2>3. QED
    BY <2>2
<1>7. NodeAt(doc, i, p) = f[N]
  BY DEF NodeAt, N, a
<1> HIDE DEF f
<1>8. f[0] = a /\ \A k \in 1..N : f[k] = ChildNode(doc, f[k - 1], p[k])
  <2>1. 0 \in 0..N /\ \A k \in 1..N : k \in 0..N /\ k # 0
    BY <1>1
  <2>2. QED
    BY <1>6, <2>1
<1>9. \A n \in 0..N : f[n] \in S
  <2> DEFINE Done == {k \in 0..N : f[k] \in S}
  <2>1. 0 \in Done
    BY <1>1, <1>2, <1>8
  <2>2. \A k \in 1..N : k - 1 \in Done => k \in Done
    BY <1>8, ChildIs DEF S
  <2> HIDE DEF Done
  <2>3. 0..N \subseteq Done
    BY <1>1, <2>1, <2>2, UpTo
  <2>4. QED
    BY <2>3 DEF Done
<1>10. QED
  BY <1>7, <1>8, <1>9 DEF N, S, a

LEMMA TypesUnfold ==
  ASSUME NEW doc, ArxmlDoc(doc), NEW i \in DOMAIN doc, NEW p \in Seq(Nat)
  PROVE  \E f : /\ f[0] = i
                /\ \A n \in 1..Len(p) : f[n] = TypeBelow(doc, f[n - 1], p[n])
                /\ TypeAt(doc, i, p) = f[Len(p)]
<1> DEFINE N == Len(p)
           S == {0} \cup DOMAIN doc
           step == [x \in (1..N) \X S |-> TypeBelow(doc, x[2], p[x[1]])]
<1>1. N \in Nat
  BY LenIsNat
<1>2. i \in S
  OBVIOUS
<1>3. step \in Steps(S, N)
  <2>1. \A s \in S : \A n \in 1..N : TypeBelow(doc, s, p[n]) \in S
    BY TypeBelowIs
  <2> HIDE DEF S
  <2>2. QED
    BY <2>1 DEF Steps
<1> HIDE DEF N, S
<1>4. PICK g : IsRun(g, S, N, i, step)
  <2> HIDE DEF step
  <2>1. QED
    BY <1>1, <1>2, <1>3, Recursion
<1>5. g \in [0..N -> S] /\ g[0] = i /\ \A k \in 1..N : g[k] = TypeBelow(doc, g[k - 1], p[k])
  <2>1. g \in [0..N -> S] /\ g[0] = i /\ \A k \in 1..N : g[k] = step[<<k, g[k - 1]>>]
    BY <1>4 DEF IsRun
  <2>2. ASSUME NEW k \in 1..N PROVE g[k] = TypeBelow(doc, g[k - 1], p[k])
    <3>1. k - 1 \in 0..N
      BY <1>1
    <3>2. <<k, g[k - 1]>> \in (1..N) \X S
      BY <2>1, <3>1
    <3>3. step[<<k, g[k - 1]>>] = TypeBelow(doc, g[k - 1], p[k])
      BY <3>2
    <3>4. QED
      BY <2>1, <3>3
  <2>3. QED
    BY <2>1, <2>2
<1> DEFINE Rec(h) == h = [k \in 0..N |-> IF k = 0 THEN i ELSE TypeBelow(doc, h[k - 1], p[k])]
           f == CHOOSE h : Rec(h)
<1>6. Rec(f)
  <2>1. \A k \in 0..N : g[k] = IF k = 0 THEN i ELSE TypeBelow(doc, g[k - 1], p[k])
    <3>1. TAKE k \in 0..N
    <3>2. k # 0 => k \in 1..N
      BY <1>1
    <3>3. QED
      BY <1>5, <3>2
  <2>2. Rec(g)
    BY <1>5, <2>1
  <2>3. QED
    BY <2>2
<1>7. TypeAt(doc, i, p) = f[N]
  BY DEF TypeAt, N
<1> HIDE DEF f
<1>8. f[0] = i /\ \A k \in 1..N : f[k] = TypeBelow(doc, f[k - 1], p[k])
  <2>1. 0 \in 0..N /\ \A k \in 1..N : k \in 0..N /\ k # 0
    BY <1>1
  <2>2. QED
    BY <1>6, <2>1
<1>9. QED
  BY <1>7, <1>8 DEF N

LEMMA NodeSteps ==
  ASSUME NEW doc, ArxmlDoc(doc), NEW i \in DOMAIN doc, NEW p \in Seq(Nat)
  PROVE  /\ NodeAt(doc, i, p) \in Spots(doc)
         /\ p = << >> => NodeAt(doc, i, p) = TypeNode(doc, i, {})
         /\ p # << >> => NodeAt(doc, i, p) = ChildNode(doc, NodeAt(doc, i, Front(p)), Last(p))
<1>1. PICK f : /\ f[0] = TypeNode(doc, i, {})
               /\ \A n \in 1..Len(p) : f[n] = ChildNode(doc, f[n - 1], p[n])
               /\ NodeAt(doc, i, p) = f[Len(p)]
               /\ \A n \in 0..Len(p) : f[n] \in Spots(doc)
  BY NodesUnfold
<1>2. Len(p) \in Nat
  BY LenIsNat
<1>3. NodeAt(doc, i, p) \in Spots(doc)
  BY <1>1, <1>2
<1>4. ASSUME p = << >> PROVE NodeAt(doc, i, p) = TypeNode(doc, i, {})
  <2>1. Len(p) = 0
    BY <1>4
  <2>2. QED
    BY <1>1, <2>1
<1>5. ASSUME p # << >> PROVE NodeAt(doc, i, p) = ChildNode(doc, NodeAt(doc, i, Front(p)), Last(p))
  <2> DEFINE q == Front(p)
             N == Len(p)
  <2>1. /\ N \in Nat \ {0} /\ Last(p) = p[N] /\ q \in Seq(Nat) /\ Len(q) = N - 1
        /\ \A n \in 1..N - 1 : q[n] = p[n]
    BY <1>5, FrontIs
  <2>2. PICK g : /\ g[0] = TypeNode(doc, i, {})
                 /\ \A n \in 1..Len(q) : g[n] = ChildNode(doc, g[n - 1], q[n])
                 /\ NodeAt(doc, i, q) = g[Len(q)]
    BY <2>1, NodesUnfold
  <2> DEFINE Equal == {n \in 0..N - 1 : f[n] = g[n]}
  <2>3. 0 \in Equal
    BY <1>1, <2>1, <2>2
  <2>4. \A n \in 1..N - 1 : n - 1 \in Equal => n \in Equal
    <3>1. SUFFICES ASSUME NEW n \in 1..N - 1, f[n - 1] = g[n - 1] PROVE n \in Equal
      OBVIOUS
    <3>2. n \in 1..N /\ n \in 1..Len(q) /\ n \in 0..N - 1
      BY <2>1
    <3>3. f[n] = ChildNode(doc, f[n - 1], p[n])
      BY <1>1, <3>2
    <3>4. g[n] = ChildNode(doc, g[n - 1], p[n])
      BY <2>1, <2>2, <3>2
    <3>5. f[n] = g[n]
      BY <3>1, <3>3, <3>4
    <3>6. QED
      BY <3>2, <3>5
  <2>5. N - 1 \in Nat
    BY <2>1
  <2> HIDE DEF Equal
  <2>6. 0..N - 1 \subseteq Equal
    BY <2>3, <2>4, <2>5, UpTo
  <2>7. f[N - 1] = g[N - 1]
    BY <2>5, <2>6 DEF Equal
  <2>8. f[N] = ChildNode(doc, f[N - 1], p[N])
    <3>1. N \in 1..Len(p)
      BY <2>1
    <3>2. QED
      BY <1>1, <3>1
  <2>9. NodeAt(doc, i, q) = f[N - 1]
    BY <2>1, <2>2, <2>7
  <2>10. QED
    BY <1>1, <2>1, <2>8, <2>9
<1>6. QED
  BY <1>3, <1>4, <1>5

LEMMA TypeSteps ==
  ASSUME NEW doc, ArxmlDoc(doc), NEW i \in DOMAIN doc, NEW p \in Seq(Nat)
  PROVE  /\ p = << >> => TypeAt(doc, i, p) = i
         /\ p # << >> => TypeAt(doc, i, p) = TypeBelow(doc, TypeAt(doc, i, Front(p)), Last(p))
<1>1. PICK f : /\ f[0] = i
               /\ \A n \in 1..Len(p) : f[n] = TypeBelow(doc, f[n - 1], p[n])
               /\ TypeAt(doc, i, p) = f[Len(p)]
  BY TypesUnfold
<1>4. ASSUME p = << >> PROVE TypeAt(doc, i, p) = i
  <2>1. Len(p) = 0
    BY <1>4
  <2>2. QED
    BY <1>1, <2>1
<1>5. ASSUME p # << >> PROVE TypeAt(doc, i, p) = TypeBelow(doc, TypeAt(doc, i, Front(p)), Last(p))
  <2> DEFINE q == Front(p)
             N == Len(p)
  <2>1. /\ N \in Nat \ {0} /\ Last(p) = p[N] /\ q \in Seq(Nat) /\ Len(q) = N - 1
        /\ \A n \in 1..N - 1 : q[n] = p[n]
    BY <1>5, FrontIs
  <2>2. PICK g : /\ g[0] = i
                 /\ \A n \in 1..Len(q) : g[n] = TypeBelow(doc, g[n - 1], q[n])
                 /\ TypeAt(doc, i, q) = g[Len(q)]
    BY <2>1, TypesUnfold
  <2> DEFINE Equal == {n \in 0..N - 1 : f[n] = g[n]}
  <2>3. 0 \in Equal
    BY <1>1, <2>1, <2>2
  <2>4. \A n \in 1..N - 1 : n - 1 \in Equal => n \in Equal
    <3>1. SUFFICES ASSUME NEW n \in 1..N - 1, f[n - 1] = g[n - 1] PROVE n \in Equal
      OBVIOUS
    <3>2. n \in 1..N /\ n \in 1..Len(q) /\ n \in 0..N - 1
      BY <2>1
    <3>3. f[n] = TypeBelow(doc, f[n - 1], p[n])
      BY <1>1, <3>2
    <3>4. g[n] = TypeBelow(doc, g[n - 1], p[n])
      BY <2>1, <2>2, <3>2
    <3>5. f[n] = g[n]
      BY <3>1, <3>3, <3>4
    <3>6. QED
      BY <3>2, <3>5
  <2>5. N - 1 \in Nat
    BY <2>1
  <2> HIDE DEF Equal
  <2>6. 0..N - 1 \subseteq Equal
    BY <2>3, <2>4, <2>5, UpTo
  <2>7. f[N - 1] = g[N - 1]
    BY <2>5, <2>6 DEF Equal
  <2>8. f[N] = TypeBelow(doc, f[N - 1], p[N])
    <3>1. N \in 1..Len(p)
      BY <2>1
    <3>2. QED
      BY <1>1, <3>1
  <2>9. TypeAt(doc, i, q) = f[N - 1]
    BY <2>1, <2>2, <2>7
  <2>10. QED
    BY <1>1, <2>1, <2>8, <2>9
<1>6. QED
  BY <1>4, <1>5

\* The types on the way to a position.
Through(doc, i, p) == {TypeAt(doc, i, SubSeq(p, 1, k)) : k \in 0..Len(p)}

LEMMA ThroughIs ==
  ASSUME NEW doc, NEW i, NEW p \in Seq(Nat)
  PROVE  /\ p = << >> => Through(doc, i, p) = {TypeAt(doc, i, << >>)}
         /\ p # << >> => /\ Through(doc, i, Front(p)) = {TypeAt(doc, i, SubSeq(p, 1, k)) : k \in 0..Len(p) - 1}
                         /\ Through(doc, i, p) = Through(doc, i, Front(p)) \cup {TypeAt(doc, i, p)}
<1>1. ASSUME p = << >> PROVE Through(doc, i, p) = {TypeAt(doc, i, << >>)}
  <2>1. Len(p) = 0 /\ SubSeq(p, 1, 0) = << >>
    BY <1>1
  <2>2. 0..Len(p) = {0}
    BY <2>1
  <2>3. QED
    BY <2>1, <2>2 DEF Through
<1>2. ASSUME p # << >>
      PROVE  /\ Through(doc, i, Front(p)) = {TypeAt(doc, i, SubSeq(p, 1, k)) : k \in 0..Len(p) - 1}
             /\ Through(doc, i, p) = Through(doc, i, Front(p)) \cup {TypeAt(doc, i, p)}
  <2> DEFINE q == Front(p)
             N == Len(p)
             at(k) == TypeAt(doc, i, SubSeq(p, 1, k))
  <2>1. /\ N \in Nat \ {0} /\ q \in Seq(Nat) /\ Len(q) = N - 1
        /\ \A n \in 1..N - 1 : q[n] = p[n]
    BY <1>2, FrontIs
  <2>2. ASSUME NEW k \in 0..N - 1 PROVE SubSeq(q, 1, k) = SubSeq(p, 1, k)
    <3>1. k \in Nat /\ k <= N - 1
      BY <2>1
    <3>2. SubSeq(q, 1, k) = [n \in 1..k |-> q[n]] /\ SubSeq(p, 1, k) = [n \in 1..k |-> p[n]]
      BY <2>1, <3>1
    <3>3. \A n \in 1..k : n \in 1..N - 1
      BY <2>1, <3>1
    <3>4. QED
      BY <2>1, <3>2, <3>3
  <2>3. SubSeq(p, 1, N) = p
    BY <2>1
  <2>4. Through(doc, i, q) = {at(k) : k \in 0..N - 1}
    <3>1. Through(doc, i, q) = {TypeAt(doc, i, SubSeq(q, 1, k)) : k \in 0..N - 1}
      BY <2>1 DEF Through
    <3>2. QED
      BY Zenon, <2>2, <3>1
  <2>5. 0..N = (0..N - 1) \cup {N}
    BY <2>1
  <2>6. Through(doc, i, p) = {at(k) : k \in 0..N}
    BY DEF Through
  <2>7. at(N) = TypeAt(doc, i, p)
    BY <2>3
  <2> HIDE DEF at
  <2>8. {at(k) : k \in 0..N} = {at(k) : k \in 0..N - 1} \cup {at(N)}
    BY <2>5
  <2>9. QED
    BY <2>4, <2>6, <2>7, <2>8 DEF at
<1>3. QED
  BY <1>1, <1>2

\* A datatype has a kind at every position on the way to one of its positions.
DatatypeShape(left) ==
  /\ DOMAIN left \subseteq Seq(Nat) /\ << >> \in DOMAIN left
  /\ \A p \in DOMAIN left : /\ p # << >> => Front(p) \in DOMAIN left
                            /\ left[p] \notin {"absent", "cycle", "ambiguous", "missing"}

\* What all matches say of a position.
TypeMatches(doc, left, i, p) ==
  LET node == NodeAt(doc, i, p)
      n    == TypeAt(doc, i, p)
  IN /\ n \in DOMAIN doc /\ node.type = n /\ node.kind = KindOf(doc, n) /\ node.visited = Through(doc, i, p)
     /\ SameKind(left[p], KindOf(doc, n))
     /\ p # << >> => n \notin Through(doc, i, Front(p))

LEMMA KindMatches ==
  ASSUME NEW left, NEW right, left \notin {"absent", "cycle", "ambiguous", "missing"}, SameKind(left, right)
  PROVE  right \notin {"absent", "cycle", "ambiguous", "missing"}
BY DEF SameKind

LEMMA PositionMatches ==
  ASSUME NEW doc, NEW left, NEW i, NEW p \in DOMAIN left,
         \A x \in CompareTypes(doc, left, i) : x.result = "match",
         p = << >> \/ /\ Front(p) \in DOMAIN left
                      /\ NodeAt(doc, i, Front(p)).kind \notin {"absent", "ambiguous", "missing"}
  PROVE  SameKind(left[p], NodeAt(doc, i, p).kind)
<1> DEFINE kinds  == [q \in DOMAIN left |-> NodeAt(doc, i, q).kind]
           result == CASE kinds[p] = "absent"    -> "missing"
                       [] kinds[p] = "ambiguous" -> "ambiguous"
                       [] kinds[p] = "missing"   -> "unresolved"
                       [] OTHER                  -> IF SameKind(left[p], kinds[p]) THEN "match" ELSE "mismatch"
<1>1. p = << >> \/ kinds[Front(p)] \notin {"absent", "ambiguous", "missing"}
  OBVIOUS
<1>2. kinds[p] = NodeAt(doc, i, p).kind
  OBVIOUS
<1>3. CompareTypes(doc, left, i) = CompareKinds(left, kinds)
  BY DEF CompareTypes
<1> HIDE DEF kinds
<1>4. Found(result) \in CompareKinds(left, kinds)
  BY <1>1 DEF CompareKinds
<1>5. result = "match"
  BY <1>3, <1>4 DEF Found, Evidence
<1>6. SameKind(left[p], kinds[p])
  BY <1>5
<1>7. QED
  BY <1>2, <1>6

LEMMA MatchesAreTypes ==
  ASSUME NEW doc, ArxmlDoc(doc), NEW i \in DOMAIN doc, NEW left, DatatypeShape(left),
         \A x \in CompareTypes(doc, left, i) : x.result = "match"
  PROVE  \A p \in DOMAIN left : TypeMatches(doc, left, i, p)
<1> DEFINE Done == {n \in Nat : \A p \in DOMAIN left : Len(p) = n => TypeMatches(doc, left, i, p)}
<1>1. \A p \in DOMAIN left : p \in Seq(Nat) /\ Len(p) \in Nat
  BY LenIsNat DEF DatatypeShape
<1>2. 0 \in Done
  <2>1. SUFFICES ASSUME NEW p \in DOMAIN left, Len(p) = 0 PROVE TypeMatches(doc, left, i, p)
    OBVIOUS
  <2>2. p = << >> /\ p \in Seq(Nat)
    BY <1>1, <2>1
  <2>3. NodeAt(doc, i, p) = TypeNode(doc, i, {}) /\ TypeAt(doc, i, p) = i
    BY <2>2, NodeSteps, TypeSteps
  <2>4. TypeNode(doc, i, {}) = Spot(i, KindOf(doc, i), {i})
    BY TypeNodeIs
  <2>5. Through(doc, i, p) = {i}
    <3>1. Through(doc, i, p) = {TypeAt(doc, i, << >>)}
      BY <2>2, ThroughIs
    <3>2. QED
      BY Zenon, <2>2, <2>3, <3>1
  <2>6. SameKind(left[p], NodeAt(doc, i, p).kind)
    BY <2>2, PositionMatches
  <2>7. /\ NodeAt(doc, i, p).type = i /\ NodeAt(doc, i, p).kind = KindOf(doc, i)
        /\ NodeAt(doc, i, p).visited = {i}
    BY <2>3, <2>4 DEF Spot
  <2>8. QED
    BY <2>2, <2>3, <2>5, <2>6, <2>7 DEF TypeMatches
<1>3. ASSUME NEW n \in Nat, n \in Done PROVE n + 1 \in Done
  <2>1. SUFFICES ASSUME NEW p \in DOMAIN left, Len(p) = n + 1 PROVE TypeMatches(doc, left, i, p)
    BY <1>3
  <2> DEFINE q == Front(p)
             k == Last(p)
             s == NodeAt(doc, i, q)
             c == NodeAt(doc, i, p)
             t == TypeAt(doc, i, p)
  <2>2. p \in Seq(Nat) /\ p # << >>
    BY <1>1, <2>1
  <2>3. q \in DOMAIN left /\ q \in Seq(Nat) /\ Len(q) = n
    <3>1. q \in Seq(Nat) /\ Len(q) = Len(p) - 1
      BY <2>2, FrontIs
    <3>2. q \in DOMAIN left
      BY <2>2 DEF DatatypeShape
    <3>3. QED
      BY <2>1, <3>1, <3>2
  <2>4. TypeMatches(doc, left, i, q)
    BY <1>3, <2>3
  <2>5. s \in Spots(doc) /\ c = ChildNode(doc, s, k) /\ t = TypeBelow(doc, TypeAt(doc, i, q), k)
    BY <2>2, <2>3, NodeSteps, TypeSteps
  <2>6. /\ s.type = TypeAt(doc, i, q) /\ s.visited = Through(doc, i, q)
        /\ s.kind = KindOf(doc, TypeAt(doc, i, q)) /\ SameKind(left[q], KindOf(doc, TypeAt(doc, i, q)))
    BY <2>4 DEF TypeMatches
  <2>7. s.kind \notin {"absent", "cycle", "ambiguous", "missing"}
    <3>1. left[q] \notin {"absent", "cycle", "ambiguous", "missing"}
      BY <2>3 DEF DatatypeShape
    <3>2. SameKind(left[q], s.kind)
      BY <2>6
    <3> HIDE DEF s, q
    <3>3. QED
      BY <3>1, <3>2, KindMatches
  <2>8. SameKind(left[p], c.kind)
    <3>1. Front(p) \in DOMAIN left /\ NodeAt(doc, i, Front(p)).kind \notin {"absent", "ambiguous", "missing"}
      BY <2>3, <2>7
    <3>2. QED
      BY <3>1, PositionMatches
  <2>9. c.kind \notin {"absent", "cycle", "ambiguous", "missing"}
    <3>1. left[p] \notin {"absent", "cycle", "ambiguous", "missing"}
      BY DEF DatatypeShape
    <3> HIDE DEF c
    <3>2. QED
      BY <2>8, <3>1, KindMatches
  <2>10. t = TypeBelow(doc, s.type, k)
    BY <2>5, <2>6
  <2>11. /\ t \in DOMAIN doc \ s.visited /\ c.type = t /\ c.kind = KindOf(doc, t)
         /\ c.visited = s.visited \cup {t}
    <3> HIDE DEF s, k, c, t
    <3>1. QED
      BY <2>5, <2>9, <2>10, ChildIs
  <2>12. Through(doc, i, p) = Through(doc, i, q) \cup {t}
    BY <2>2, ThroughIs
  <2>13. t \notin Through(doc, i, Front(p)) /\ c.visited = Through(doc, i, p)
    BY <2>6, <2>11, <2>12
  <2>14. SameKind(left[p], KindOf(doc, t))
    BY <2>8, <2>11
  <2> DEFINE all == /\ t \in DOMAIN doc /\ c.type = t /\ c.kind = KindOf(doc, t) /\ c.visited = Through(doc, i, p)
                    /\ SameKind(left[p], KindOf(doc, t)) /\ t \notin Through(doc, i, Front(p))
  <2>15. all
    BY <2>11, <2>13, <2>14
  <2>16. QED
    BY <2>15 DEF TypeMatches
<1> HIDE DEF Done
<1>4. \A n \in Nat : n \in Done
  <2>1. TAKE n \in Nat
  <2>2. \A k \in 1..n : k - 1 \in Done => k \in Done
    <3>1. SUFFICES ASSUME NEW k \in 1..n, k - 1 \in Done PROVE k \in Done
      OBVIOUS
    <3>2. k - 1 \in Nat /\ k = (k - 1) + 1
      OBVIOUS
    <3>3. QED
      BY <1>3, <3>1, <3>2
  <2>3. 0..n \subseteq Done
    BY <1>2, <2>2, UpTo
  <2>4. QED
    BY <2>3
<1>5. TAKE p \in DOMAIN left
<1>6. Len(p) \in Done
  BY <1>1, <1>4
<1>7. QED
  BY <1>6 DEF Done

LEMMA MatchesFit ==
  ASSUME NEW doc, NEW left, NEW i, NEW p \in Seq(Nat), TypeMatches(doc, left, i, p), 0 \notin DOMAIN doc
  PROVE  TypeFits(doc, left, i, p, TypeAt(doc, i, p))
<1>1. TypeAt(doc, i, p) # 0 /\ SameKind(left[p], KindOf(doc, TypeAt(doc, i, p)))
  BY DEF TypeMatches
<1>2. CASE p = << >>
  <2>1. 0..Len(p) - 1 = {}
    BY <1>2
  <2>2. QED
    BY <1>1, <2>1 DEF TypeFits
<1>3. CASE p # << >>
  <2>1. TypeAt(doc, i, p) \notin Through(doc, i, Front(p))
    BY <1>3 DEF TypeMatches
  <2>2. Through(doc, i, Front(p)) = {TypeAt(doc, i, SubSeq(p, 1, k)) : k \in 0..Len(p) - 1}
    BY <1>3, ThroughIs
  <2>3. QED
    BY <1>1, <2>1, <2>2 DEF TypeFits
<1>4. QED
  BY <1>2, <1>3

\* What a mapped row of a parameter says of its candidates.
LEMMA MappedTypes ==
  ASSUME NEW doc, ArxmlDoc(doc), NEW e, DatatypeRow(doc, e).status = "Mapped"
  PROVE  \E c \in DOMAIN doc :
           /\ DatatypeRow(doc, e).elements = {c} /\ \E r \in ReferencesOf(doc, c) : r.type
           /\ \A r \in ReferencesOf(doc, c) : r.type =>
                \E t \in DOMAIN doc : /\ Resolve(doc, r, c).targets = {t}
                                     /\ \A x \in CompareTypes(doc, e.datatype, t) : x.result = "match"
<1> DEFINE cs == Prototypes(doc, e)
           types == UNION {TypeEvidence(doc, e, c) : c \in cs}
           ev == AmbiguityEvidence(cs) \cup types
<1>1. DatatypeRow(doc, e).elements = cs /\ DatatypeRow(doc, e).status = Status(cs, ev)
  BY DEF DatatypeRow
<1>2. cs \subseteq DOMAIN doc
  BY DEF Prototypes, WithTags
<1>3. IsFiniteSet(cs)
  BY <1>2, TreeFinite, FS_Subset
<1> HIDE DEF cs, types
<1>4. cs # {} /\ \A x \in ev : x.required => x.result = "match"
  BY <1>1 DEF Status
<1>5. ~(Cardinality(cs) > 1)
  <2>1. SUFFICES ASSUME Cardinality(cs) > 1 PROVE FALSE
    OBVIOUS
  <2>2. Evidence("ambiguous", TRUE, FALSE) \in ev
    BY <2>1 DEF AmbiguityEvidence
  <2>3. QED
    BY <1>4, <2>2 DEF Evidence
<1>6. PICK c \in cs : cs = {c}
  <2>1. PICK c \in cs : TRUE
    BY <1>4
  <2>2. cs = {c}
    BY <1>3, <1>5, <2>1, OnlyMember
  <2>3. QED
    BY <2>2
<1>7. c \in DOMAIN doc
  BY <1>2
<1>8. \A x \in TypeEvidence(doc, e, c) : x \in ev
  BY <1>6 DEF types
<1>9. \A x \in TypeEvidence(doc, e, c) : x.required => x.result = "match"
  BY <1>4, <1>8
<1> DEFINE refs == {r \in ReferencesOf(doc, c) : r.type}
           of(r) == ReferredType(doc, e, Resolve(doc, r, c))
<1>10. TypeEvidence(doc, e, c) = IF refs = {} THEN {Found("missing")} ELSE UNION {of(r) : r \in refs}
  BY Zenon DEF TypeEvidence
<1> HIDE DEF refs, of
<1>11. refs # {}
  <2>1. SUFFICES ASSUME refs = {} PROVE FALSE
    OBVIOUS
  <2>2. Found("missing") \in TypeEvidence(doc, e, c)
    BY <1>10, <2>1
  <2>3. QED
    BY <1>9, <2>2 DEF Found, Evidence
<1>12. \A r \in refs : \A x \in of(r) : x.required => x.result = "match"
  BY <1>9, <1>10
<1>13. ASSUME NEW r \in refs
       PROVE  \E t \in DOMAIN doc : /\ Resolve(doc, r, c).targets = {t}
                                    /\ \A x \in CompareTypes(doc, e.datatype, t) : x.result = "match"
  <2> DEFINE found == Resolve(doc, r, c)
  <2>1. /\ found.state \in {"resolved", "ambiguous", "missing"}
        /\ found.state = "resolved" =>
             \E t \in DOMAIN doc : found.targets = {t} /\ (CHOOSE u \in found.targets : TRUE) = t
    BY ResolutionIs
  <2>2. found.state = "resolved"
    <3>1. SUFFICES ASSUME found.state # "resolved" PROVE FALSE
      OBVIOUS
    <3>2. of(r) = {Found(ReferenceResult(found))}
      BY Zenon, <3>1 DEF of, ReferredType
    <3>3. ReferenceResult(found) # "match"
      BY <2>1, <3>1 DEF ReferenceResult
    <3>4. Found(ReferenceResult(found)) \in of(r)
      BY <3>2
    <3>5. Found(ReferenceResult(found)).required /\ Found(ReferenceResult(found)).result = ReferenceResult(found)
      BY DEF Found, Evidence
    <3>6. QED
      BY <1>12, <3>3, <3>4, <3>5
  <2>3. PICK t \in DOMAIN doc : found.targets = {t} /\ (CHOOSE u \in found.targets : TRUE) = t
    BY <2>1, <2>2
  <2>4. of(r) = CompareTypes(doc, e.datatype, CHOOSE u \in found.targets : TRUE)
    BY Zenon, <2>2 DEF of, ReferredType
  <2>5. of(r) = CompareTypes(doc, e.datatype, t)
    BY Zenon, <2>3, <2>4
  <2>6. \A x \in CompareTypes(doc, e.datatype, t) : x.required
    <3>1. \A y : Found(y).required
      BY DEF Found, Evidence
    <3>2. \A left, kinds : \A x \in CompareKinds(left, kinds) : \E y : x = Found(y)
      BY Zenon DEF CompareKinds
    <3>3. QED
      BY <3>1, <3>2 DEF CompareTypes
  <2>7. QED
    BY <1>12, <2>3, <2>5, <2>6
<1>14. QED
  BY <1>1, <1>6, <1>7, <1>11, <1>13 DEF refs

LEMMA TypesAlwaysFound ==
  ASSUME NEW doc, ArxmlDoc(doc), NEW e, DatatypeShape(e.datatype)
  PROVE  TypesFound(doc, e)
<1> DEFINE row == DatatypeRow(doc, e)
           fits(t, p) == TypeFits(doc, e.datatype, t, p, TypeAt(doc, t, p))
<1>1. SUFFICES ASSUME row.status = "Mapped"
               PROVE  \E c \in row.elements :
                        /\ row.elements = {c} /\ \E r \in ReferencesOf(doc, c) : r.type
                        /\ \A r \in ReferencesOf(doc, c) : r.type =>
                             \E t \in DOMAIN doc : /\ Resolve(doc, r, c).targets = {t}
                                                  /\ \A p \in DOMAIN e.datatype : fits(t, p)
  BY Zenon DEF TypesFound
<1>2. PICK c \in DOMAIN doc :
        /\ row.elements = {c} /\ \E r \in ReferencesOf(doc, c) : r.type
        /\ \A r \in ReferencesOf(doc, c) : r.type =>
             \E t \in DOMAIN doc : /\ Resolve(doc, r, c).targets = {t}
                                  /\ \A x \in CompareTypes(doc, e.datatype, t) : x.result = "match"
  BY <1>1, MappedTypes
<1>3. 0 \notin DOMAIN doc
  BY TreeFinite
<1>4. ASSUME NEW r \in ReferencesOf(doc, c), r.type
      PROVE  \E t \in DOMAIN doc : /\ Resolve(doc, r, c).targets = {t}
                                   /\ \A p \in DOMAIN e.datatype : fits(t, p)
  <2>1. PICK t \in DOMAIN doc : /\ Resolve(doc, r, c).targets = {t}
                                /\ \A x \in CompareTypes(doc, e.datatype, t) : x.result = "match"
    BY <1>2, <1>4
  <2>2. \A p \in DOMAIN e.datatype : TypeMatches(doc, e.datatype, t, p)
    BY <2>1, MatchesAreTypes
  <2>3. \A p \in DOMAIN e.datatype : p \in Seq(Nat)
    BY DEF DatatypeShape
  <2>4. \A p \in DOMAIN e.datatype : fits(t, p)
    BY <1>3, <2>2, <2>3, MatchesFit
  <2> HIDE DEF fits
  <2>5. QED
    BY <2>1, <2>4
<1> HIDE DEF fits, row
<1>5. QED
  BY <1>2, <1>4

LEMMA BuiltShape ==
  ASSUME NEW top, top \notin {"absent", "cycle", "ambiguous", "missing"},
         NEW children, DOMAIN children \subseteq Nat, \A k \in DOMAIN children : DatatypeShape(children[k])
  PROVE  DatatypeShape(Datatype(top, children))
<1> DEFINE below == UNION {{<<k>> \o q : q \in DOMAIN children[k]} : k \in DOMAIN children}
           d     == Datatype(top, children)
<1>1. /\ DOMAIN d = {<< >>} \cup below
      /\ \A p \in DOMAIN d : d[p] = IF p = << >> THEN top ELSE children[Head(p)][Tail(p)]
  BY DEF Datatype
<1> HIDE DEF d
<1>2. ASSUME NEW k \in DOMAIN children, NEW q \in DOMAIN children[k]
      PROVE  LET p == <<k>> \o q IN
             /\ p \in Seq(Nat) /\ p # << >> /\ p \in below /\ Front(p) \in DOMAIN d
             /\ d[p] \notin {"absent", "cycle", "ambiguous", "missing"}
  <2> DEFINE p == <<k>> \o q
  <2>1. q \in Seq(Nat) /\ <<k>> \in Seq(Nat) /\ DatatypeShape(children[k])
    BY DEF DatatypeShape
  <2>2. /\ p \in Seq(Nat) /\ Len(p) = Len(q) + 1 /\ p[1] = k
        /\ \A n \in 1..Len(q) : p[n + 1] = q[n]
    BY <2>1
  <2>3. Len(q) \in Nat /\ p # << >>
    BY <2>1, <2>2
  <2>4. p \in below
    OBVIOUS
  <2>5. Head(p) = k /\ Tail(p) = q
    <3>1. Tail(p) \in Seq(Nat) /\ Len(Tail(p)) = Len(q) /\ \A n \in 1..Len(q) : Tail(p)[n] = p[n + 1]
      BY <2>2, <2>3
    <3> HIDE DEF p
    <3>2. Tail(p) = q
      <4>1. \A n \in 1..Len(Tail(p)) : Tail(p)[n] = q[n]
        BY <2>2, <3>1
      <4>2. QED
        BY <2>1, <3>1, <4>1, SeqEqual, Zenon
    <3>3. QED
      BY <2>2, <2>3, <3>2
  <2>6. d[p] = children[k][q]
    BY <1>1, <2>3, <2>4, <2>5
  <2>7. children[k][q] \notin {"absent", "cycle", "ambiguous", "missing"}
    BY <2>1 DEF DatatypeShape
  <2>8. Front(p) \in DOMAIN d
    <3>1. /\ Front(p) \in Seq(Nat) /\ Len(Front(p)) = Len(q)
          /\ \A n \in 1..Len(q) : Front(p)[n] = p[n]
      <4>1. p \in Seq(Nat) /\ p # << >> /\ Len(p) - 1 = Len(q)
        BY <2>2, <2>3
      <4> HIDE DEF p
      <4>2. /\ Front(p) \in Seq(Nat) /\ Len(Front(p)) = Len(p) - 1
            /\ \A n \in 1..Len(p) - 1 : Front(p)[n] = p[n]
        BY <4>1, FrontIs
      <4>3. QED
        BY <4>1, <4>2
    <3>2. CASE q = << >>
      <4>1. Front(p) = << >>
        BY <3>1, <3>2
      <4>2. QED
        BY <1>1, <4>1
    <3>3. CASE q # << >>
      <4> DEFINE r == Front(q)
      <4>1. /\ Len(q) \in Nat \ {0} /\ r \in Seq(Nat) /\ Len(r) = Len(q) - 1
            /\ \A n \in 1..Len(q) - 1 : r[n] = q[n]
        BY <2>1, <3>3, FrontIs
      <4>2. r \in DOMAIN children[k]
        BY <2>1, <3>3 DEF DatatypeShape
      <4>3. <<k>> \o r \in below
        BY <4>2
      <4> HIDE DEF p, r
      <4>4. /\ <<k>> \o r \in Seq(Nat) /\ Len(<<k>> \o r) = Len(q) /\ (<<k>> \o r)[1] = k
            /\ \A n \in 1..Len(q) - 1 : (<<k>> \o r)[n + 1] = q[n]
        BY <2>1, <4>1
      <4>5. \A n \in 1..Len(q) : Front(p)[n] = (<<k>> \o r)[n]
        <5>1. TAKE n \in 1..Len(q)
        <5>2. Front(p)[n] = p[n]
          BY <3>1
        <5>3. CASE n = 1
          BY <2>2, <4>4, <5>2, <5>3
        <5>4. CASE n # 1
          <6>1. n - 1 \in 1..Len(q) - 1 /\ n - 1 \in 1..Len(q) /\ n = (n - 1) + 1
            BY <2>3, <5>4
          <6>2. p[n] = q[n - 1] /\ (<<k>> \o r)[n] = q[n - 1]
            BY <2>2, <4>4, <6>1
          <6>3. QED
            BY <5>2, <6>2
        <5>5. QED
          BY <5>3, <5>4
      <4>6. Front(p) = <<k>> \o r
        <5> DEFINE f == Front(p)
                   g == <<k>> \o r
        <5>1. f \in Seq(Nat) /\ g \in Seq(Nat) /\ Len(f) = Len(g) /\ \A n \in 1..Len(f) : f[n] = g[n]
          BY <3>1, <4>4, <4>5
        <5> HIDE DEF f, g
        <5>2. f = g
          BY <5>1, SeqEqual, Zenon
        <5>3. QED
          BY <5>2 DEF f, g
      <4>7. QED
        BY <1>1, <4>3, <4>6
    <3>4. QED
      BY <3>2, <3>3
  <2>9. QED
    BY <2>2, <2>3, <2>4, <2>6, <2>7, <2>8
<1>3. d[<< >>] = top /\ << >> \in DOMAIN d
  BY <1>1
<1>4. \A p \in below : /\ p \in Seq(Nat) /\ Front(p) \in DOMAIN d
                       /\ d[p] \notin {"absent", "cycle", "ambiguous", "missing"}
  <2>1. TAKE p \in below
  <2>2. PICK k \in DOMAIN children : \E q \in DOMAIN children[k] : p = <<k>> \o q
    OBVIOUS
  <2>3. PICK q \in DOMAIN children[k] : p = <<k>> \o q
    BY <2>2
  <2> HIDE DEF below
  <2>4. QED
    BY <1>2, <2>3
<1> HIDE DEF below
<1>5. << >> \in Seq(Nat)
  OBVIOUS
<1>6. DatatypeShape(d)
  BY <1>1, <1>3, <1>4, <1>5 DEF DatatypeShape
<1>7. QED
  BY <1>6 DEF d

LEMMA TypesWritten ==
  ASSUME RuleInv, kind = "datatype", items # << >>
  PROVE  ArxmlDoc(TreeOf(SubSeq(Base, 1, 2), TypeNodes)) /\ DatatypeShape(items[1].datatype)
<1> DEFINE base    == SubSeq(Base, 1, 2)
           doc     == TreeOf(base, TypeNodes)
           all     == base \o TypeNodes
           written == DOMAIN base \cup {Len(base) + n : n \in ToSet(Written)}
<1>1. Doc(TypeHeads, DOMAIN TypeNodes)
  BY DEF RuleInv
<1>2. Written \in Seq(DOMAIN TypeNodes)
  BY <1>1, DocIsSeq
<1>3. base = <<Package("P"), Package("Q")>>
  <2>1. Len(Base) = 5 /\ Base[1] = Package("P") /\ Base[2] = Package("Q")
    BY DEF Base
  <2>2. base = [n \in 1..2 |-> Base[n]]
    OBVIOUS
  <2> HIDE DEF base
  <2>3. Len(<<Package("P"), Package("Q")>>) = 2
    OBVIOUS
  <2>4. <<Package("P"), Package("Q")>> = [n \in 1..2 |-> Base[n]]
    BY <2>1
  <2>5. QED
    BY <2>2, <2>4
<1>4. Len(base) = 2 /\ DOMAIN base = 1..2 /\ DOMAIN TypeNodes = 1..9 /\ Len(TypeNodes) = 9
  BY <1>3 DEF TypeNodes
<1>5. \A i \in 1..2 : base[i].parent = 0
  <2> HIDE DEF base
  <2>1. base[1] = Package("P") /\ base[2] = Package("Q")
    BY <1>3
  <2>2. Package("P").parent = 0 /\ Package("Q").parent = 0
    BY DEF Package, Arx
  <2>3. QED
    BY <2>1, <2>2
<1>6. \A i \in 1..9 : TypeNodes[i].parent \in 1..2
  BY DEF TypeNodes, Arx
<1>7. /\ DOMAIN doc = {i \in written : all[i].parent \in written \cup {0}} /\ \A i \in DOMAIN doc : doc[i] = all[i]
      /\ doc = [n \in DOMAIN doc |-> doc[n]]
  BY DEF TreeOf
<1>8. \A n \in ToSet(Written) : n \in 1..9
  BY <1>2, <1>4, MemberOfSeq
<1> HIDE DEF base, doc
<1>9. \A i \in 1..2 : all[i] = base[i]
  BY <1>3, <1>4 DEF TypeNodes
<1>10. \A i \in 1..9 : all[2 + i] = TypeNodes[i]
  BY <1>3, <1>4 DEF TypeNodes
<1> HIDE DEF all
<1>11. written \subseteq 1..11 /\ 1..2 \subseteq written
  BY <1>4, <1>8
<1>12. \A i \in written : i \in 1..2 \/ (i - 2 \in 1..9 /\ i = 2 + (i - 2))
  BY <1>4, <1>8
<1> HIDE DEF written
<1>13. \A j \in 1..2 : j \in DOMAIN doc
  BY <1>5, <1>7, <1>9, <1>11
<1>14. ASSUME NEW i \in DOMAIN doc
       PROVE  doc[i].parent = 0 \/ (doc[i].parent \in DOMAIN doc /\ doc[i].parent < i)
  <2>1. i \in written /\ doc[i] = all[i]
    BY <1>7
  <2>2. CASE i \in 1..2
    BY <1>5, <1>9, <2>1, <2>2
  <2>3. CASE i - 2 \in 1..9 /\ i = 2 + (i - 2)
    <3>1. all[i] = TypeNodes[i - 2]
      BY <1>10, <2>3
    <3>2. all[i].parent \in 1..2
      BY <1>6, <2>3, <3>1
    <3>3. all[i].parent < i
      BY <2>3, <3>2
    <3>4. QED
      BY <1>13, <2>1, <3>2, <3>3
  <2>4. QED
    BY <1>12, <2>1, <2>2, <2>3
<1>15. \E m \in Nat : DOMAIN doc \subseteq 1..m
  <2>1. DOMAIN doc \subseteq 1..11
    BY <1>7, <1>11
  <2>2. QED
    BY <2>1
<1>16. ArxmlDoc(doc)
  BY <1>7, <1>14, <1>15 DEF ArxmlDoc
<1>17. items[1] \in TypeHeads
  BY <1>1 DEF Doc
<1>18. \A name \in {"uint8", "uint16"} : DatatypeShape(Plainly(name))
  <2>1. TAKE name \in {"uint8", "uint16"}
  <2>2. DOMAIN << >> = {}
    OBVIOUS
  <2>3. name \notin {"absent", "cycle", "ambiguous", "missing"}
    OBVIOUS
  <2>4. QED
    BY <2>2, <2>3, BuiltShape DEF Plainly
<1> DEFINE u8  == Plainly("uint8")
           u16 == Plainly("uint16")
<1>19. DatatypeShape(u8) /\ DatatypeShape(u16)
  BY <1>18
<1> HIDE DEF u8, u16
<1>20. ASSUME NEW t, DatatypeShape(t)
       PROVE  DatatypeShape(Struct(<<t>>)) /\ DatatypeShape(Datatype("array", <<t>>))
  <2> DEFINE children == <<t>>
  <2>1. DOMAIN children \subseteq Nat /\ \A k \in DOMAIN children : children[k] = t
    OBVIOUS
  <2>2. \A k \in DOMAIN children : DatatypeShape(children[k])
    BY <1>20, <2>1
  <2> HIDE DEF children
  <2>3. \A top \in {"struct", "array"} : DatatypeShape(Datatype(top, children))
    BY <2>1, <2>2, BuiltShape
  <2>4. QED
    BY <2>3 DEF Struct, children
<1>21. DatatypeShape(Struct(<<u16, u8>>))
  <2> DEFINE children == <<u16, u8>>
  <2>1. DOMAIN children \subseteq Nat /\ \A k \in DOMAIN children : children[k] = u16 \/ children[k] = u8
    OBVIOUS
  <2>2. \A k \in DOMAIN children : DatatypeShape(children[k])
    BY <1>19, <2>1
  <2> HIDE DEF children
  <2>3. DatatypeShape(Datatype("struct", children))
    BY <2>1, <2>2, BuiltShape
  <2>4. QED
    BY <2>3 DEF Struct, children
<1> DEFINE types == {u8, Struct(<<u16, u8>>), Struct(<<u16>>), Struct(<<Struct(<<u8>>)>>), Struct(<<Datatype("array", <<u8>>)>>)}
<1>22. \A t \in types : DatatypeShape(t)
  BY <1>19, <1>20, <1>21
<1>23. TypeHeads = {Parameter(t) : t \in types}
  BY Zenon DEF TypeHeads, u8, u16
<1> HIDE DEF types
<1>24. PICK t \in types : items[1] = Parameter(t)
  BY <1>17, <1>23
<1>25. items[1].datatype = t
  BY <1>24 DEF Parameter
<1>26. QED
  BY <1>16, <1>22, <1>25 DEF doc, base

\* For documents of any size and datatypes of any depth: a mapped parameter has
\* one prototype of its name, which refers to a type, and every type that it
\* refers to is unambiguous and has a type of the same kind at every position
\* of the datatype, none of them below itself (_resolve_datatype,
\* compare_datatypes).
THEOREM DatatypesAreFound ==
  /\ \A doc, e : ArxmlDoc(doc) /\ DatatypeShape(e.datatype) => TypesFound(doc, e)
  /\ RuleSpec => []DatatypesFound
<1>1. \A doc, e : ArxmlDoc(doc) /\ DatatypeShape(e.datatype) => TypesFound(doc, e)
  BY TypesAlwaysFound
<1>2. RuleInv => DatatypesFound
  BY TypesWritten, TypesAlwaysFound DEF DatatypesFound
<1>3. QED
  BY <1>1, <1>2, InvHolds, PTL

-----------------------------------------------------------------------------
(* The schema of the workspaces that are saved.                            *)

FileTypeNames == {"Root", "Topology", "ECU", "Controller", "CANInterface", "Named", "Plain"}

FileRank ==
  [t \in FileTypeNames |-> CASE t = "Root" -> 4 [] t = "ECU" -> 3 [] t \in {"Controller", "Topology"} -> 2 [] OTHER -> 1]

FileNames == NameParts(FileTypes, FileOrder)

LEMMA FileTypesAre ==
  /\ DOMAIN FileTypes = FileTypeNames
  /\ FileTypes["Root"] = ModelType("none", <<External("ecus", "ecus", "folder", TRUE, "ECU", FALSE),
                                             External("topology", "topology", "folder", FALSE, "Topology", FALSE),
                                             External("metadata", "system_metadata", "whole", FALSE, "Plain", FALSE)>>)
  /\ FileTypes["Topology"] = ModelType("none", <<External("system_topology", "system_topology", "whole", FALSE, "Plain", FALSE)>>)
  /\ FileTypes["ECU"] = ModelType("folder", <<External("ports", "ports", "named", TRUE, "Named", FALSE),
                                              External("controllers", "controllers", "folder", TRUE, "Controller", FALSE),
                                              External("switches", "switches", "folder", TRUE, "Named", TRUE)>>)
  /\ FileTypes["Controller"] =
       ModelType("folder", <<External("controller_metadata", "controller_metadata", "named", FALSE, "Plain", FALSE),
                             External("can_interfaces", "can_interfaces", "folder", TRUE, "CANInterface", TRUE),
                             External("virtual_switch", "virtual_switch", "whole", FALSE, "Plain", TRUE)>>)
  /\ FileTypes["CANInterface"] = ModelType("file", << >>)
  /\ FileTypes["Named"] = ModelType("none", << >>)
  /\ FileTypes["Plain"] = ModelType("none", << >>)
BY DEF FileTypes, FileTypeNames

LEMMA FileLevels == Levels(FileTypes) \in Nat /\ Levels(FileTypes) >= 4
<1>1. IsFiniteSet({}) /\ Cardinality({}) = 0
  BY FS_EmptySet
<1>2. IsFiniteSet({} \cup {"Root"}) /\ Cardinality({} \cup {"Root"}) = 1
  BY <1>1, FS_AddElement
<1>3. IsFiniteSet(({} \cup {"Root"}) \cup {"ECU"}) /\ Cardinality(({} \cup {"Root"}) \cup {"ECU"}) = 2
  <2>1. "ECU" \notin {} \cup {"Root"}
    OBVIOUS
  <2>2. QED
    BY <1>2, <2>1, FS_AddElement
<1>4. IsFiniteSet({"Root", "ECU"}) /\ Cardinality({"Root", "ECU"}) = 2
  <2>1. {"Root", "ECU"} = ({} \cup {"Root"}) \cup {"ECU"}
    OBVIOUS
  <2>2. QED
    BY <1>3, <2>1
<1>5. IsFiniteSet({"Root", "ECU"} \cup {"Controller"}) /\ Cardinality({"Root", "ECU"} \cup {"Controller"}) = 3
  <2>1. "Controller" \notin {"Root", "ECU"}
    OBVIOUS
  <2>2. QED
    BY <1>4, <2>1, FS_AddElement
<1> DEFINE three == {"Root", "ECU"} \cup {"Controller"}
<1>6. IsFiniteSet(three \cup {"Plain"}) /\ Cardinality(three \cup {"Plain"}) = 4
  <2>1. "Plain" \notin three
    OBVIOUS
  <2>2. IsFiniteSet(three) /\ Cardinality(three) = 3
    BY <1>5
  <2> HIDE DEF three
  <2>3. QED
    BY <2>1, <2>2, FS_AddElement
<1> DEFINE four == three \cup {"Plain"}
<1>7. IsFiniteSet(four \cup {"Topology"})
  BY <1>6, FS_AddElement
<1>8. IsFiniteSet((four \cup {"Topology"}) \cup {"CANInterface"})
  BY <1>7, FS_AddElement
<1>9. IsFiniteSet(((four \cup {"Topology"}) \cup {"CANInterface"}) \cup {"Named"})
  BY <1>8, FS_AddElement
<1>10. FileTypeNames = ((four \cup {"Topology"}) \cup {"CANInterface"}) \cup {"Named"}
  BY DEF FileTypeNames
<1>11. IsFiniteSet(FileTypeNames) /\ four \in SUBSET FileTypeNames
  BY <1>9, <1>10
<1>12. Cardinality(FileTypeNames) \in Nat /\ Cardinality(four) <= Cardinality(FileTypeNames)
  BY <1>11, FS_CardinalityType, FS_Subset
<1>13. Cardinality(four) = 4
  BY <1>6
<1> HIDE DEF four
<1>14. QED
  BY <1>12, <1>13, FileTypesAre DEF Levels

\* The fields that files can have.
FieldKind(f, type) ==
  \/ f.style = "folder" /\ f.list /\ type.fields # << >> /\ type.implied = "folder"
  \/ f.style = "folder" /\ ~f.list /\ type.fields # << >> /\ type.implied = "none"
  \/ f.style = "folder" /\ f.list /\ type.fields = << >> /\ type.implied \in {"file", "none"}
  \/ f.style = "named" /\ type.fields = << >> /\ type.implied = "none"
  \/ f.style = "whole" /\ ~f.list /\ type.fields = << >> /\ type.implied = "none"

IsFileField(f) ==
  /\ f.list \in BOOLEAN /\ f.optional \in BOOLEAN /\ f.path \in FileNames /\ f.path # Yaml /\ f.name # NoRoot
  /\ f.of \in DOMAIN FileTypes /\ FieldKind(f, FileTypes[f.of])

LEMMA FileFieldIs ==
  ASSUME NEW f, IsFileField(f)
  PROVE  IsField(FileNames, FileTypes, f)
<1> DEFINE u == FileTypes[f.of]
<1> HIDE DEF u
<1>1. CASE f.style = "folder" /\ f.list /\ u.fields # << >> /\ u.implied = "folder"
  BY <1>1 DEF IsFileField, IsField, u
<1>2. CASE f.style = "folder" /\ ~f.list /\ u.fields # << >> /\ u.implied = "none"
  BY <1>2 DEF IsFileField, IsField, u
<1>3. CASE f.style = "folder" /\ f.list /\ u.fields = << >> /\ u.implied \in {"file", "none"}
  BY <1>3 DEF IsFileField, IsField, u
<1>4. CASE f.style = "named" /\ u.fields = << >> /\ u.implied = "none"
  BY <1>4 DEF IsFileField, IsField, u
<1>5. CASE f.style = "whole" /\ ~f.list /\ u.fields = << >> /\ u.implied = "none"
  BY <1>5 DEF IsFileField, IsField, u
<1>6. \/ f.style = "folder" /\ f.list /\ u.fields # << >> /\ u.implied = "folder"
      \/ f.style = "folder" /\ ~f.list /\ u.fields # << >> /\ u.implied = "none"
      \/ f.style = "folder" /\ f.list /\ u.fields = << >> /\ u.implied \in {"file", "none"}
      \/ f.style = "named" /\ u.fields = << >> /\ u.implied = "none"
      \/ f.style = "whole" /\ ~f.list /\ u.fields = << >> /\ u.implied = "none"
  BY DEF IsFileField, FieldKind, u
<1>7. QED
  BY <1>1, <1>2, <1>3, <1>4, <1>5, <1>6

LEMMA FileNamesAre ==
  FileNames = {Yaml} \cup (UNION {ToSet(n) : n \in ToSet(FileOrder)})
                \cup (UNION {{f.path : f \in ToSet(FileTypes[t].fields)} : t \in DOMAIN FileTypes})
BY DEF FileNames, NameParts

LEMMA PathsAreNames ==
  ASSUME NEW u \in DOMAIN FileTypes, NEW x \in ToSet(FileTypes[u].fields)
  PROVE  x.path \in FileNames
<1> DEFINE paths == UNION {{f.path : f \in ToSet(FileTypes[t].fields)} : t \in DOMAIN FileTypes}
           names == UNION {ToSet(n) : n \in ToSet(FileOrder)}
<1>1. x.path \in paths
  OBVIOUS
<1>2. FileNames = {Yaml} \cup names \cup paths
  BY FileNamesAre, Zenon
<1> HIDE DEF names, paths
<1>3. QED
  BY <1>1, <1>2

LEMMA FileFields ==
  ASSUME NEW t \in FileTypeNames
  PROVE  /\ IsList(FileTypes[t].fields) /\ FieldsDiffer(FileTypes[t].fields)
         /\ FileTypes[t].fields # << >> =>
              (\E k \in DOMAIN FileTypes[t].fields : ~FileTypes[t].fields[k].optional)
         /\ \A k \in DOMAIN FileTypes[t].fields :
              /\ FileTypes[t].fields[k].path \in FileNames
              /\ FileRank[FileTypes[t].fields[k].of] < FileRank[t]
              /\ IsField(FileNames, FileTypes, FileTypes[t].fields[k])
<1> DEFINE fs == FileTypes[t].fields
<1>1. \A k \in DOMAIN fs : fs[k].path \in FileNames
  <2>1. TAKE k \in DOMAIN fs
  <2>2. fs[k] \in ToSet(fs)
    BY DEF ToSet
  <2>3. t \in DOMAIN FileTypes
    BY FileTypesAre
  <2>4. QED
    BY <2>2, <2>3, PathsAreNames
<1>2. FileTypes["Root"].fields # << >> /\ FileTypes["Topology"].fields # << >> /\ FileTypes["ECU"].fields # << >>
      /\ FileTypes["Controller"].fields # << >> /\ FileTypes["CANInterface"].fields = << >>
      /\ FileTypes["Named"].fields = << >> /\ FileTypes["Plain"].fields = << >>
  BY FileTypesAre DEF ModelType
<1>3. FileTypes["Root"].implied = "none" /\ FileTypes["Topology"].implied = "none" /\ FileTypes["ECU"].implied = "folder"
      /\ FileTypes["Controller"].implied = "folder" /\ FileTypes["CANInterface"].implied = "file"
      /\ FileTypes["Named"].implied = "none" /\ FileTypes["Plain"].implied = "none"
  BY FileTypesAre DEF ModelType
<1>4. FileRank["Root"] = 4 /\ FileRank["ECU"] = 3 /\ FileRank["Controller"] = 2 /\ FileRank["Topology"] = 2
      /\ FileRank["CANInterface"] = 1 /\ FileRank["Named"] = 1 /\ FileRank["Plain"] = 1
  BY DEF FileRank, FileTypeNames
<1>5. ASSUME NEW n \in Nat, NEW s, s = [k \in 1..n |-> s[k]]
      PROVE  IsList(s) /\ DOMAIN s = 1..n
  BY <1>5, ListFrom
<1>0. \A i, f : ModelType(i, f).fields = f
  BY DEF ModelType
<1>6. CASE t = "Root"
  <2> DEFINE f1 == External("ecus", "ecus", "folder", TRUE, "ECU", FALSE)
             f2 == External("topology", "topology", "folder", FALSE, "Topology", FALSE)
             f3 == External("metadata", "system_metadata", "whole", FALSE, "Plain", FALSE)
  <2>1. fs = <<f1, f2, f3>>
    BY <1>0, <1>6, FileTypesAre
  <2>2. /\ f1.path = "ecus" /\ f1.name = "ecus" /\ f1.style = "folder" /\ f1.list = TRUE /\ f1.of = "ECU" /\ f1.optional = FALSE
        /\ f2.path = "topology" /\ f2.name = "topology" /\ f2.style = "folder" /\ f2.list = FALSE /\ f2.of = "Topology" /\ f2.optional = FALSE
        /\ f3.path = "system_metadata" /\ f3.name = "metadata" /\ f3.style = "whole" /\ f3.list = FALSE /\ f3.of = "Plain" /\ f3.optional = FALSE
    BY DEF External
  <2> HIDE DEF f1, f2, f3, fs
  <2>3. DOMAIN fs = 1..3 /\ fs[1] = f1 /\ fs[2] = f2 /\ fs[3] = f3 /\ fs # << >>
    BY <2>1
  <2>4. fs = [k \in 1..3 |-> fs[k]]
    BY <2>1
  <2>5. IsList(fs)
    BY <1>5, <2>4
  <2>6. \A k \in DOMAIN fs : k = 1 \/ k = 2 \/ k = 3
    BY <2>3
  <2>7. FieldsDiffer(fs)
    BY <2>2, <2>3, <2>6 DEF FieldsDiffer
  <2>8. \A k \in DOMAIN fs : FileRank[fs[k].of] < FileRank[t]
    BY <1>4, <1>6, <2>2, <2>3, <2>6
  <2>9. \A k \in DOMAIN fs : IsField(FileNames, FileTypes, fs[k])
    <3>1. \A k \in DOMAIN fs : fs[k].path # Yaml /\ fs[k].name # NoRoot /\ fs[k].of \in DOMAIN FileTypes
      BY <2>2, <2>3, <2>6, FileTypesAre DEF Yaml, NoRoot, FileTypeNames
    <3>2. IsField(FileNames, FileTypes, f1)
      <4>1. FieldKind(f1, FileTypes[f1.of])
        BY <1>2, <1>3, <2>2 DEF FieldKind
      <4>2. f1.path \in FileNames /\ f1.path # Yaml /\ f1.name # NoRoot /\ f1.of \in DOMAIN FileTypes
        BY <1>1, <2>3, <3>1
      <4>3. IsFileField(f1)
        BY <2>2, <4>1, <4>2 DEF IsFileField
      <4>4. QED
        BY <4>3, FileFieldIs
    <3>3. IsField(FileNames, FileTypes, f2)
      <4>1. FieldKind(f2, FileTypes[f2.of])
        BY <1>2, <1>3, <2>2 DEF FieldKind
      <4>2. f2.path \in FileNames /\ f2.path # Yaml /\ f2.name # NoRoot /\ f2.of \in DOMAIN FileTypes
        BY <1>1, <2>3, <3>1
      <4>3. IsFileField(f2)
        BY <2>2, <4>1, <4>2 DEF IsFileField
      <4>4. QED
        BY <4>3, FileFieldIs
    <3>4. IsField(FileNames, FileTypes, f3)
      <4>1. FieldKind(f3, FileTypes[f3.of])
        BY <1>2, <1>3, <2>2 DEF FieldKind
      <4>2. f3.path \in FileNames /\ f3.path # Yaml /\ f3.name # NoRoot /\ f3.of \in DOMAIN FileTypes
        BY <1>1, <2>3, <3>1
      <4>3. IsFileField(f3)
        BY <2>2, <4>1, <4>2 DEF IsFileField
      <4>4. QED
        BY <4>3, FileFieldIs
    <3>5. QED
      BY <2>3, <2>6, <3>2, <3>3, <3>4
  <2>10. QED
    BY <1>1, <2>2, <2>3, <2>5, <2>7, <2>8, <2>9 DEF fs
<1>7. CASE t = "Topology"
  <2> DEFINE f1 == External("system_topology", "system_topology", "whole", FALSE, "Plain", FALSE)
  <2>1. fs = <<f1>>
    BY <1>0, <1>7, FileTypesAre
  <2>2. f1.path = "system_topology" /\ f1.name = "system_topology" /\ f1.style = "whole" /\ f1.list = FALSE /\ f1.of = "Plain" /\ f1.optional = FALSE
    BY DEF External
  <2> HIDE DEF f1, fs
  <2>3. DOMAIN fs = 1..1 /\ fs[1] = f1 /\ fs # << >>
    BY <2>1
  <2>4. fs = [k \in 1..1 |-> fs[k]]
    BY <2>1
  <2>5. IsList(fs)
    BY <1>5, <2>4
  <2>6. \A k \in DOMAIN fs : k = 1
    BY <2>3
  <2>7. FieldsDiffer(fs)
    BY <2>2, <2>3, <2>6 DEF FieldsDiffer
  <2>8. \A k \in DOMAIN fs : FileRank[fs[k].of] < FileRank[t]
    BY <1>4, <1>7, <2>2, <2>3, <2>6
  <2>9. \A k \in DOMAIN fs : IsField(FileNames, FileTypes, fs[k])
    <3>1. \A k \in DOMAIN fs : fs[k].path # Yaml /\ fs[k].name # NoRoot /\ fs[k].of \in DOMAIN FileTypes
      BY <2>2, <2>3, <2>6, FileTypesAre DEF Yaml, NoRoot, FileTypeNames
    <3>2. IsField(FileNames, FileTypes, f1)
      <4>1. FieldKind(f1, FileTypes[f1.of])
        BY <1>2, <1>3, <2>2 DEF FieldKind
      <4>2. f1.path \in FileNames /\ f1.path # Yaml /\ f1.name # NoRoot /\ f1.of \in DOMAIN FileTypes
        BY <1>1, <2>3, <3>1
      <4>3. IsFileField(f1)
        BY <2>2, <4>1, <4>2 DEF IsFileField
      <4>4. QED
        BY <4>3, FileFieldIs
    <3>3. QED
      BY <2>3, <2>6, <3>2
  <2>10. QED
    BY <1>1, <2>2, <2>3, <2>5, <2>7, <2>8, <2>9 DEF fs
<1>8. CASE t = "ECU"
  <2> DEFINE f1 == External("ports", "ports", "named", TRUE, "Named", FALSE)
             f2 == External("controllers", "controllers", "folder", TRUE, "Controller", FALSE)
             f3 == External("switches", "switches", "folder", TRUE, "Named", TRUE)
  <2>1. fs = <<f1, f2, f3>>
    BY <1>0, <1>8, FileTypesAre
  <2>2. /\ f1.path = "ports" /\ f1.name = "ports" /\ f1.style = "named" /\ f1.list = TRUE /\ f1.of = "Named" /\ f1.optional = FALSE
        /\ f2.path = "controllers" /\ f2.name = "controllers" /\ f2.style = "folder" /\ f2.list = TRUE /\ f2.of = "Controller" /\ f2.optional = FALSE
        /\ f3.path = "switches" /\ f3.name = "switches" /\ f3.style = "folder" /\ f3.list = TRUE /\ f3.of = "Named" /\ f3.optional = TRUE
    BY DEF External
  <2> HIDE DEF f1, f2, f3, fs
  <2>3. DOMAIN fs = 1..3 /\ fs[1] = f1 /\ fs[2] = f2 /\ fs[3] = f3 /\ fs # << >>
    BY <2>1
  <2>4. fs = [k \in 1..3 |-> fs[k]]
    BY <2>1
  <2>5. IsList(fs)
    BY <1>5, <2>4
  <2>6. \A k \in DOMAIN fs : k = 1 \/ k = 2 \/ k = 3
    BY <2>3
  <2>7. FieldsDiffer(fs)
    BY <2>2, <2>3, <2>6 DEF FieldsDiffer
  <2>8. \A k \in DOMAIN fs : FileRank[fs[k].of] < FileRank[t]
    BY <1>4, <1>8, <2>2, <2>3, <2>6
  <2>9. \A k \in DOMAIN fs : IsField(FileNames, FileTypes, fs[k])
    <3>1. \A k \in DOMAIN fs : fs[k].path # Yaml /\ fs[k].name # NoRoot /\ fs[k].of \in DOMAIN FileTypes
      BY <2>2, <2>3, <2>6, FileTypesAre DEF Yaml, NoRoot, FileTypeNames
    <3>2. IsField(FileNames, FileTypes, f1)
      <4>1. FieldKind(f1, FileTypes[f1.of])
        BY <1>2, <1>3, <2>2 DEF FieldKind
      <4>2. f1.path \in FileNames /\ f1.path # Yaml /\ f1.name # NoRoot /\ f1.of \in DOMAIN FileTypes
        BY <1>1, <2>3, <3>1
      <4>3. IsFileField(f1)
        BY <2>2, <4>1, <4>2 DEF IsFileField
      <4>4. QED
        BY <4>3, FileFieldIs
    <3>3. IsField(FileNames, FileTypes, f2)
      <4>1. FieldKind(f2, FileTypes[f2.of])
        BY <1>2, <1>3, <2>2 DEF FieldKind
      <4>2. f2.path \in FileNames /\ f2.path # Yaml /\ f2.name # NoRoot /\ f2.of \in DOMAIN FileTypes
        BY <1>1, <2>3, <3>1
      <4>3. IsFileField(f2)
        BY <2>2, <4>1, <4>2 DEF IsFileField
      <4>4. QED
        BY <4>3, FileFieldIs
    <3>4. IsField(FileNames, FileTypes, f3)
      <4>1. FieldKind(f3, FileTypes[f3.of])
        BY <1>2, <1>3, <2>2 DEF FieldKind
      <4>2. f3.path \in FileNames /\ f3.path # Yaml /\ f3.name # NoRoot /\ f3.of \in DOMAIN FileTypes
        BY <1>1, <2>3, <3>1
      <4>3. IsFileField(f3)
        BY <2>2, <4>1, <4>2 DEF IsFileField
      <4>4. QED
        BY <4>3, FileFieldIs
    <3>5. QED
      BY <2>3, <2>6, <3>2, <3>3, <3>4
  <2>10. QED
    BY <1>1, <2>2, <2>3, <2>5, <2>7, <2>8, <2>9 DEF fs
<1>9. CASE t = "Controller"
  <2> DEFINE f1 == External("controller_metadata", "controller_metadata", "named", FALSE, "Plain", FALSE)
             f2 == External("can_interfaces", "can_interfaces", "folder", TRUE, "CANInterface", TRUE)
             f3 == External("virtual_switch", "virtual_switch", "whole", FALSE, "Plain", TRUE)
  <2>1. fs = <<f1, f2, f3>>
    BY <1>0, <1>9, FileTypesAre
  <2>2. /\ f1.path = "controller_metadata" /\ f1.name = "controller_metadata" /\ f1.style = "named" /\ f1.list = FALSE
        /\ f1.of = "Plain" /\ f1.optional = FALSE
        /\ f2.path = "can_interfaces" /\ f2.name = "can_interfaces" /\ f2.style = "folder" /\ f2.list = TRUE
        /\ f2.of = "CANInterface" /\ f2.optional = TRUE
        /\ f3.path = "virtual_switch" /\ f3.name = "virtual_switch" /\ f3.style = "whole" /\ f3.list = FALSE
        /\ f3.of = "Plain" /\ f3.optional = TRUE
    BY DEF External
  <2> HIDE DEF f1, f2, f3, fs
  <2>3. DOMAIN fs = 1..3 /\ fs[1] = f1 /\ fs[2] = f2 /\ fs[3] = f3 /\ fs # << >>
    BY <2>1
  <2>4. fs = [k \in 1..3 |-> fs[k]]
    BY <2>1
  <2>5. IsList(fs)
    BY <1>5, <2>4
  <2>6. \A k \in DOMAIN fs : k = 1 \/ k = 2 \/ k = 3
    BY <2>3
  <2>7. FieldsDiffer(fs)
    BY <2>2, <2>3, <2>6 DEF FieldsDiffer
  <2>8. \A k \in DOMAIN fs : FileRank[fs[k].of] < FileRank[t]
    BY <1>4, <1>9, <2>2, <2>3, <2>6
  <2>9. \A k \in DOMAIN fs : IsField(FileNames, FileTypes, fs[k])
    <3>1. \A k \in DOMAIN fs : fs[k].path # Yaml /\ fs[k].name # NoRoot /\ fs[k].of \in DOMAIN FileTypes
      BY <2>2, <2>3, <2>6, FileTypesAre DEF Yaml, NoRoot, FileTypeNames
    <3>2. IsField(FileNames, FileTypes, f1)
      <4>1. FieldKind(f1, FileTypes[f1.of])
        BY <1>2, <1>3, <2>2 DEF FieldKind
      <4>2. f1.path \in FileNames /\ f1.path # Yaml /\ f1.name # NoRoot /\ f1.of \in DOMAIN FileTypes
        BY <1>1, <2>3, <3>1
      <4>3. IsFileField(f1)
        BY <2>2, <4>1, <4>2 DEF IsFileField
      <4>4. QED
        BY <4>3, FileFieldIs
    <3>3. IsField(FileNames, FileTypes, f2)
      <4>1. FieldKind(f2, FileTypes[f2.of])
        BY <1>2, <1>3, <2>2 DEF FieldKind
      <4>2. f2.path \in FileNames /\ f2.path # Yaml /\ f2.name # NoRoot /\ f2.of \in DOMAIN FileTypes
        BY <1>1, <2>3, <3>1
      <4>3. IsFileField(f2)
        BY <2>2, <4>1, <4>2 DEF IsFileField
      <4>4. QED
        BY <4>3, FileFieldIs
    <3>4. IsField(FileNames, FileTypes, f3)
      <4>1. FieldKind(f3, FileTypes[f3.of])
        BY <1>2, <1>3, <2>2 DEF FieldKind
      <4>2. f3.path \in FileNames /\ f3.path # Yaml /\ f3.name # NoRoot /\ f3.of \in DOMAIN FileTypes
        BY <1>1, <2>3, <3>1
      <4>3. IsFileField(f3)
        BY <2>2, <4>1, <4>2 DEF IsFileField
      <4>4. QED
        BY <4>3, FileFieldIs
    <3>5. QED
      BY <2>3, <2>6, <3>2, <3>3, <3>4
  <2>10. QED
    BY <1>1, <2>2, <2>3, <2>5, <2>7, <2>8, <2>9 DEF fs
<1>10. CASE t \in {"CANInterface", "Named", "Plain"}
  <2>1. fs = << >>
    BY <1>2, <1>10
  <2>2. fs = [k \in 1..0 |-> fs[k]]
    BY <2>1
  <2> HIDE DEF fs
  <2>3. IsList(fs) /\ DOMAIN fs = 1..0
    BY <1>5, <2>2
  <2>4. DOMAIN fs = {}
    BY <2>3
  <2>5. QED
    BY <2>1, <2>3, <2>4 DEF fs, FieldsDiffer
<1>11. QED
  BY <1>6, <1>7, <1>8, <1>9, <1>10 DEF FileTypeNames

LEMMA FileSchemaFits ==
  /\ FileSchema(FileNames, FileTypes)
  /\ IsRank(FileTypes, FileRank)
<1>1. DOMAIN FileTypes = FileTypeNames
  BY FileTypesAre
<1>2. FileSchema(FileNames, FileTypes)
  BY <1>1, FileFields, FileLevels DEF FileSchema
<1>3. \A t \in FileTypeNames : FileRank[t] \in 1..4
  BY DEF FileRank, FileTypeNames
<1>4. \A t \in FileTypeNames : FileRank[t] \in 1..Levels(FileTypes)
  BY <1>3, FileLevels
<1>5. QED
  BY <1>1, <1>2, <1>4, FileFields DEF IsRank

LEMMA FileOrderIs == IsOrder(FileNames, FileOrder)
<1>1. \A n \in ToSet(FileOrder) : ToSet(n) \subseteq FileNames
  <2> DEFINE paths == UNION {{f.path : f \in ToSet(FileTypes[t].fields)} : t \in DOMAIN FileTypes}
             names == UNION {ToSet(n) : n \in ToSet(FileOrder)}
  <2>1. FileNames = {Yaml} \cup names \cup paths
    BY FileNamesAre, Zenon
  <2>2. \A n \in ToSet(FileOrder) : ToSet(n) \subseteq names
    OBVIOUS
  <2> HIDE DEF names, paths
  <2>3. QED
    BY <2>1, <2>2
<1> DEFINE n1 == <<"a">>
           n2 == <<"a", "b">>
           n3 == <<"b">>
           n4 == <<"c">>
           n5 == <<"p">>
<1>2. FileOrder = <<n1, n2, n3, n4, n5>>
  BY DEF FileOrder
<1>3. "a" \in ToSet(n1) /\ "a" \in ToSet(n2) /\ "b" \in ToSet(n2) /\ "b" \in ToSet(n3) /\ "c" \in ToSet(n4) /\ "p" \in ToSet(n5)
  BY DEF ToSet
<1>4. n1 # n2 /\ n1 # n3 /\ n1 # n4 /\ n1 # n5 /\ n2 # n3 /\ n2 # n4 /\ n2 # n5 /\ n3 # n4 /\ n3 # n5 /\ n4 # n5
      /\ n1 # << >> /\ n2 # << >> /\ n3 # << >> /\ n4 # << >> /\ n5 # << >>
  OBVIOUS
<1>5. "a" # Yaml /\ "b" # Yaml /\ "c" # Yaml /\ "p" # Yaml
  BY DEF Yaml
<1>6. ASSUME NEW S, "a" \in S, "b" \in S, "c" \in S, "p" \in S
      PROVE  n1 \in Seq(S) /\ n2 \in Seq(S) /\ n3 \in Seq(S) /\ n4 \in Seq(S) /\ n5 \in Seq(S)
  BY <1>6
<1> HIDE DEF n1, n2, n3, n4, n5
<1>7. DOMAIN FileOrder = 1..5 /\ Len(FileOrder) = 5 /\ FileOrder[1] = n1 /\ FileOrder[2] = n2 /\ FileOrder[3] = n3
      /\ FileOrder[4] = n4 /\ FileOrder[5] = n5
  BY <1>2
<1>8. \A k \in 1..5 : FileOrder[k] \in ToSet(FileOrder)
  BY <1>7 DEF ToSet
<1>9. "a" \in FileNames /\ "b" \in FileNames /\ "c" \in FileNames /\ "p" \in FileNames
  <2>1. n1 \in ToSet(FileOrder) /\ n3 \in ToSet(FileOrder) /\ n4 \in ToSet(FileOrder) /\ n5 \in ToSet(FileOrder)
    BY <1>7, <1>8
  <2>2. QED
    BY <1>1, <1>3, <2>1
<1> DEFINE F == Free(FileNames) \ {<< >>}
<1>10. n1 \in F /\ n2 \in F /\ n3 \in F /\ n4 \in F /\ n5 \in F
  BY <1>4, <1>5, <1>6, <1>9 DEF Free
<1> HIDE DEF F
<1>11. FileOrder \in Seq(F)
  BY <1>2, <1>10
<1>12. \A k, l \in 1..Len(FileOrder) : FileOrder[k] = FileOrder[l] => k = l
  <2>1. \A k \in 1..5 : k = 1 \/ k = 2 \/ k = 3 \/ k = 4 \/ k = 5
    OBVIOUS
  <2>2. QED
    BY <1>4, <1>7, <2>1
<1>13. QED
  BY <1>11, <1>12 DEF IsOrder, F

-----------------------------------------------------------------------------
(* The models that are saved.                                              *)

LEMMA ModelsStayIn ==
  ASSUME NEW schema, NEW v, Levels(schema) \in Nat, NEW M, v \in M, \A w \in M : Parts(w) \subseteq M
  PROVE  ModelsIn(schema, v) \subseteq M
<1> DEFINE L == Levels(schema)
           B == BelowBy(schema, v)
           D == {n \in 0..L : B[n] \subseteq M}
<1>1. B = [n \in 0..L |-> IF n = 0 THEN {v} ELSE UNION {Parts(w) : w \in B[n - 1]}]
  BY BelowUnfolds
<1>2. L \in Nat /\ ModelsIn(schema, v) = UNION {B[n] : n \in 0..L}
  BY DEF ModelsIn
<1> HIDE DEF L, B
<1>3. 0 \in D
  BY <1>1, <1>2
<1>4. ASSUME NEW n \in 1..L, n - 1 \in D PROVE n \in D
  <2>1. B[n] = UNION {Parts(w) : w \in B[n - 1]}
    <3>1. n \in 0..L /\ n # 0
      BY <1>2
    <3>2. QED
      BY <1>1, <3>1
  <2>2. B[n - 1] \subseteq M
    BY <1>4
  <2>3. QED
    BY <2>1, <2>2
<1>5. 0..L \subseteq D
  <2> HIDE DEF D
  <2>1. QED
    BY <1>2, <1>3, <1>4, UpTo
<1>6. QED
  BY <1>2, <1>5

LEMMA FileModelFrom ==
  ASSUME NEW schema, NEW v, Levels(schema) \in Nat, NEW M, v \in M, \A w \in M : Parts(w) \subseteq M /\ IsModel(schema, w)
  PROVE  FileModel(schema, v)
BY ModelsStayIn DEF FileModel

FileFacts == {<<fact, <<fact>>>> : fact \in {"author", "mdi", "bus"}}

FileItemNames == {<< >>} \cup ToSet(FileOrder)

SmallOnes(type) == {Model(type, name, own, << >>) : name \in FileItemNames, own \in SUBSET FileFacts}

Metadatas == {<< >>, Metadata}

ControllerOnes ==
  {ControllerOf(name, cans, vs) : name \in FileItemNames, cans \in Seq(SmallOnes("CANInterface")), vs \in Metadatas}

EcuOnes ==
  {EcuWith(name, ports, controllers, switches) :
     name \in FileItemNames, ports \in Seq(SmallOnes("Named")), controllers \in Seq(ControllerOnes), switches \in Seq(SmallOnes("Named"))}

TopologyOne == Model("Topology", << >>, {}, <<Metadata>>)

RootOnes == {Model("Root", << >>, {}, <<ecus, <<TopologyOne>>, meta>>) : ecus \in Seq(EcuOnes), meta \in Metadatas}

FileModels ==
  RootOnes \cup EcuOnes \cup ControllerOnes \cup {TopologyOne}
    \cup SmallOnes("CANInterface") \cup SmallOnes("Named") \cup SmallOnes("Plain")

LEMMA SmallFits ==
  ASSUME NEW type, FileTypes[type].fields = << >>, type \in FileTypeNames, NEW w \in SmallOnes(type)
  PROVE  IsModel(FileTypes, w) /\ Parts(w) = {} /\ w.type = type
<1>1. PICK name \in FileItemNames, own \in SUBSET FileFacts : w = Model(type, name, own, << >>)
  BY DEF SmallOnes
<1>2. w.type = type /\ w.name = name /\ w.own = own /\ w.parts = << >>
  BY <1>1 DEF Model
<1>3. \A x \in own : x[1] # "name"
  BY DEF FileFacts
<1>4. DOMAIN w.parts = {}
  BY <1>2
<1>5. DOMAIN FileTypes[type].fields = {}
  OBVIOUS
<1>6. w.parts = [k \in DOMAIN FileTypes[w.type].fields |-> w.parts[k]]
  BY <1>2, <1>5
<1>7. w = Model(w.type, w.name, w.own, w.parts)
  BY <1>1, <1>2
<1>8. type \in DOMAIN FileTypes
  BY FileTypesAre
<1> HIDE DEF Model
<1>9. QED
  BY <1>2, <1>3, <1>4, <1>6, <1>7, <1>8 DEF IsModel, Parts

LEMMA SeqIsList ==
  ASSUME NEW S, NEW s \in Seq(S)
  PROVE  IsList(s) /\ ToSet(s) \subseteq S
<1>1. Len(s) \in Nat /\ s = [k \in 1..Len(s) |-> s[k]]
  OBVIOUS
<1>2. ToSet(s) \subseteq S
  BY PathSet
<1>3. QED
  BY <1>1, <1>2, ListFrom

LEMMA MetadataFits ==
  ASSUME NEW ms \in Metadatas
  PROVE  ms \in Seq(SmallOnes("Plain")) /\ Len(ms) <= 1 /\ Metadata # << >>
<1>1. Small("Plain", << >>, {"author"}) \in SmallOnes("Plain")
  <2>1. {<<fact, <<fact>>>> : fact \in {"author"}} \in SUBSET FileFacts /\ << >> \in FileItemNames
    BY DEF FileFacts, FileItemNames
  <2> DEFINE own == {<<fact, <<fact>>>> : fact \in {"author"}}
  <2>2. Small("Plain", << >>, {"author"}) = Model("Plain", << >>, own, << >>)
    BY DEF Small
  <2> HIDE DEF own
  <2>3. QED
    BY <2>1, <2>2 DEF SmallOnes, own
<1> DEFINE small == Small("Plain", << >>, {"author"})
<1>2. Metadata = <<small>>
  BY DEF Metadata
<1> HIDE DEF small
<1>3. small \in SmallOnes("Plain")
  BY <1>1 DEF small
<1> DEFINE S == SmallOnes("Plain")
<1> HIDE DEF S
<1>4. /\ Metadata \in Seq(S) /\ Len(Metadata) = 1 /\ Metadata # << >>
      /\ << >> \in Seq(S) /\ Len(<< >>) = 0
  BY <1>2, <1>3 DEF S
<1>5. ms = << >> \/ ms = Metadata
  BY DEF Metadatas
<1>6. CASE ms = << >>
  <2>1. ms \in Seq(S) /\ Len(ms) <= 1
    BY <1>4, <1>6
  <2>2. QED
    BY <1>4, <2>1 DEF S
<1>7. CASE ms = Metadata
  <2>1. ms \in Seq(S) /\ Len(ms) = 1
    BY <1>4, <1>7, Zenon
  <2>2. QED
    BY <1>4, <2>1 DEF S
<1>8. QED
  BY <1>5, <1>6, <1>7

IsTriple(s, x, y, z) == DOMAIN s = 1..3 /\ s[1] = x /\ s[2] = y /\ s[3] = z /\ s = [k \in 1..3 |-> s[k]]

LEMMA TripleIs == \A x, y, z : IsTriple(<<x, y, z>>, x, y, z)
BY DEF IsTriple

PartFits(f, a, R) == a \in Seq(R) /\ (~f.list => Len(a) <= 1) /\ \A x \in R : x.type = f.of

HasThree(type, w, a, b, c) == \E name : w = Model(type, name, {}, <<a, b, c>>)

AsksForThree(type, f, g, h) == type \in FileTypeNames /\ FileTypes[type].fields = <<f, g, h>>

\* A model of a type with three fields is one if each of its parts is.
LEMMA ThreeParts ==
  ASSUME NEW type, NEW f, NEW g, NEW h, AsksForThree(type, f, g, h),
         NEW w, NEW a, NEW b, NEW c, HasThree(type, w, a, b, c),
         NEW R, NEW S, NEW U, PartFits(f, a, R), PartFits(g, b, S), PartFits(h, c, U)
  PROVE  IsModel(FileTypes, w) /\ Parts(w) \subseteq R \cup S \cup U /\ w.type = type
<1>1. type \in FileTypeNames /\ FileTypes[type].fields = <<f, g, h>>
  BY DEF AsksForThree
<1>2. PICK name : w = Model(type, name, {}, <<a, b, c>>)
  BY DEF HasThree
<1>3. /\ a \in Seq(R) /\ (~f.list => Len(a) <= 1) /\ (\A x \in R : x.type = f.of)
       /\ b \in Seq(S) /\ (~g.list => Len(b) <= 1) /\ (\A x \in S : x.type = g.of)
       /\ c \in Seq(U) /\ (~h.list => Len(c) <= 1) /\ (\A x \in U : x.type = h.of)
  BY DEF PartFits
<1>4. w.type = type /\ w.name = name /\ w.own = {} /\ w.parts = <<a, b, c>>
  BY <1>2 DEF Model
<1>5. w = Model(w.type, w.name, w.own, w.parts)
  BY <1>2, <1>4
<1>6. IsList(a) /\ ToSet(a) \subseteq R /\ IsList(b) /\ ToSet(b) \subseteq S /\ IsList(c) /\ ToSet(c) \subseteq U
  BY <1>3, SeqIsList
<1>7. IsTriple(w.parts, a, b, c)
  <2>1. IsTriple(<<a, b, c>>, a, b, c)
    BY TripleIs
  <2>2. QED
    BY <1>4, <2>1, Zenon
<1> DEFINE fs == FileTypes[w.type].fields
<1>8. IsTriple(fs, f, g, h)
  <2>1. IsTriple(<<f, g, h>>, f, g, h)
    BY TripleIs
  <2>2. fs = <<f, g, h>>
    BY <1>1, <1>4
  <2> HIDE DEF fs
  <2>3. QED
    BY <2>1, <2>2, Zenon
<1>9. w.parts = [k \in DOMAIN fs |-> w.parts[k]]
  <2> HIDE DEF fs
  <2>1. QED
    BY <1>7, <1>8, Zenon DEF IsTriple
<1> HIDE DEF fs
<1>10. \A k \in 1..3 : k = 1 \/ k = 2 \/ k = 3
  OBVIOUS
<1>11. ASSUME NEW k \in DOMAIN w.parts
      PROVE  /\ IsList(w.parts[k]) /\ (~fs[k].list => Len(w.parts[k]) <= 1)
             /\ \A x \in ToSet(w.parts[k]) : x.type = fs[k].of
             /\ ToSet(w.parts[k]) \subseteq R \cup S \cup U
  <2>1. /\ k = 1 \/ k = 2 \/ k = 3
        /\ w.parts[1] = a /\ w.parts[2] = b /\ w.parts[3] = c /\ fs[1] = f /\ fs[2] = g /\ fs[3] = h
    BY <1>7, <1>8, <1>10, Zenon DEF IsTriple
  <2>2. CASE k = 1
    BY <1>3, <1>6, <2>1, <2>2
  <2>3. CASE k = 2
    BY <1>3, <1>6, <2>1, <2>3
  <2>4. CASE k = 3
    BY <1>3, <1>6, <2>1, <2>4
  <2>5. QED
    BY <2>1, <2>2, <2>3, <2>4
<1>12. Parts(w) \subseteq R \cup S \cup U
  BY <1>11 DEF Parts
<1>13. type \in DOMAIN FileTypes
  BY <1>1, FileTypesAre
<1>14. IsModel(FileTypes, w)
  <2> HIDE DEF Model
  <2>1. QED
    BY <1>4, <1>5, <1>9, <1>11, <1>13 DEF IsModel, fs
<1>15. QED
  BY <1>4, <1>12, <1>14

LEMMA SmallTypes ==
  \A type \in {"CANInterface", "Named", "Plain"} :
    \A w \in SmallOnes(type) : IsModel(FileTypes, w) /\ Parts(w) = {} /\ w.type = type
<1>1. TAKE type \in {"CANInterface", "Named", "Plain"}
<1>2. FileTypes[type].fields = << >>
  <2>1. \A i, f : ModelType(i, f).fields = f
    BY DEF ModelType
  <2>2. QED
    BY <2>1, FileTypesAre
<1>3. type \in FileTypeNames
  BY DEF FileTypeNames
<1>4. QED
  BY <1>2, <1>3, SmallFits

LEMMA ControllerFits ==
  ASSUME NEW w \in ControllerOnes
  PROVE  /\ IsModel(FileTypes, w) /\ w.type = "Controller"
         /\ Parts(w) \subseteq SmallOnes("Plain") \cup SmallOnes("CANInterface") \cup SmallOnes("Plain")
<1> DEFINE f == External("controller_metadata", "controller_metadata", "named", FALSE, "Plain", FALSE)
           g == External("can_interfaces", "can_interfaces", "folder", TRUE, "CANInterface", TRUE)
           h == External("virtual_switch", "virtual_switch", "whole", FALSE, "Plain", TRUE)
<1>1. f.list = FALSE /\ g.list = TRUE /\ h.list = FALSE /\ f.of = "Plain" /\ g.of = "CANInterface" /\ h.of = "Plain"
  BY DEF External
<1>2. FileTypes["Controller"].fields = <<f, g, h>>
  <2>1. \A i, fs : ModelType(i, fs).fields = fs
    BY DEF ModelType
  <2>2. QED
    BY <2>1, FileTypesAre
<1> HIDE DEF f, g, h
<1>3. PICK name \in FileItemNames, cans \in Seq(SmallOnes("CANInterface")), vs \in Metadatas : w = ControllerOf(name, cans, vs)
  BY DEF ControllerOnes
<1>4. w = Model("Controller", name, {}, <<Metadata, cans, vs>>)
  BY <1>3 DEF ControllerOf
<1>5. "Controller" \in FileTypeNames /\ Metadata \in Metadatas
  BY DEF FileTypeNames, Metadatas
<1>6. Metadata \in Seq(SmallOnes("Plain")) /\ Len(Metadata) <= 1 /\ vs \in Seq(SmallOnes("Plain")) /\ Len(vs) <= 1
  BY <1>5, MetadataFits
<1>7. (\A x \in SmallOnes("Plain") : x.type = f.of) /\ (\A x \in SmallOnes("CANInterface") : x.type = g.of) /\ f.of = h.of
  BY <1>1, SmallTypes
<1> DEFINE R == SmallOnes("Plain")
           S == SmallOnes("CANInterface")
<1> HIDE DEF R, S
<1>8. AsksForThree("Controller", f, g, h)
  BY <1>2, <1>5 DEF AsksForThree
<1>9. HasThree("Controller", w, Metadata, cans, vs)
  BY <1>4, Zenon DEF HasThree
<1>10. PartFits(f, Metadata, R) /\ PartFits(g, cans, S) /\ PartFits(h, vs, R)
  BY <1>1, <1>3, <1>6, <1>7 DEF PartFits, R, S
<1>11. QED
  BY <1>8, <1>9, <1>10, ThreeParts DEF R, S

LEMMA EcuFits ==
  ASSUME NEW w \in EcuOnes
  PROVE  /\ IsModel(FileTypes, w) /\ w.type = "ECU"
         /\ Parts(w) \subseteq SmallOnes("Named") \cup ControllerOnes \cup SmallOnes("Named")
<1> DEFINE f == External("ports", "ports", "named", TRUE, "Named", FALSE)
           g == External("controllers", "controllers", "folder", TRUE, "Controller", FALSE)
           h == External("switches", "switches", "folder", TRUE, "Named", TRUE)
<1>1. f.list = TRUE /\ g.list = TRUE /\ h.list = TRUE /\ f.of = "Named" /\ g.of = "Controller" /\ h.of = "Named"
  BY DEF External
<1>2. FileTypes["ECU"].fields = <<f, g, h>>
  <2>1. \A i, fs : ModelType(i, fs).fields = fs
    BY DEF ModelType
  <2>2. QED
    BY <2>1, FileTypesAre
<1> HIDE DEF f, g, h
<1>3. PICK name \in FileItemNames, ports \in Seq(SmallOnes("Named")), controllers \in Seq(ControllerOnes),
           switches \in Seq(SmallOnes("Named")) : w = EcuWith(name, ports, controllers, switches)
  BY DEF EcuOnes
<1>4. w = Model("ECU", name, {}, <<ports, controllers, switches>>)
  BY <1>3 DEF EcuWith
<1>5. "ECU" \in FileTypeNames
  BY DEF FileTypeNames
<1>6. \A x \in SmallOnes("Named") : x.type = "Named"
  BY SmallTypes
<1>7. \A x \in ControllerOnes : x.type = "Controller"
  BY ControllerFits
<1>8. AsksForThree("ECU", f, g, h)
  BY <1>2, <1>5 DEF AsksForThree
<1>9. HasThree("ECU", w, ports, controllers, switches)
  BY <1>4, Zenon DEF HasThree
<1>10. PartFits(f, ports, SmallOnes("Named")) /\ PartFits(g, controllers, ControllerOnes) /\ PartFits(h, switches, SmallOnes("Named"))
  BY <1>1, <1>3, <1>6, <1>7 DEF PartFits
<1>11. QED
  BY <1>8, <1>9, <1>10, ThreeParts

LEMMA TopologyFits == IsModel(FileTypes, TopologyOne) /\ TopologyOne.type = "Topology" /\ Parts(TopologyOne) \subseteq SmallOnes("Plain")
<1> DEFINE f == External("system_topology", "system_topology", "whole", FALSE, "Plain", FALSE)
           w == TopologyOne
<1>1. f.list = FALSE /\ f.of = "Plain"
  BY DEF External
<1>2. FileTypes["Topology"].fields = <<f>>
  <2>1. \A i, fs : ModelType(i, fs).fields = fs
    BY DEF ModelType
  <2>2. QED
    BY <2>1, FileTypesAre
<1>3. w.type = "Topology" /\ w.name = << >> /\ w.own = {} /\ w.parts = <<Metadata>>
  BY DEF TopologyOne, Model
<1>4. w = Model(w.type, w.name, w.own, w.parts)
  <2> HIDE DEF w
  <2>1. w = Model("Topology", << >>, {}, <<Metadata>>)
    BY DEF w, TopologyOne
  <2>2. QED
    BY <1>3, <2>1
<1> HIDE DEF f, w
<1>5. Metadata \in Seq(SmallOnes("Plain")) /\ Len(Metadata) <= 1
  BY MetadataFits DEF Metadatas
<1>6. IsList(Metadata) /\ ToSet(Metadata) \subseteq SmallOnes("Plain")
  BY <1>5, SeqIsList
<1>7. \A x \in SmallOnes("Plain") : x.type = "Plain"
  BY SmallTypes
<1> DEFINE fs == FileTypes[w.type].fields
<1>8. fs = <<f>>
  BY <1>2, <1>3
<1> HIDE DEF fs
<1>9. DOMAIN fs = {1} /\ fs[1] = f /\ DOMAIN w.parts = {1} /\ w.parts[1] = Metadata /\ w.parts = [k \in {1} |-> w.parts[k]]
  BY <1>3, <1>8
<1>10. \A k \in DOMAIN w.parts : /\ IsList(w.parts[k]) /\ (~fs[k].list => Len(w.parts[k]) <= 1)
                                 /\ \A x \in ToSet(w.parts[k]) : x.type = fs[k].of
  BY <1>1, <1>5, <1>6, <1>7, <1>9
<1>11. Parts(w) \subseteq SmallOnes("Plain")
  BY <1>6, <1>9 DEF Parts
<1>12. w.type \in DOMAIN FileTypes
  BY <1>3, FileTypesAre DEF FileTypeNames
<1>13. w.parts = [k \in DOMAIN fs |-> w.parts[k]]
  BY <1>9
<1>14. IsModel(FileTypes, w)
  <2> HIDE DEF Model
  <2>1. QED
    BY <1>3, <1>4, <1>10, <1>12, <1>13 DEF IsModel, fs
<1>15. QED
  BY <1>3, <1>11, <1>14 DEF w

LEMMA RootFits ==
  ASSUME NEW w \in RootOnes
  PROVE  /\ IsModel(FileTypes, w) /\ w.type = "Root"
         /\ Parts(w) \subseteq EcuOnes \cup {TopologyOne} \cup SmallOnes("Plain")
<1> DEFINE f == External("ecus", "ecus", "folder", TRUE, "ECU", FALSE)
           g == External("topology", "topology", "folder", FALSE, "Topology", FALSE)
           h == External("metadata", "system_metadata", "whole", FALSE, "Plain", FALSE)
<1>1. f.list = TRUE /\ g.list = FALSE /\ h.list = FALSE /\ f.of = "ECU" /\ g.of = "Topology" /\ h.of = "Plain"
  BY DEF External
<1>2. FileTypes["Root"].fields = <<f, g, h>>
  <2>1. \A i, fs : ModelType(i, fs).fields = fs
    BY DEF ModelType
  <2>2. QED
    BY <2>1, FileTypesAre
<1> HIDE DEF f, g, h
<1>3. PICK ecus \in Seq(EcuOnes), meta \in Metadatas : w = Model("Root", << >>, {}, <<ecus, <<TopologyOne>>, meta>>)
  BY DEF RootOnes
<1>4. "Root" \in FileTypeNames
  BY DEF FileTypeNames
<1>5. meta \in Seq(SmallOnes("Plain")) /\ Len(meta) <= 1
  BY MetadataFits
<1> DEFINE top == <<TopologyOne>>
<1>6. top \in Seq({TopologyOne}) /\ Len(top) <= 1
  OBVIOUS
<1>7. \A x \in {TopologyOne} : x.type = "Topology"
  BY TopologyFits
<1>8. \A x \in SmallOnes("Plain") : x.type = "Plain"
  BY SmallTypes
<1>9. \A x \in EcuOnes : x.type = "ECU"
  BY EcuFits
<1>10. w = Model("Root", << >>, {}, <<ecus, top, meta>>)
  BY <1>3
<1> HIDE DEF top
<1>11. AsksForThree("Root", f, g, h)
  BY <1>2, <1>4 DEF AsksForThree
<1>12. HasThree("Root", w, ecus, top, meta)
  BY <1>10, Zenon DEF HasThree
<1>13. PartFits(f, ecus, EcuOnes) /\ PartFits(g, top, {TopologyOne}) /\ PartFits(h, meta, SmallOnes("Plain"))
  BY <1>1, <1>3, <1>5, <1>6, <1>7, <1>8, <1>9 DEF PartFits
<1>14. QED
  BY <1>11, <1>12, <1>13, ThreeParts

LEMMA RootIsFileModel ==
  ASSUME NEW v \in RootOnes
  PROVE  FileModel(FileTypes, v)
<1> DEFINE Plains == SmallOnes("Plain")
           Cans == SmallOnes("CANInterface")
           Nameds == SmallOnes("Named")
<1>1. \A w \in Plains \cup Cans \cup Nameds : IsModel(FileTypes, w) /\ Parts(w) = {}
  BY SmallTypes
<1>2. \A w \in ControllerOnes : IsModel(FileTypes, w) /\ Parts(w) \subseteq FileModels
  BY ControllerFits DEF FileModels
<1>3. \A w \in EcuOnes : IsModel(FileTypes, w) /\ Parts(w) \subseteq FileModels
  BY EcuFits DEF FileModels
<1>4. IsModel(FileTypes, TopologyOne) /\ Parts(TopologyOne) \subseteq FileModels
  BY TopologyFits DEF FileModels
<1>5. \A w \in RootOnes : IsModel(FileTypes, w) /\ Parts(w) \subseteq FileModels
  BY RootFits DEF FileModels
<1> HIDE DEF Plains, Cans, Nameds
<1>6. FileModels = RootOnes \cup EcuOnes \cup ControllerOnes \cup {TopologyOne} \cup Cans \cup Nameds \cup Plains
  BY DEF FileModels, Plains, Cans, Nameds
<1>7. \A w \in FileModels : Parts(w) \subseteq FileModels /\ IsModel(FileTypes, w)
  BY <1>1, <1>2, <1>3, <1>4, <1>5, <1>6
<1>8. v \in FileModels /\ Levels(FileTypes) \in Nat
  BY <1>6, FileLevels
<1>9. QED
  BY <1>7, <1>8, FileModelFrom

LEMMA SmallIsOne ==
  ASSUME NEW type, NEW name \in FileItemNames, NEW own \in SUBSET {"author", "mdi", "bus"}
  PROVE  Small(type, name, own) \in SmallOnes(type)
<1> DEFINE facts == {<<fact, <<fact>>>> : fact \in own}
<1>1. facts \in SUBSET FileFacts
  BY DEF FileFacts
<1>2. Small(type, name, own) = Model(type, name, facts, << >>)
  BY DEF Small
<1> HIDE DEF facts
<1>3. QED
  BY <1>1, <1>2 DEF SmallOnes

LEMMA ControllerIsOne ==
  ASSUME NEW name \in FileItemNames, NEW cans \in Seq(SmallOnes("CANInterface")), NEW vs \in Metadatas
  PROVE  ControllerOf(name, cans, vs) \in ControllerOnes
BY DEF ControllerOnes

LEMMA EcuIsOne ==
  ASSUME NEW name \in FileItemNames, NEW ports \in Seq(SmallOnes("Named")), NEW controllers \in Seq(ControllerOnes),
         NEW switches \in Seq(SmallOnes("Named"))
  PROVE  EcuWith(name, ports, controllers, switches) \in EcuOnes
BY DEF EcuOnes

\* The items by the field that they are for.
LEMMA FileItemsAre ==
  /\ DOMAIN FileItems = 1..11
  /\ \A n \in 1..11 : FileItems[n].tag = "ecu" => FileItems[n].item \in EcuOnes
  /\ \A n \in 1..11 : FileItems[n].tag = "port" => FileItems[n].item \in SmallOnes("Named")
  /\ \A n \in 1..11 : FileItems[n].tag = "controller" => FileItems[n].item \in ControllerOnes
  /\ \A n \in 1..11 : FileItems[n].tag = "can" => FileItems[n].item \in SmallOnes("CANInterface")
  /\ \A n \in 1..11 : FileItems[n].tag = "switch" => FileItems[n].item \in SmallOnes("Named")
  /\ <<"b">> \in FileItemNames
<1> DEFINE na == <<"a">>
           nab == <<"a", "b">>
           nb == <<"b">>
           nc == <<"c">>
           np == <<"p">>
<1>1. na \in FileItemNames /\ nab \in FileItemNames /\ nb \in FileItemNames /\ nc \in FileItemNames /\ np \in FileItemNames
  <2>1. FileOrder = <<na, nab, nb, nc, np>>
    BY DEF FileOrder
  <2> HIDE DEF na, nab, nb, nc, np
  <2>2. DOMAIN FileOrder = 1..5 /\ FileOrder[1] = na /\ FileOrder[2] = nab /\ FileOrder[3] = nb /\ FileOrder[4] = nc /\ FileOrder[5] = np
    BY <2>1
  <2>3. QED
    BY <2>2 DEF FileItemNames, ToSet
<1>2. {} \in SUBSET {"author", "mdi", "bus"} /\ {"mdi"} \in SUBSET {"author", "mdi", "bus"} /\ {"bus"} \in SUBSET {"author", "mdi", "bus"}
  OBVIOUS
<1> DEFINE i2 == Small("Named", np, {})
           i3 == Small("Named", nab, {"mdi"})
           i5 == Small("CANInterface", na, {"bus"})
           i6 == Small("CANInterface", nb, {"bus"})
           i7 == Small("CANInterface", nc, {})
           i8 == Small("Named", nc, {"mdi"})
           i9 == Small("Named", na, {"mdi"})
           i10 == Small("Named", nab, {"mdi"})
           i4 == ControllerOf(nab, << >>, Metadata)
           c1 == ControllerOf(nb, << >>, << >>)
           p1 == <<i2>>
           cs1 == <<c1>>
           i1 == EcuWith(nab, p1, cs1, << >>)
<1>3. FileItems = <<T("ecu", i1), T("port", i2), T("port", i3), T("controller", i4), T("can", i5), T("can", i6), T("can", i7),
                    T("switch", i8), T("switch", i9), T("switch", i10), T("meta", "author")>>
  BY DEF FileItems
<1> HIDE DEF na, nab, nb, nc, np
<1>4. /\ i2 \in SmallOnes("Named") /\ i3 \in SmallOnes("Named") /\ i8 \in SmallOnes("Named") /\ i9 \in SmallOnes("Named")
      /\ i10 \in SmallOnes("Named") /\ i5 \in SmallOnes("CANInterface") /\ i6 \in SmallOnes("CANInterface")
      /\ i7 \in SmallOnes("CANInterface")
  BY <1>1, <1>2, SmallIsOne
<1> HIDE DEF i2, i3, i5, i6, i7, i8, i9, i10
<1>5. << >> \in Seq(SmallOnes("CANInterface")) /\ << >> \in Metadatas /\ Metadata \in Metadatas /\ << >> \in Seq(SmallOnes("Named"))
  BY DEF Metadatas
<1>6. i4 \in ControllerOnes /\ c1 \in ControllerOnes
  <2>1. ControllerOf(nab, << >>, Metadata) \in ControllerOnes
    BY <1>1, <1>5, ControllerIsOne
  <2>2. ControllerOf(nb, << >>, << >>) \in ControllerOnes
    BY <1>1, <1>5, ControllerIsOne
  <2>3. QED
    BY <2>1, <2>2
<1> HIDE DEF i4, c1
<1>7. p1 \in Seq(SmallOnes("Named")) /\ cs1 \in Seq(ControllerOnes)
  BY <1>4, <1>6
<1> HIDE DEF p1, cs1
<1>8. i1 \in EcuOnes
  BY <1>1, <1>5, <1>7, EcuIsOne
<1> HIDE DEF i1
<1>9. /\ DOMAIN FileItems = 1..11
      /\ FileItems[1] = T("ecu", i1) /\ FileItems[2] = T("port", i2) /\ FileItems[3] = T("port", i3)
      /\ FileItems[4] = T("controller", i4) /\ FileItems[5] = T("can", i5) /\ FileItems[6] = T("can", i6)
      /\ FileItems[7] = T("can", i7) /\ FileItems[8] = T("switch", i8) /\ FileItems[9] = T("switch", i9)
      /\ FileItems[10] = T("switch", i10) /\ FileItems[11] = T("meta", "author")
  BY <1>3
<1>10. \A tag, item : T(tag, item).tag = tag /\ T(tag, item).item = item
  BY DEF T
<1>11. \A n \in 1..11 : n = 1 \/ n = 2 \/ n = 3 \/ n = 4 \/ n = 5 \/ n = 6 \/ n = 7 \/ n = 8 \/ n = 9 \/ n = 10 \/ n = 11
  OBVIOUS
<1>12. \A n \in 1..11 : FileItems[n].tag = "ecu" => FileItems[n].item \in EcuOnes
  BY <1>8, <1>9, <1>10, <1>11
<1>13. \A n \in 1..11 : FileItems[n].tag = "port" => FileItems[n].item \in SmallOnes("Named")
  BY <1>4, <1>9, <1>10, <1>11
<1>14. \A n \in 1..11 : FileItems[n].tag = "controller" => FileItems[n].item \in ControllerOnes
  BY <1>6, <1>9, <1>10, <1>11
<1>15. \A n \in 1..11 : FileItems[n].tag = "can" => FileItems[n].item \in SmallOnes("CANInterface")
  BY <1>4, <1>9, <1>10, <1>11
<1>16. \A n \in 1..11 : FileItems[n].tag = "switch" => FileItems[n].item \in SmallOnes("Named")
  BY <1>4, <1>9, <1>10, <1>11
<1>17. QED
  BY <1>1, <1>9, <1>12, <1>13, <1>14, <1>15, <1>16 DEF nb

LEMMA SavedModelIs ==
  ASSUME NEW ns \in Seq(DOMAIN FileItems)
  PROVE  SavedModel(ns) \in RootOnes
<1> DEFINE of(tag) == ItemsAt(FileItems, ns, tag)
           first == ControllerOf(<<"b">>, of("can"), << >>)
           controllers == of("controller") \o <<first>>
           ecu == EcuWith(<<"b">>, of("port"), controllers, of("switch"))
           ecus == of("ecu") \o <<ecu>>
           meta == IF of("meta") = << >> THEN << >> ELSE Metadata
<1>1. SavedModel(ns) = Model("Root", << >>, {}, <<ecus, <<TopologyOne>>, meta>>)
  BY DEF SavedModel, TopologyOne
<1>2. /\ of("ecu") \in Seq(EcuOnes) /\ of("port") \in Seq(SmallOnes("Named")) /\ of("controller") \in Seq(ControllerOnes)
      /\ of("can") \in Seq(SmallOnes("CANInterface")) /\ of("switch") \in Seq(SmallOnes("Named"))
  BY FileItemsAre, ItemsAtIn
<1>3. <<"b">> \in FileItemNames /\ << >> \in Metadatas /\ meta \in Metadatas
  BY FileItemsAre DEF Metadatas
<1> HIDE DEF of
<1>4. first \in ControllerOnes
  BY <1>2, <1>3 DEF ControllerOnes
<1> HIDE DEF first
<1>5. controllers \in Seq(ControllerOnes)
  <2> DEFINE S == ControllerOnes
  <2> HIDE DEF S
  <2>1. of("controller") \in Seq(S) /\ first \in S
    BY <1>2, <1>4 DEF S
  <2>2. controllers \in Seq(S)
    BY <2>1
  <2>3. QED
    BY <2>2 DEF S
<1> HIDE DEF controllers
<1>6. ecu \in EcuOnes
  BY <1>2, <1>3, <1>5 DEF EcuOnes
<1> HIDE DEF ecu
<1>7. ecus \in Seq(EcuOnes)
  <2> DEFINE S == EcuOnes
  <2> HIDE DEF S
  <2>1. of("ecu") \in Seq(S) /\ ecu \in S
    BY <1>2, <1>6 DEF S
  <2>2. ecus \in Seq(S)
    BY <2>1
  <2>3. QED
    BY <2>2 DEF S
<1> HIDE DEF ecus, meta
<1>8. QED
  BY <1>1, <1>3, <1>7 DEF RootOnes

LEMMA FilesComeBack ==
  ASSUME NEW ns \in Seq(DOMAIN FileItems), NEW before
  PROVE  SavedComesBack(FileTypes, FileOrder, before, SavedModel(ns))
<1> DEFINE v == SavedModel(ns)
<1>1. v \in RootOnes
  BY SavedModelIs
<1> HIDE DEF v
<1>2. FileModel(FileTypes, v) /\ v.type = "Root"
  BY <1>1, RootIsFileModel, RootFits
<1>3. FileTypes[v.type].fields # << >> /\ FileTypes[v.type].implied = "none"
  <2>1. \A i, fs : ModelType(i, fs).fields = fs /\ ModelType(i, fs).implied = i
    BY DEF ModelType
  <2> DEFINE f == External("ecus", "ecus", "folder", TRUE, "ECU", FALSE)
             g == External("topology", "topology", "folder", FALSE, "Topology", FALSE)
             h == External("metadata", "system_metadata", "whole", FALSE, "Plain", FALSE)
  <2>2. FileTypes["Root"] = ModelType("none", <<f, g, h>>)
    BY FileTypesAre
  <2> HIDE DEF f, g, h
  <2>3. <<f, g, h>> # << >>
    OBVIOUS
  <2>4. FileTypes["Root"].implied = "none" /\ FileTypes["Root"].fields # << >>
    BY <2>1, <2>2, <2>3
  <2>5. QED
    BY <1>2, <2>4
<1>4. /\ FileSchema(NameParts(FileTypes, FileOrder), FileTypes) /\ IsRank(FileTypes, FileRank)
      /\ IsOrder(NameParts(FileTypes, FileOrder), FileOrder)
  BY FileSchemaFits, FileOrderIs DEF FileNames
<1>5. QED
  BY <1>2, <1>3, <1>4, SavedAlwaysComesBack DEF v

\* Any model of any well-formed schema that files can hold, saved over the files
\* of any other model that has no further files, comes back when it is loaded
\* (load_flync_model, __load_from_path); so do the workspaces that are saved here.
THEOREM SavedModelsComeBack ==
  /\ \A schema, order, rank, before, v :
       /\ FileSchema(NameParts(schema, order), schema) /\ IsRank(schema, rank) /\ IsOrder(NameParts(schema, order), order)
       /\ FileModel(schema, v) /\ schema[v.type].fields # << >> /\ schema[v.type].implied = "none"
       => SavedComesBack(schema, order, before, v)
  /\ RuleSpec => []SavedLoads
<1>1. \A schema, order, rank, before, v :
        /\ FileSchema(NameParts(schema, order), schema) /\ IsRank(schema, rank) /\ IsOrder(NameParts(schema, order), order)
        /\ FileModel(schema, v) /\ schema[v.type].fields # << >> /\ schema[v.type].implied = "none"
        => SavedComesBack(schema, order, before, v)
  BY SavedAlwaysComesBack
<1>2. RuleInv => SavedLoads
  <2> SUFFICES ASSUME RuleInv, kind = "files", items # << >>
               PROVE  SavedComesBack(FileTypes, FileOrder, SavedModel(items[1]), SavedModel(Written))
    BY DEF SavedLoads
  <2>1. Doc(FileHeads, DOMAIN FileItems)
    BY DEF RuleInv
  <2>2. Written \in Seq(DOMAIN FileItems)
    BY <2>1, DocIsSeq
  <2>3. QED
    BY <2>2, FilesComeBack
<1>3. QED
  BY <1>1, <1>2, InvHolds, PTL

=============================================================================
