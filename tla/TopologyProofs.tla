--------------------------- MODULE TopologyProofs ---------------------------
(***************************************************************************)
(* Proofs about the topology (Topology), for networks of any size and any  *)
(* number of reloads: the partners of joined components, the memberships,  *)
(* the paths and the report.                                               *)
(***************************************************************************)
EXTENDS Topology, ListFacts, FiniteSetTheorems

\* The documents as they have been loaded.
VersionsOK(ver) ==
  /\ ver \in [Document -> Seq(Setting)]
  /\ \A d \in Document : Len(ver[d]) \in Version /\ \A n \in DOMAIN ver[d] : ver[d][n] \in Offered[d]

-----------------------------------------------------------------------------
(* Connections.                                                            *)

Joined(a, b) == <<a, b>> \in Connection \/ <<b, a>> \in Connection

HasName(ln, x, b) == \E k \in DOMAIN ln[x] : ln[x][k][1] = b

\* An end of a connection is bound: it has the other end's name; if it is no
\* ECU port it has the live instance, and a switch port has nothing else.
EndBound(ver, ln, conn, i) ==
  LET x == Live(ver, conn[i])
      y == Live(ver, conn[3 - i])
  IN /\ HasName(ln, x, y[1])
     /\ x[1] \notin EcuPort => y \in ToSet(ln[x])
     /\ x[1] \in SwitchPort => ln[x] = <<y>>

BothBound(ver, ln, conn) == EndBound(ver, ln, conn, 1) /\ EndBound(ver, ln, conn, 2)

\* Links are instances of components that are joined.
LinksOK(ln) ==
  /\ ln \in [Instance -> Seq(Instance)]
  /\ \A x \in Instance : \A k \in DOMAIN ln[x] : Joined(x[1], ln[x][k][1])

\* What binding more connections does not undo, and what it may add.
Grown(ver, ln, new) ==
  /\ LinksOK(new)
  /\ \A c \in Connection : \A i \in {1, 2} : EndBound(ver, ln, c, i) => EndBound(ver, new, c, i)
  /\ \A x \in Instance : \A b \in Component : HasName(ln, x, b) => HasName(new, x, b)
  /\ \A x \in Instance : \A y \in ToSet(new[x]) : y \in ToSet(ln[x]) \/ y = Live(ver, y[1])

LEMMA ConnectionEnds ==
  ASSUME NEW conn \in Connection
  PROVE  conn \in Component \X Component
<1>1. CASE conn \in ToSet(External)
  <2>1. PICK k \in DOMAIN External : conn = External[k]
    BY <1>1 DEF ToSet
  <2>2. External[k] \in EcuPort \X EcuPort
    BY ConnectionAssumption, ElementIn
  <2>3. QED
    BY <2>1, <2>2 DEF Component
<1>2. ASSUME NEW e \in ToSet(Ecus), conn \in ToSet(Internal[e]) PROVE conn \in Component \X Component
  <2>1. PICK k \in DOMAIN Internal[e] : conn = Internal[e][k]
    BY <1>2 DEF ToSet
  <2>2. Internal[e] \in Seq(Component \X Component)
    BY ConnectionAssumption
  <2>3. QED
    BY <2>1, <2>2, ElementIn
<1>3. conn \in ToSet(External) \/ \E e \in ToSet(Ecus) : conn \in ToSet(Internal[e])
  BY DEF Connection
<1>4. QED
  BY <1>1, <1>2, <1>3

LEMMA LiveInstance ==
  ASSUME NEW ver, VersionsOK(ver), NEW c \in Component
  PROVE  /\ Live(ver, c) \in Instance /\ Live(ver, c)[1] = c /\ Live(ver, c)[2] = Len(ver[DocOf[c]])
         /\ DocOf[c] \in Document
BY DEF Live, VersionsOK, Instance, Document

\* A switch port is joined with one component.
LEMMA OnlyPartner ==
  ASSUME NEW p \in SwitchPort, NEW a \in Component, NEW b \in Component, Joined(p, a), Joined(p, b)
  PROVE  a = b
<1> DEFINE At(c, i) == c \in Connection /\ c[i] = p
<1>1. \A c, d : \A i, j \in {1, 2} : At(c, i) /\ At(d, j) => c = d /\ i = j
  BY ConnectionAssumption
<1>2. PICK c : \E i \in {1, 2} : At(c, i) /\ c[3 - i] = a
  BY DEF Joined
<1>3. PICK d : \E j \in {1, 2} : At(d, j) /\ d[3 - j] = b
  BY DEF Joined
<1>4. QED
  BY <1>1, <1>2, <1>3

LEMMA AttachFacts ==
  ASSUME NEW ln \in [Instance -> Seq(Instance)], NEW x \in Instance, NEW y \in Instance, NEW new,
         new = Attach(ln, x, y)
  PROVE  /\ new \in [Instance -> Seq(Instance)]
         /\ \A z \in Instance : z # x => new[z] = ln[z]
         /\ \A w \in ToSet(new[x]) : w \in ToSet(ln[x]) \/ w = y
         /\ HasName(new, x, y[1])
         /\ x[1] \notin EcuPort => y \in ToSet(new[x])
         /\ x[1] \in SwitchPort => new[x] = <<y>>
         /\ x[1] \notin SwitchPort => ToSet(ln[x]) \subseteq ToSet(new[x])
<1> DEFINE longer == [ln EXCEPT ![x] = Append(@, y)]
<1>1. CASE x[1] \in SwitchPort
  <2>1. new = [ln EXCEPT ![x] = <<y>>]
    BY <1>1, TopologyAssumption DEF Attach
  <2>2. new \in [Instance -> Seq(Instance)] /\ new[x] = <<y>>
    BY <2>1
  <2>3. DOMAIN new[x] = {1} /\ new[x][1] = y
    BY <2>2
  <2>4. QED
    BY <1>1, <2>1, <2>2, <2>3 DEF HasName, ToSet
<1>2. CASE new = longer /\ x[1] \notin SwitchPort
  <2>1. new \in [Instance -> Seq(Instance)] /\ new[x] = Append(ln[x], y) /\ ln[x] \in Seq(Instance)
    BY <1>2
  <2>2. DOMAIN new[x] = 1..(Len(ln[x]) + 1) /\ DOMAIN ln[x] = 1..Len(ln[x]) /\ Len(ln[x]) \in Nat
    BY <2>1
  <2>3. new[x][Len(ln[x]) + 1] = y /\ \A k \in DOMAIN ln[x] : new[x][k] = ln[x][k]
    BY <2>1, <2>2
  <2>4. HasName(new, x, y[1])
    BY <2>2, <2>3 DEF HasName
  <2>5. \A k \in DOMAIN new[x] : k \in DOMAIN ln[x] \/ k = Len(ln[x]) + 1
    BY <2>2
  <2>6. ToSet(new[x]) \subseteq ToSet(ln[x]) \cup {y}
    BY <2>3, <2>5 DEF ToSet
  <2>7. Len(ln[x]) + 1 \in DOMAIN new[x] /\ \A k \in DOMAIN ln[x] : k \in DOMAIN new[x]
    BY <2>2
  <2>8. ToSet(ln[x]) \cup {y} \subseteq ToSet(new[x])
    BY <2>3, <2>7 DEF ToSet
  <2>9. QED
    BY <1>2, <2>1, <2>4, <2>6, <2>8
<1>3. CASE new = ln /\ x[1] \in EcuPort /\ HasName(ln, x, y[1])
  BY <1>3, TopologyAssumption DEF HasName
<1>4. \/ new = longer
      \/ new = ln /\ x[1] \in EcuPort /\ HasName(ln, x, y[1])
      \/ x[1] \in SwitchPort
  <2> DEFINE single == [ln EXCEPT ![x] = <<y>>]
             inside == x[1] \in EcuPort /\ y[1] \notin EcuPort
             known  == \E k \in DOMAIN ln[x] : ln[x][k][1] = y[1]
  <2>1. new = CASE x[1] \in SwitchPort -> single
                [] inside -> IF known THEN ln ELSE longer
                [] OTHER -> longer
    BY DEF Attach
  <2>2. known <=> HasName(ln, x, y[1])
    BY DEF HasName
  <2>3. inside => x[1] \in EcuPort
    OBVIOUS
  <2> HIDE DEF single, inside, known, longer
  <2>4. CASE x[1] \in SwitchPort
    BY <2>4
  <2>5. CASE x[1] \notin SwitchPort /\ inside
    BY <2>1, <2>2, <2>3, <2>5
  <2>6. CASE x[1] \notin SwitchPort /\ ~inside
    BY <2>1, <2>6
  <2>7. QED
    BY <2>4, <2>5, <2>6
<1>5. QED
  BY <1>1, <1>2, <1>3, <1>4

\* Attaching an end of a connection to the other binds it and undoes nothing.
LEMMA AttachGrows ==
  ASSUME NEW ver, VersionsOK(ver), NEW ln, LinksOK(ln), NEW conn \in Connection, NEW i \in {1, 2}, NEW new,
         new = Attach(ln, Live(ver, conn[i]), Live(ver, conn[3 - i]))
  PROVE  Grown(ver, ln, new) /\ EndBound(ver, new, conn, i)
<1> DEFINE x == Live(ver, conn[i])
           y == Live(ver, conn[3 - i])
<1>1. conn[i] \in Component /\ conn[3 - i] \in Component
  BY ConnectionEnds
<1>2. x \in Instance /\ y \in Instance /\ x[1] = conn[i] /\ y[1] = conn[3 - i]
  BY <1>1, LiveInstance
<1>3. Joined(x[1], y[1])
  <2>1. conn = <<conn[1], conn[2]>>
    BY ConnectionEnds
  <2>2. QED
    BY <1>2, <2>1 DEF Joined
<1>4. ln \in [Instance -> Seq(Instance)] /\ new = Attach(ln, x, y)
  BY DEF LinksOK
<1> HIDE DEF x, y
<1>5. /\ new \in [Instance -> Seq(Instance)]
      /\ \A z \in Instance : z # x => new[z] = ln[z]
      /\ \A w \in ToSet(new[x]) : w \in ToSet(ln[x]) \/ w = y
      /\ HasName(new, x, y[1])
      /\ x[1] \notin EcuPort => y \in ToSet(new[x])
      /\ x[1] \in SwitchPort => new[x] = <<y>>
      /\ x[1] \notin SwitchPort => ToSet(ln[x]) \subseteq ToSet(new[x])
  BY <1>2, <1>4, AttachFacts
<1>6. EndBound(ver, new, conn, i)
  BY <1>5 DEF EndBound, x, y
<1>7. LinksOK(new)
  <2>1. ASSUME NEW z \in Instance, NEW k \in DOMAIN new[z] PROVE Joined(z[1], new[z][k][1])
    <3>1. CASE z # x
      BY <3>1, <1>5 DEF LinksOK
    <3>2. CASE z = x
      <4>1. new[z][k] \in ToSet(new[x])
        BY <3>2 DEF ToSet
      <4>2. new[z][k] \in ToSet(ln[x]) \/ new[z][k] = y
        BY <1>5, <4>1
      <4>3. \A w \in ToSet(ln[x]) : Joined(x[1], w[1])
        BY <1>2 DEF LinksOK, ToSet
      <4>4. QED
        BY <1>3, <3>2, <4>2, <4>3
    <3>3. QED
      BY <3>1, <3>2
  <2>2. QED
    BY <1>5, <2>1 DEF LinksOK
<1>8. ASSUME NEW c \in Connection, NEW j \in {1, 2}, EndBound(ver, ln, c, j)
      PROVE  EndBound(ver, new, c, j)
  <2> DEFINE u == Live(ver, c[j])
             w == Live(ver, c[3 - j])
  <2>1. c[j] \in Component /\ c[3 - j] \in Component
    BY ConnectionEnds
  <2>2. u \in Instance /\ u[1] = c[j] /\ w \in Instance /\ w[1] = c[3 - j]
    BY <2>1, LiveInstance
  <2>3. /\ HasName(ln, u, w[1])
        /\ u[1] \notin EcuPort => w \in ToSet(ln[u])
        /\ u[1] \in SwitchPort => ln[u] = <<w>>
    BY <1>8 DEF EndBound
  <2>4. SUFFICES /\ HasName(new, u, w[1])
                 /\ u[1] \notin EcuPort => w \in ToSet(new[u])
                 /\ u[1] \in SwitchPort => new[u] = <<w>>
    BY DEF EndBound
  <2>5. CASE u # x
    BY <1>5, <2>2, <2>3, <2>5 DEF HasName
  <2>6. CASE u = x /\ u[1] \in SwitchPort
    <3>1. c[j] = conn[i] /\ c[j] \in SwitchPort
      BY <1>2, <2>2, <2>6
    <3>2. c = conn /\ j = i
      BY <3>1, ConnectionAssumption
    <3>3. w = y
      BY <3>2 DEF y
    <3> HIDE DEF u, w
    <3>4. QED
      BY <1>5, <2>6, <3>3
  <2>7. CASE u = x /\ u[1] \notin SwitchPort
    <3> HIDE DEF u, w
    <3>1. ToSet(ln[u]) \subseteq ToSet(new[u])
      BY <1>5, <2>7
    <3>2. HasName(new, u, w[1])
      BY <2>3, <3>1 DEF HasName, ToSet
    <3>3. QED
      BY <2>3, <2>7, <3>1, <3>2
  <2>8. QED
    BY <2>5, <2>6, <2>7
<1>9. ASSUME NEW z \in Instance, NEW b \in Component, HasName(ln, z, b) PROVE HasName(new, z, b)
  <2>1. CASE z # x
    BY <1>5, <1>9, <2>1 DEF HasName
  <2>2. CASE z = x /\ z[1] \in SwitchPort
    <3>1. Joined(x[1], b)
      BY <1>9, <2>2 DEF HasName, LinksOK
    <3>2. b = y[1]
      BY <1>1, <1>2, <1>3, <2>2, <3>1, OnlyPartner
    <3>3. QED
      BY <1>5, <2>2, <3>2
  <2>3. CASE z = x /\ z[1] \notin SwitchPort
    <3>1. PICK k \in DOMAIN ln[x] : ln[x][k][1] = b
      BY <1>9, <2>3 DEF HasName
    <3>2. ln[x][k] \in ToSet(new[x])
      BY <1>5, <2>3 DEF ToSet
    <3>3. QED
      BY <2>3, <3>1, <3>2 DEF HasName, ToSet
  <2>4. QED
    BY <2>1, <2>2, <2>3
<1>10. ASSUME NEW z \in Instance, NEW w \in ToSet(new[z]) PROVE w \in ToSet(ln[z]) \/ w = Live(ver, w[1])
  <2>1. y = Live(ver, y[1])
    BY <1>2 DEF y
  <2>2. QED
    BY <1>5, <2>1
<1>11. QED
  BY <1>6, <1>7, <1>8, <1>9, <1>10 DEF Grown

LEMMA GrownTrans ==
  ASSUME NEW ver, NEW a, NEW b, NEW c, LinksOK(a), Grown(ver, a, b), Grown(ver, b, c)
  PROVE  Grown(ver, a, c)
BY DEF Grown

LEMMA GrownSame ==
  ASSUME NEW ver, NEW a, LinksOK(a)
  PROVE  Grown(ver, a, a)
BY DEF Grown

\* Binding keeps the links well formed whatever they were.
Links == [Instance -> Seq(Instance)]

LEMMA BindType ==
  ASSUME NEW ver, VersionsOK(ver), NEW ln \in Links, NEW conn \in Connection
  PROVE  Bind(ver, ln, conn) \in Links
<1> DEFINE x == Live(ver, conn[1])
           y == Live(ver, conn[2])
<1>1. x \in Instance /\ y \in Instance
  BY ConnectionEnds, LiveInstance
<1> HIDE DEF x, y
<1> DEFINE half == Attach(ln, x, y)
           full == Attach(half, y, x)
<1>2. half \in Links
  BY <1>1, AttachFacts DEF Links
<1> HIDE DEF half
<1>3. full \in Links
  BY <1>1, <1>2, AttachFacts DEF Links
<1>4. QED
  BY <1>3 DEF Bind, x, y, half

LEMMA BindGrows ==
  ASSUME NEW ver, VersionsOK(ver), NEW ln, LinksOK(ln), NEW conn \in Connection, NEW new, new = Bind(ver, ln, conn)
  PROVE  Grown(ver, ln, new) /\ BothBound(ver, new, conn)
<1> DEFINE half == Attach(ln, Live(ver, conn[1]), Live(ver, conn[2]))
<1>1. Grown(ver, ln, half) /\ EndBound(ver, half, conn, 1)
  <2>1. half = Attach(ln, Live(ver, conn[1]), Live(ver, conn[3 - 1]))
    OBVIOUS
  <2> HIDE DEF half
  <2>2. QED
    BY <2>1, AttachGrows
<1>2. new = Attach(half, Live(ver, conn[2]), Live(ver, conn[3 - 2]))
  BY DEF Bind
<1> HIDE DEF half
<1>3. LinksOK(half)
  BY <1>1 DEF Grown
<1>4. Grown(ver, half, new) /\ EndBound(ver, new, conn, 2)
  BY <1>2, <1>3, AttachGrows
<1>5. EndBound(ver, new, conn, 1)
  BY <1>1, <1>4 DEF Grown
<1>6. QED
  BY <1>1, <1>4, <1>5, GrownTrans DEF BothBound

LEMMA BindAllUnfolds ==
  ASSUME NEW ver, VersionsOK(ver), NEW ln \in Links, NEW conns \in Seq(Connection)
  PROVE  \E bound \in [0..Len(conns) -> Links] :
           /\ bound[0] = ln
           /\ \A k \in 1..Len(conns) : bound[k] = Bind(ver, bound[k - 1], conns[k])
           /\ BindAll(ver, ln, conns) = bound[Len(conns)]
<1> DEFINE n == Len(conns)
           step == [p \in (1..n) \X Links |-> Bind(ver, p[2], conns[p[1]])]
           Rec(b) == b = [k \in 0..n |-> IF k = 0 THEN ln ELSE Bind(ver, b[k - 1], conns[k])]
           bound == CHOOSE b : Rec(b)
<1>1. n \in Nat /\ \A k \in 1..n : conns[k] \in Connection
  BY ElementIn
<1> HIDE DEF n
<1>2. step \in Steps(Links, n)
  <2>1. \A p \in (1..n) \X Links : Bind(ver, p[2], conns[p[1]]) \in Links
    BY <1>1, BindType
  <2>2. QED
    BY <2>1 DEF Steps
<1>3. PICK f : IsRun(f, Links, n, ln, step)
  <2> HIDE DEF step
  <2>1. QED
    BY <1>1, <1>2, Recursion
<1>4. f \in [0..n -> Links] /\ f[0] = ln
  BY <1>3 DEF IsRun
<1>5. \A k \in 1..n : f[k] = Bind(ver, f[k - 1], conns[k])
  <2>1. TAKE k \in 1..n
  <2>2. k - 1 \in 0..n
    BY <1>1
  <2>3. <<k, f[k - 1]>> \in (1..n) \X Links
    BY <1>4, <2>2
  <2>4. step[<<k, f[k - 1]>>] = Bind(ver, f[k - 1], conns[k])
    BY <2>3
  <2>5. QED
    BY <1>3, <2>4 DEF IsRun
<1>6. Rec(f)
  <2>1. \A k \in 0..n : f[k] = IF k = 0 THEN ln ELSE Bind(ver, f[k - 1], conns[k])
    <3>1. \A k \in 0..n : k # 0 => k \in 1..n
      BY <1>1
    <3>2. QED
      BY <1>4, <1>5, <3>1
  <2>2. QED
    BY <1>4, <2>1
<1>7. Rec(bound)
  <2> HIDE DEF Rec
  <2>1. QED
    BY <1>6
<1>8. BindAll(ver, ln, conns) = bound[n]
  BY DEF BindAll, n
<1> HIDE DEF bound
<1>9. \A k \in 0..n : bound[k] = IF k = 0 THEN ln ELSE Bind(ver, bound[k - 1], conns[k])
  BY <1>7
<1> DEFINE T == {k \in 0..n : bound[k] \in Links}
<1>10. 0..n \subseteq T
  <2>1. 0 \in T
    BY <1>1, <1>9
  <2>2. \A k \in 1..n : k - 1 \in T => k \in T
    BY <1>1, <1>9, BindType
  <2> HIDE DEF T
  <2>3. QED
    BY <1>1, <2>1, <2>2, UpTo
<1>11. bound \in [0..n -> Links]
  BY <1>7, <1>10
<1>12. bound[0] = ln /\ \A k \in 1..n : bound[k] = Bind(ver, bound[k - 1], conns[k])
  BY <1>1, <1>9
<1>13. QED
  BY <1>8, <1>11, <1>12 DEF n

\* Binding one connection after the other binds them all.
LEMMA BindAllGrows ==
  ASSUME NEW ver, VersionsOK(ver), NEW ln, LinksOK(ln), NEW conns \in Seq(Connection), NEW new,
         new = BindAll(ver, ln, conns)
  PROVE  Grown(ver, ln, new) /\ \A c \in ToSet(conns) : BothBound(ver, new, c)
<1>1. ln \in Links /\ Len(conns) \in Nat /\ \A k \in 1..Len(conns) : conns[k] \in Connection
  BY ElementIn DEF LinksOK, Links
<1>2. PICK bound \in [0..Len(conns) -> Links] :
         /\ bound[0] = ln
         /\ \A k \in 1..Len(conns) : bound[k] = Bind(ver, bound[k - 1], conns[k])
         /\ new = bound[Len(conns)]
  BY <1>1, BindAllUnfolds
<1> DEFINE Done(k) == Grown(ver, ln, bound[k]) /\ \A j \in 1..k : BothBound(ver, bound[k], conns[j])
           T == {k \in 0..Len(conns) : Done(k)}
<1>3. 0 \in T
  BY <1>1, <1>2, GrownSame
<1>4. ASSUME NEW k \in 1..Len(conns), k - 1 \in T PROVE k \in T
  <2>1. Grown(ver, ln, bound[k - 1]) /\ \A j \in 1..(k - 1) : BothBound(ver, bound[k - 1], conns[j])
    BY <1>4
  <2>2. LinksOK(bound[k - 1])
    BY <2>1 DEF Grown
  <2>3. Grown(ver, bound[k - 1], bound[k]) /\ BothBound(ver, bound[k], conns[k])
    BY <1>1, <1>2, <2>2, BindGrows
  <2>4. Grown(ver, ln, bound[k])
    BY <2>1, <2>3, GrownTrans
  <2>5. ASSUME NEW j \in 1..k PROVE BothBound(ver, bound[k], conns[j])
    <3>1. CASE j = k
      BY <3>1, <2>3
    <3>2. CASE j # k
      <4>1. j \in 1..(k - 1) /\ j \in 1..Len(conns)
        BY <3>2, <1>1
      <4>2. QED
        BY <1>1, <2>1, <2>3, <4>1 DEF BothBound, Grown
    <3>3. QED
      BY <3>1, <3>2
  <2>6. QED
    BY <2>4, <2>5
<1>5. 0..Len(conns) \subseteq T
  <2> HIDE DEF T
  <2>1. QED
    BY <1>1, <1>3, <1>4, UpTo
<1>6. Done(Len(conns))
  BY <1>1, <1>5
<1>7. QED
  BY <1>2, <1>6 DEF ToSet

LEMMA ConnectionLists ==
  /\ External \in Seq(Connection)
  /\ \A e \in ToSet(Ecus) : Internal[e] \in Seq(Connection)
<1>1. External \in Seq(Connection)
  <2>1. External \in Seq(EcuPort \X EcuPort)
    BY ConnectionAssumption
  <2>2. \A k \in 1..Len(External) : External[k] \in Connection
    BY <2>1 DEF Connection, ToSet
  <2>3. QED
    BY <2>1, <2>2, SeqInto
<1>2. ASSUME NEW e \in ToSet(Ecus) PROVE Internal[e] \in Seq(Connection)
  <2>1. Internal[e] \in Seq(Component \X Component)
    BY ConnectionAssumption
  <2>2. \A k \in 1..Len(Internal[e]) : Internal[e][k] \in ToSet(Internal[e])
    BY <2>1 DEF ToSet
  <2>3. \A k \in 1..Len(Internal[e]) : Internal[e][k] \in Connection
    BY <2>2 DEF Connection
  <2>4. QED
    BY <2>1, <2>3, SeqInto
<1>3. QED
  BY <1>1, <1>2

LEMMA EcuList ==
  Len(Ecus) \in Nat /\ \A k \in 1..Len(Ecus) : Ecus[k] \in ToSet(Ecus)
<1>1. Ecus \in Seq(ToSet(Ecus))
  BY ConnectionAssumption
<1>2. QED
  BY <1>1 DEF ToSet

LEMMA ReboundIs ==
  ASSUME NEW es
  PROVE  /\ Rebound(es) \in Seq(Connection)
         /\ ToSet(External) \subseteq ToSet(Rebound(es))
         /\ \A e \in ToSet(Ecus) \cap es : ToSet(Internal[e]) \subseteq ToSet(Rebound(es))
<1> DEFINE s == [k \in DOMAIN Ecus |-> IF Ecus[k] \in es THEN Internal[Ecus[k]] ELSE << >>]
           own == FlattenSeq(s)
<1>1. s \in Seq(Seq(Connection)) /\ Len(s) = Len(Ecus) /\ DOMAIN Ecus = 1..Len(Ecus)
  <2>1. Ecus \in Seq(ToSet(Ecus))
    BY ConnectionAssumption
  <2>2. DOMAIN Ecus = 1..Len(Ecus) /\ Len(Ecus) \in Nat
    BY <2>1
  <2>3. \A k \in 1..Len(Ecus) : s[k] \in Seq(Connection)
    BY <2>2, EcuList, ConnectionLists
  <2>4. s \in [1..Len(Ecus) -> Seq(Connection)]
    BY <2>2, <2>3
  <2> HIDE DEF s
  <2>5. QED
    BY <2>2, <2>4
<1>2. \A k \in 1..Len(Ecus) : Ecus[k] \in es => s[k] = Internal[Ecus[k]]
  BY <1>1
<1>3. Rebound(es) = own \o External
  BY DEF Rebound
<1> HIDE DEF s
<1>4. own \in Seq(Connection) /\ \A x : x \in ToSet(own) <=> \E k \in 1..Len(s) : x \in ToSet(s[k])
  BY <1>1, FlattenPlaces, FlattenElements
<1> HIDE DEF own
<1>5. Rebound(es) \in Seq(Connection) /\ ToSet(Rebound(es)) = ToSet(own) \cup ToSet(External)
  BY <1>3, <1>4, ConnectionLists, ConcatSet
<1>6. \A e \in ToSet(Ecus) : \E j \in 1..Len(Ecus) : e = Ecus[j]
  BY ConnectionAssumption DEF ToSet
<1>7. ASSUME NEW e \in ToSet(Ecus) \cap es PROVE ToSet(Internal[e]) \subseteq ToSet(own)
  <2>1. PICK j \in 1..Len(Ecus) : e = Ecus[j]
    BY <1>6
  <2>2. s[j] = Internal[e]
    BY <1>2, <2>1
  <2>3. QED
    BY <1>1, <1>4, <2>2
<1>8. QED
  BY <1>5, <1>7

\* Building the model binds the connections of the ECUs in es and all between
\* ECUs, and undoes nothing.
LEMMA BuildGrows ==
  ASSUME NEW ver, VersionsOK(ver), NEW ln, LinksOK(ln), NEW es, NEW new, new = BindAll(ver, ln, Rebound(es))
  PROVE  /\ Grown(ver, ln, new)
         /\ \A c \in ToSet(External) : BothBound(ver, new, c)
         /\ \A e \in ToSet(Ecus) \cap es : \A c \in ToSet(Internal[e]) : BothBound(ver, new, c)
<1>1. Grown(ver, ln, new) /\ \A c \in ToSet(Rebound(es)) : BothBound(ver, new, c)
  BY ReboundIs, BindAllGrows
<1>2. QED
  BY <1>1, ReboundIs

-----------------------------------------------------------------------------
(* The links of a running model.                                           *)

Exists(ver, x) == x[2] \in 1..Len(ver[DocOf[x[1]]])

\* Every connection is bound between the components of now, every instance that
\* was loaded has been given a partner of each name it is joined with, and
\* partners have been loaded.
LinkInv(ver, ln) ==
  /\ LinksOK(ln)
  /\ \A c \in Connection : BothBound(ver, ln, c)
  /\ \A x \in Instance : \A b \in Component : Exists(ver, x) /\ Joined(x[1], b) => HasName(ln, x, b)
  /\ \A x \in Instance : \A y \in ToSet(ln[x]) : Exists(ver, y)

Linked == VersionsOK(versions) /\ LinkInv(versions, links)

LEMMA LiveExists ==
  ASSUME NEW ver, VersionsOK(ver), NEW c \in Component
  PROVE  Exists(ver, Live(ver, c))
<1>1. Len(ver[DocOf[c]]) \in Version /\ Len(ver[DocOf[c]]) \in Nat
  BY LiveInstance, TopologyAssumption DEF VersionsOK, Version
<1>2. QED
  BY <1>1, TopologyAssumption, LiveInstance DEF Exists, Version

\* The first two kinds of partners are there when all connections are bound.
LEMMA JoinedBound ==
  ASSUME NEW ver, VersionsOK(ver), NEW ln, \A c \in Connection : BothBound(ver, ln, c),
         NEW a \in Component, NEW b \in Component, Joined(a, b)
  PROVE  HasName(ln, Live(ver, a), b)
<1>1. CASE <<a, b>> \in Connection
  <2>1. EndBound(ver, ln, <<a, b>>, 1)
    BY <1>1 DEF BothBound
  <2>2. QED
    BY <2>1, LiveInstance DEF EndBound
<1>2. CASE <<b, a>> \in Connection
  <2>1. EndBound(ver, ln, <<b, a>>, 2)
    BY <1>2 DEF BothBound
  <2>2. QED
    BY <2>1, LiveInstance DEF EndBound
<1>3. QED
  BY <1>1, <1>2 DEF Joined

\* A full load links everything.
LEMMA LoadedLinks ==
  ASSUME NEW ver, VersionsOK(ver),
         \A d \in Document : Len(ver[d]) = 1
  PROVE  LinkInv(ver, Loaded(ver).links)
<1> DEFINE new == BindAll(ver, NoLinks, Rebound(ToSet(Ecus)))
<1>1. Loaded(ver).links = new
  BY DEF Loaded, Build
<1>2. LinksOK(NoLinks)
  BY DEF LinksOK, NoLinks
<1>3. /\ Grown(ver, NoLinks, new)
      /\ \A c \in ToSet(External) : BothBound(ver, new, c)
      /\ \A e \in ToSet(Ecus) : \A c \in ToSet(Internal[e]) : BothBound(ver, new, c)
  <2>1. /\ Grown(ver, NoLinks, new)
        /\ \A c \in ToSet(External) : BothBound(ver, new, c)
        /\ \A e \in ToSet(Ecus) \cap ToSet(Ecus) : \A c \in ToSet(Internal[e]) : BothBound(ver, new, c)
    <3> HIDE DEF new
    <3>1. new = BindAll(ver, NoLinks, Rebound(ToSet(Ecus)))
      BY DEF new
    <3>2. QED
      BY <1>2, <3>1, BuildGrows
  <2> HIDE DEF new
  <2>2. QED
    BY <2>1
<1> HIDE DEF new
<1>4. \A c \in Connection : BothBound(ver, new, c)
  BY <1>3 DEF Connection
<1>5. ASSUME NEW x \in Instance, NEW b \in Component, Exists(ver, x), Joined(x[1], b) PROVE HasName(new, x, b)
  <2>1. x[1] \in Component /\ x = <<x[1], x[2]>>
    BY DEF Instance
  <2>2. x[2] = 1 /\ Len(ver[DocOf[x[1]]]) = 1
    <3>1. DocOf[x[1]] \in Document
      BY <2>1 DEF Document
    <3>2. Len(ver[DocOf[x[1]]]) = 1 /\ x[2] \in 1..1
      BY <1>5, <3>1 DEF Exists
    <3>3. QED
      BY <3>2
  <2>3. x = Live(ver, x[1])
    BY <2>1, <2>2 DEF Live
  <2>4. QED
    BY <1>4, <1>5, <2>1, <2>3, JoinedBound
<1>6. ASSUME NEW x \in Instance, NEW y \in ToSet(new[x]) PROVE Exists(ver, y)
  <2>1. y \notin ToSet(NoLinks[x])
    BY DEF NoLinks, ToSet
  <2>2. y = Live(ver, y[1])
    BY <1>3, <2>1 DEF Grown
  <2>3. new[x] \in Seq(Instance)
    BY <1>3 DEF Grown, LinksOK
  <2>4. y \in Instance
    BY <1>6, <2>3, MemberOfSeq
  <2>5. y[1] \in Component
    BY <2>4 DEF Instance
  <2>6. QED
    BY <2>2, <2>5, LiveExists
<1>7. QED
  BY <1>1, <1>3, <1>4, <1>5, <1>6 DEF LinkInv, Grown

\* Saving a document once more.
After(d, v) == [versions EXCEPT ![d] = Append(@, v)]

LEMMA AfterIs ==
  ASSUME VersionsOK(versions), NEW d \in Document, NEW v \in Offered[d], Len(versions[d]) < MaxVersions
  PROVE  /\ VersionsOK(After(d, v))
         /\ \A c \in Document \ {d} : After(d, v)[c] = versions[c]
         /\ Len(After(d, v)[d]) = Len(versions[d]) + 1
         /\ \A n \in DOMAIN versions[d] : After(d, v)[d][n] = versions[d][n]
         /\ After(d, v)[d][Len(versions[d]) + 1] = v
<1> DEFINE new == After(d, v)
<1>1. /\ versions[d] \in Seq(Setting) /\ v \in Setting
      /\ Len(versions[d]) \in Version /\ Len(versions[d]) \in Nat /\ MaxVersions \in Nat
  BY DocumentAssumption, TopologyAssumption DEF VersionsOK, Version
<1>2. new[d] = Append(versions[d], v) /\ \A c \in Document \ {d} : new[c] = versions[c]
  BY DEF After, VersionsOK
<1>3. new \in [Document -> Seq(Setting)]
  BY <1>1 DEF After, VersionsOK
<1> HIDE DEF new
<1>4. /\ Len(new[d]) = Len(versions[d]) + 1
      /\ \A n \in DOMAIN versions[d] : new[d][n] = versions[d][n]
      /\ new[d][Len(versions[d]) + 1] = v
      /\ DOMAIN versions[d] = 1..Len(versions[d]) /\ DOMAIN new[d] = 1..(Len(versions[d]) + 1)
  BY <1>1, <1>2
<1>5. Len(new[d]) \in Version
  BY <1>1, <1>4 DEF Version
<1>6. \A n \in DOMAIN new[d] : new[d][n] \in Offered[d]
  BY <1>1, <1>4 DEF VersionsOK
<1>7. VersionsOK(new)
  BY <1>2, <1>3, <1>5, <1>6 DEF VersionsOK
<1>8. QED
  BY <1>2, <1>4, <1>7 DEF new

LEMMA UpdateLinks ==
  ASSUME Linked, NEW d \in Document, NEW v \in Offered[d], Len(versions[d]) < MaxVersions,
         NEW new, new = BindAll(After(d, v), links, Rebound({EcuOf[d]}))
  PROVE  LinkInv(After(d, v), new)
<1> DEFINE ver == After(d, v)
<1>1. /\ VersionsOK(ver)
      /\ \A c \in Document \ {d} : ver[c] = versions[c]
      /\ Len(ver[d]) = Len(versions[d]) + 1
      /\ new = BindAll(ver, links, Rebound({EcuOf[d]}))
  BY AfterIs DEF Linked
<1> HIDE DEF ver
<1>2. LinksOK(links)
  BY DEF Linked, LinkInv
<1>3. /\ Grown(ver, links, new)
      /\ \A c \in ToSet(External) : BothBound(ver, new, c)
      /\ \A e \in ToSet(Ecus) \cap {EcuOf[d]} : \A c \in ToSet(Internal[e]) : BothBound(ver, new, c)
  BY <1>1, <1>2, BuildGrows
<1>4. \A x : Exists(versions, x) /\ DocOf[x[1]] \in Document => Exists(ver, x)
  <2>1. \A c \in Document : Len(versions[c]) \in Nat /\ Len(ver[c]) >= Len(versions[c])
    BY <1>1 DEF Linked, VersionsOK, Version
  <2>2. \A c \in Document : Len(ver[c]) \in Nat
    BY <1>1 DEF VersionsOK, Version
  <2>3. QED
    BY <2>1, <2>2 DEF Exists
<1>5. ASSUME NEW c \in Connection PROVE BothBound(ver, new, c)
  <2>1. CASE c \in ToSet(External)
    BY <1>3, <2>1
  <2>2. ASSUME NEW e \in ToSet(Ecus), e # EcuOf[d], c \in ToSet(Internal[e]) PROVE BothBound(ver, new, c)
    <3>1. \A i \in {1, 2} : c[i] \in Component /\ DocOf[c[i]] \in Document /\ DocOf[c[i]] # d
      BY <2>2, ConnectionAssumption, ConnectionEnds DEF Document
    <3>2. \A i \in {1, 2} : Live(ver, c[i]) = Live(versions, c[i])
      BY <1>1, <3>1 DEF Live
    <3>3. BothBound(versions, links, c)
      BY DEF Linked, LinkInv
    <3>4. BothBound(ver, links, c)
      BY <3>2, <3>3 DEF BothBound, EndBound
    <3>5. QED
      BY <1>3, <3>4 DEF BothBound, Grown
  <2>3. ASSUME NEW e \in ToSet(Ecus), e = EcuOf[d], c \in ToSet(Internal[e]) PROVE BothBound(ver, new, c)
    BY <1>3, <2>3
  <2>4. QED
    BY <2>1, <2>2, <2>3 DEF Connection
<1>6. ASSUME NEW x \in Instance, NEW b \in Component, Exists(ver, x), Joined(x[1], b) PROVE HasName(new, x, b)
  <2>1. x[1] \in Component /\ x = <<x[1], x[2]>> /\ DocOf[x[1]] \in Document
    BY DEF Instance, Document
  <2>2. CASE Exists(versions, x)
    <3>1. HasName(links, x, b)
      BY <1>6, <2>2 DEF Linked, LinkInv
    <3>2. QED
      BY <1>3, <3>1 DEF Grown
  <2>3. CASE ~Exists(versions, x)
    <3>1. Len(versions[DocOf[x[1]]]) \in Nat
      BY <2>1 DEF Linked, VersionsOK, Version
    <3>2. x[2] = Len(ver[DocOf[x[1]]])
      BY <1>1, <1>6, <2>1, <2>3, <3>1 DEF Exists
    <3>3. x = Live(ver, x[1])
      BY <2>1, <3>2 DEF Live
    <3>4. QED
      BY <1>1, <1>5, <1>6, <2>1, <3>3, JoinedBound
  <2>4. QED
    BY <2>2, <2>3
<1>7. ASSUME NEW x \in Instance, NEW y \in ToSet(new[x]) PROVE Exists(ver, y)
  <2>1. new[x] \in Seq(Instance)
    BY <1>3 DEF Grown, LinksOK
  <2>2. y \in Instance
    BY <1>7, <2>1, MemberOfSeq
  <2>3. y[1] \in Component /\ DocOf[y[1]] \in Document
    BY <2>2 DEF Instance, Document
  <2>4. y \in ToSet(links[x]) \/ y = Live(ver, y[1])
    BY <1>3 DEF Grown
  <2>5. QED
    BY <1>1, <1>4, <2>3, <2>4, LiveExists DEF Linked, LinkInv
<1>8. QED
  BY <1>3, <1>5, <1>6, <1>7 DEF LinkInv, Grown, ver

\* What a full load starts from: the last of each document.
Latest == [d \in Document |-> <<Last(versions[d])>>]

LEMMA InitVersions ==
  ASSUME Init
  PROVE  VersionsOK(versions) /\ \A d \in Document : Len(versions[d]) = 1
<1>1. versions \in [Document -> {<<v>> : v \in UNION {Offered[d] : d \in Document}}]
  BY DEF Init
<1>2. ASSUME NEW d \in Document
      PROVE  /\ versions[d] \in Seq(Setting) /\ Len(versions[d]) = 1
             /\ \A n \in DOMAIN versions[d] : versions[d][n] \in Offered[d]
  <2>1. PICK v \in UNION {Offered[c] : c \in Document} : versions[d] = <<v>>
    BY <1>1
  <2>2. v \in Setting
    BY DocumentAssumption
  <2>3. versions[d][1] \in Offered[d]
    BY DEF Init
  <2>4. DOMAIN versions[d] = {1} /\ Len(versions[d]) = 1
    BY <2>1
  <2>5. QED
    BY <2>1, <2>2, <2>3, <2>4
<1>3. 1 \in Version
  BY TopologyAssumption DEF Version
<1>4. QED
  BY <1>1, <1>2, <1>3 DEF VersionsOK

LEMMA LatestVersions ==
  ASSUME VersionsOK(versions)
  PROVE  /\ VersionsOK(Latest)
         /\ \A d \in Document : Len(Latest[d]) = 1 /\ Latest[d][1] = versions[d][Len(versions[d])]
<1>1. ASSUME NEW d \in Document
      PROVE  /\ Latest[d] \in Seq(Setting) /\ Len(Latest[d]) = 1
             /\ Latest[d][1] = versions[d][Len(versions[d])]
             /\ \A n \in DOMAIN Latest[d] : Latest[d][n] \in Offered[d]
  <2>1. Latest[d] = <<versions[d][Len(versions[d])]>>
    BY DEF Latest, Last
  <2>2. versions[d] \in Seq(Setting) /\ Len(versions[d]) \in 1..MaxVersions /\ MaxVersions \in Nat
    BY TopologyAssumption DEF VersionsOK, Version
  <2>3. Len(versions[d]) \in DOMAIN versions[d]
    BY <2>2
  <2>4. versions[d][Len(versions[d])] \in Offered[d]
    BY <2>3 DEF VersionsOK
  <2>5. versions[d][Len(versions[d])] \in Setting
    BY <2>4, DocumentAssumption
  <2>6. QED
    BY <2>1, <2>4, <2>5
<1>2. 1 \in Version
  BY TopologyAssumption DEF Version
<1>3. Latest \in [Document -> Seq(Setting)]
  BY <1>1 DEF Latest
<1>4. QED
  BY <1>1, <1>2, <1>3 DEF VersionsOK

LEMMA LinkedInit == ASSUME Init PROVE Linked
<1>1. links = Loaded(versions).links
  BY DEF Init
<1>2. QED
  BY <1>1, InitVersions, LoadedLinks DEF Linked

LEMMA LinkedNext == ASSUME Linked, [Next]_vars PROVE Linked'
<1>1. CASE UNCHANGED vars
  <2>1. versions' = versions /\ links' = links
    BY <1>1 DEF vars
  <2>2. QED
    BY <2>1 DEF Linked
<1>2. CASE Reload
  <2>1. versions' = Latest /\ links' = Loaded(Latest).links
    BY <1>2 DEF Reload, Become, Latest
  <2>2. VersionsOK(Latest) /\ LinkInv(Latest, Loaded(Latest).links)
    BY LatestVersions, LoadedLinks DEF Linked
  <2>3. QED
    BY <2>1, <2>2 DEF Linked
<1>3. ASSUME NEW d \in Document, NEW v \in Offered[d], UpdateDocument(d, v) PROVE Linked'
  <2>1. /\ Len(versions[d]) < MaxVersions
        /\ versions' = After(d, v)
        /\ links' = BindAll(After(d, v), links, Rebound({EcuOf[d]}))
    BY <1>3 DEF UpdateDocument, Become, After, Build
  <2>2. VersionsOK(After(d, v))
    BY <2>1, AfterIs DEF Linked
  <2>3. LinkInv(After(d, v), links')
    BY <2>1, UpdateLinks
  <2>4. QED
    BY <2>1, <2>2, <2>3 DEF Linked
<1>4. QED
  BY <1>1, <1>2, <1>3 DEF Next

THEOREM LinksHold == Spec => []Linked
<1>1. Init => Linked
  BY LinkedInit
<1>2. Linked /\ [Next]_vars => Linked'
  BY LinkedNext
<1>3. QED
  BY <1>1, <1>2, PTL DEF Spec

\* However documents are replaced and loaded again, the components that are
\* joined inside an ECU find each other: BaseComponent.add_connected_component
\* and resolve_topology_connections leave a switch port its partner of now, and
\* an interface has it among its partners.
THEOREM JoinedFindEachOther == Spec => []PartnersFound
<1>1. Linked => PartnersFound
  <2> SUFFICES ASSUME Linked, NEW e \in ToSet(Ecus), NEW k \in DOMAIN Internal[e], NEW i \in {1, 2},
                      Live(versions, Internal[e][k][i])[1] \notin EcuPort
               PROVE  LET x == Live(versions, Internal[e][k][i])
                          y == Live(versions, Internal[e][k][3 - i])
                      IN /\ y \in ToSet(links[x])
                         /\ x[1] \in SwitchPort => links[x] = <<y>>
    BY DEF PartnersFound
  <2>1. Internal[e][k] \in Connection
    BY DEF Connection, ToSet
  <2>2. EndBound(versions, links, Internal[e][k], i)
    BY <2>1 DEF Linked, LinkInv, BothBound
  <2>3. QED
    BY <2>2 DEF EndBound
<1>2. QED
  BY <1>1, LinksHold, PTL

-----------------------------------------------------------------------------
(* Memberships.                                                            *)

Membership == [group : Group, mode : {"tx", "rx"}, iface : Instance, solicited : BOOLEAN]

\* A membership of an interface that is in the model, of the ECU e.
OfEcu(ver, e, m) ==
  m.iface[1] \in ToSet(InterfacesOf[e]) /\ m.iface[1] \in Interface /\ m.iface = Live(ver, m.iface[1])

Solicits(ver, e, m) ==
  m.solicited /\ m.group # Configured /\ m.iface \in ToSet(Having(ver, e, "v6"))

LEMMA GroupsApart == \A i : <<"solicited", i>> # Configured
<1>1. ASSUME NEW i PROVE <<"solicited", i>> # Configured
  <2>1. Len(<<"solicited", i>>) = 2
    OBVIOUS
  <2>2. Len(<<"configured">>) = 1
    OBVIOUS
  <2>3. QED
    BY <2>1, <2>2 DEF Configured
<1>2. QED
  BY <1>1

LEMMA HavingIs ==
  ASSUME NEW ver, VersionsOK(ver), NEW e \in ToSet(Ecus), NEW what
  PROVE  /\ Having(ver, e, what) \in Seq(Instance)
         /\ \A x \in ToSet(Having(ver, e, what)) :
              x[1] \in ToSet(InterfacesOf[e]) /\ x[1] \in Interface /\ x = Live(ver, x[1])
<1> DEFINE Piece(k) == LET x == Live(ver, InterfacesOf[e][k])
                       IN IF {"vlan", what} \subseteq Written(ver, x) THEN <<x>> ELSE << >>
           s == [k \in DOMAIN InterfacesOf[e] |-> Piece(k)]
           has == FlattenSeq(s)
<1>1. has = Having(ver, e, what)
  BY DEF Having
<1>2. /\ InterfacesOf[e] \in Seq(Interface) /\ DOMAIN InterfacesOf[e] = 1..Len(InterfacesOf[e])
      /\ Len(InterfacesOf[e]) \in Nat
  BY ConnectionAssumption
<1>3. ASSUME NEW k \in 1..Len(InterfacesOf[e])
      PROVE  /\ InterfacesOf[e][k] \in Interface /\ InterfacesOf[e][k] \in ToSet(InterfacesOf[e])
             /\ Live(ver, InterfacesOf[e][k]) \in Instance
             /\ Live(ver, InterfacesOf[e][k])[1] = InterfacesOf[e][k]
  <2>1. InterfacesOf[e][k] \in Interface
    BY <1>2, ElementIn
  <2>2. InterfacesOf[e][k] \in ToSet(InterfacesOf[e])
    BY <1>2 DEF ToSet
  <2>3. InterfacesOf[e][k] \in Component
    BY <2>1 DEF Component
  <2>4. QED
    BY <2>1, <2>2, <2>3, LiveInstance
<1>4. ASSUME NEW k \in 1..Len(InterfacesOf[e])
      PROVE  Piece(k) \in Seq(Instance) /\ \A x \in ToSet(Piece(k)) : x = Live(ver, InterfacesOf[e][k])
  <2> DEFINE x == Live(ver, InterfacesOf[e][k])
  <2>1. Piece(k) = <<x>> \/ Piece(k) = << >>
    OBVIOUS
  <2> HIDE DEF Piece
  <2>2. x \in Instance
    BY <1>3
  <2> HIDE DEF x
  <2>3. ToSet(<<x>>) = {x} /\ ToSet(<< >>) = {}
    BY DEF ToSet
  <2>4. Piece(k) \in Seq(Instance)
    <3>1. <<x>> \in Seq(Instance) /\ << >> \in Seq(Instance)
      BY <2>2
    <3>2. QED
      BY <2>1, <3>1
  <2>5. \A y \in ToSet(Piece(k)) : y = x
    BY <2>1, <2>3
  <2>6. QED
    BY <2>4, <2>5 DEF x
<1> HIDE DEF Piece
<1>5. s \in Seq(Seq(Instance)) /\ Len(s) = Len(InterfacesOf[e])
  <2>1. s \in [1..Len(InterfacesOf[e]) -> Seq(Instance)]
    BY <1>2, <1>4
  <2> HIDE DEF s
  <2>2. QED
    BY <1>2, <2>1
<1>6. \A k \in 1..Len(InterfacesOf[e]) : s[k] = Piece(k)
  BY <1>2
<1> HIDE DEF s
<1>7. has \in Seq(Instance) /\ \A x : x \in ToSet(has) <=> \E k \in 1..Len(s) : x \in ToSet(s[k])
  BY <1>5, FlattenPlaces, FlattenElements
<1> HIDE DEF has
<1>8. ASSUME NEW x \in ToSet(has)
      PROVE  x[1] \in ToSet(InterfacesOf[e]) /\ x[1] \in Interface /\ x = Live(ver, x[1])
  <2>1. PICK k \in 1..Len(InterfacesOf[e]) : x \in ToSet(Piece(k))
    BY <1>5, <1>6, <1>7
  <2>2. x = Live(ver, InterfacesOf[e][k])
    BY <1>4, <2>1
  <2>3. QED
    BY <1>3, <2>2
<1>9. QED
  BY <1>1, <1>7, <1>8

\* What an ECU has depends on its own documents alone.
LEMMA HavingSame ==
  ASSUME NEW a, NEW b, NEW e \in ToSet(Ecus), NEW what,
         \A d \in Document : EcuOf[d] = e => a[d] = b[d]
  PROVE  Having(a, e, what) = Having(b, e, what)
<1>1. ASSUME NEW k \in DOMAIN InterfacesOf[e]
      PROVE  /\ Live(a, InterfacesOf[e][k]) = Live(b, InterfacesOf[e][k])
             /\ Written(a, Live(a, InterfacesOf[e][k])) = Written(b, Live(b, InterfacesOf[e][k]))
  <2> DEFINE i == InterfacesOf[e][k]
  <2>1. i \in ToSet(InterfacesOf[e])
    BY DEF ToSet
  <2>2. i \in Interface
    <3>1. InterfacesOf[e] \in Seq(Interface)
      BY ConnectionAssumption
    <3>2. QED
      BY <2>1, <3>1, MemberOfSeq
  <2>3. DocOf[i] \in Document /\ EcuOf[DocOf[i]] = e
    BY <2>1, <2>2, ConnectionAssumption DEF Document, Component
  <2> HIDE DEF i
  <2>4. a[DocOf[i]] = b[DocOf[i]]
    BY <2>3
  <2>5. Live(a, i) = Live(b, i) /\ Live(a, i)[1] = i
    BY <2>4 DEF Live
  <2>6. Written(a, Live(a, i)) = Written(b, Live(b, i))
    BY <2>4, <2>5 DEF Written
  <2>7. QED
    BY <2>5, <2>6 DEF i
<1>2. QED
  BY <1>1 DEF Having

LEMMA EcuMembershipsIs ==
  ASSUME NEW ver, VersionsOK(ver), NEW e \in ToSet(Ecus)
  PROVE  /\ EcuMemberships(ver, e) \in Seq(Membership)
         /\ \A m \in ToSet(EcuMemberships(ver, e)) : m.group = Configured /\ ~m.solicited /\ OfEcu(ver, e, m)
<1> DEFINE tx == Having(ver, e, "tx")
           rx == Having(ver, e, "rx")
           sends == [k \in DOMAIN tx |-> Membr(Configured, "tx", tx[k], FALSE)]
           hears == [k \in DOMAIN rx |-> Membr(Configured, "rx", rx[k], FALSE)]
           Good(m) == m \in Membership /\ m.group = Configured /\ ~m.solicited /\ OfEcu(ver, e, m)
<1>1. EcuMemberships(ver, e) = sends \o hears
  BY DEF EcuMemberships
<1>2. ASSUME NEW mode \in {"tx", "rx"}, NEW has, has \in Seq(Instance),
             \A x \in ToSet(has) : x[1] \in ToSet(InterfacesOf[e]) /\ x[1] \in Interface /\ x = Live(ver, x[1]),
             NEW s, s = [k \in DOMAIN has |-> Membr(Configured, mode, has[k], FALSE)]
      PROVE  s \in Seq(Membership) /\ \A m \in ToSet(s) : Good(m)
  <2>1. DOMAIN has = 1..Len(has) /\ Len(has) \in Nat /\ \A k \in DOMAIN has : has[k] \in Instance /\ has[k] \in ToSet(has)
    BY <1>2 DEF ToSet
  <2>2. ASSUME NEW k \in DOMAIN has PROVE Good(s[k])
    <3>1. s[k] = [group |-> Configured, mode |-> mode, iface |-> has[k], solicited |-> FALSE]
      BY <1>2 DEF Membr
    <3>2. s[k] \in Membership
      BY <2>1, <3>1 DEF Membership, Group
    <3>3. s[k].group = Configured /\ s[k].solicited = FALSE /\ s[k].iface = has[k]
      BY <3>1
    <3>4. OfEcu(ver, e, s[k])
      BY <1>2, <2>1, <3>3 DEF OfEcu
    <3>5. QED
      BY <3>2, <3>3, <3>4
  <2>3. DOMAIN s = 1..Len(has)
    BY <1>2, <2>1
  <2>4. s \in [1..Len(has) -> Membership]
    BY <1>2, <2>1, <2>2
  <2> HIDE DEF Good
  <2>5. s \in Seq(Membership)
    BY <2>1, <2>4
  <2>6. QED
    BY <2>1, <2>2, <2>3, <2>5 DEF ToSet
<1>3. sends \in Seq(Membership) /\ \A m \in ToSet(sends) : Good(m)
  BY <1>2, HavingIs
<1>4. hears \in Seq(Membership) /\ \A m \in ToSet(hears) : Good(m)
  BY <1>2, HavingIs
<1> HIDE DEF sends, hears
<1>5. QED
  BY <1>1, <1>3, <1>4, ConcatSet

\* The membership of an ECU that hears with its last virtual interface.
LastRx(ver, e) ==
  LET v6 == Having(ver, e, "v6")
  IN Membr(<<"solicited", v6[Len(v6)][1]>>, "rx", v6[Len(v6)], TRUE)

LEMMA SolicitedRxIs ==
  ASSUME NEW ver, VersionsOK(ver), NEW e \in ToSet(Ecus)
  PROVE  /\ Having(ver, e, "v6") = << >> => SolicitedRx(ver, e) = << >>
         /\ Having(ver, e, "v6") # << >> =>
              /\ SolicitedRx(ver, e) = <<LastRx(ver, e)>>
              /\ LastRx(ver, e) \in Membership /\ Solicits(ver, e, LastRx(ver, e))
              /\ LastRx(ver, e).iface[1] \in ToSet(InterfacesOf[e]) /\ LastRx(ver, e).iface[1] \in Interface
              /\ \E i \in Interface : LastRx(ver, e).group = <<"solicited", i>>
<1> DEFINE v6 == Having(ver, e, "v6")
           one(k) == Membr(<<"solicited", v6[k][1]>>, "rx", v6[k], TRUE)
           s == [k \in DOMAIN v6 |-> one(k)]
<1>1. SolicitedRx(ver, e) = LastOnly(s) /\ LastRx(ver, e) = one(Len(v6))
  BY DEF SolicitedRx, LastRx
<1>2. v6 \in Seq(Instance) /\ \A x \in ToSet(v6) : x[1] \in ToSet(InterfacesOf[e]) /\ x[1] \in Interface
  BY HavingIs
<1>3. DOMAIN v6 = 1..Len(v6) /\ Len(v6) \in Nat
  BY <1>2
<1>4. Solicits(ver, e, LastRx(ver, e)) <=> Solicits(ver, e, one(Len(v6)))
  BY <1>1
<1>5. \A m : m.solicited /\ m.group # Configured /\ m.iface \in ToSet(v6) => Solicits(ver, e, m)
  BY DEF Solicits
<1> HIDE DEF v6
<1>6. CASE v6 = << >>
  <2>1. s = << >>
    BY <1>6
  <2>2. QED
    BY <1>1, <1>6, <2>1 DEF LastOnly, v6
<1>7. CASE v6 # << >>
  <2>1. Len(v6) \in DOMAIN v6 /\ Len(v6) >= 1
    BY <1>2, <1>3, <1>7
  <2> DEFINE x == v6[Len(v6)]
  <2>2. x \in ToSet(v6) /\ x \in Instance
    BY <1>2, <1>3, <2>1, ElementIn DEF ToSet
  <2>3. s # << >> /\ Len(s) = Len(v6) /\ s[Len(s)] = one(Len(v6))
    <3> HIDE DEF one
    <3>1. DOMAIN s = 1..Len(v6) /\ s[Len(v6)] = one(Len(v6))
      BY <1>3, <2>1
    <3>2. Len(s) = Len(v6)
      BY <1>3, <3>1
    <3>3. s # << >>
      BY <2>1, <3>1
    <3>4. QED
      BY <3>1, <3>2, <3>3
  <2>4. SolicitedRx(ver, e) = <<one(Len(v6))>>
    <3> HIDE DEF s, one
    <3>1. QED
      BY <1>1, <2>3 DEF LastOnly, Last
  <2> HIDE DEF s, x
  <2>5. one(Len(v6)) = [group |-> <<"solicited", x[1]>>, mode |-> "rx", iface |-> x, solicited |-> TRUE]
    BY DEF Membr, x
  <2> HIDE DEF one
  <2>6. x[1] \in Interface /\ x[1] \in ToSet(InterfacesOf[e])
    BY <1>2, <2>2
  <2>7. one(Len(v6)) \in Membership
    BY <2>2, <2>5, <2>6 DEF Membership, Group
  <2>8. /\ one(Len(v6)).group = <<"solicited", x[1]>> /\ one(Len(v6)).solicited = TRUE
        /\ one(Len(v6)).iface = x
    BY <2>5
  <2>9. Solicits(ver, e, one(Len(v6)))
    BY <1>5, <2>2, <2>8, GroupsApart
  <2>10. QED
    BY <1>1, <1>7, <2>4, <2>6, <2>7, <2>8, <2>9 DEF v6
<1>8. QED
  BY <1>6, <1>7

\* The ECUs, by their place in the model, whose last virtual interface e sends
\* to; and what it sends.
HeardFrom(ver, e) ==
  {k \in 1..Len(Ecus) : /\ Having(ver, Ecus[k], "v6") # << >>
                        /\ Others(Having(ver, e, "v6"), LastRx(ver, Ecus[k])) # {}}

TxTo(ver, e, m) ==
  <<Membr(m.group, "tx", Having(ver, e, "v6")[Max(Others(Having(ver, e, "v6"), m))], TRUE)>>

TxOf(ver, e) ==
  IF HeardFrom(ver, e) = {} THEN << >> ELSE TxTo(ver, e, LastRx(ver, Ecus[Max(HeardFrom(ver, e))]))

LEMMA TxOfIs ==
  ASSUME NEW ver, VersionsOK(ver), NEW e \in ToSet(Ecus)
  PROVE  TxOf(ver, e) \in Seq(Membership) /\ \A m \in ToSet(TxOf(ver, e)) : Solicits(ver, e, m)
<1>1. CASE HeardFrom(ver, e) = {}
  <2>1. TxOf(ver, e) = << >>
    BY <1>1 DEF TxOf
  <2>2. QED
    BY <2>1 DEF ToSet
<1>2. CASE HeardFrom(ver, e) # {}
  <2> DEFINE v6 == Having(ver, e, "v6")
             K == Max(HeardFrom(ver, e))
             m == LastRx(ver, Ecus[K])
             others == Others(v6, m)
             x == v6[Max(others)]
             tx == Membr(m.group, "tx", x, TRUE)
  <2>1. HeardFrom(ver, e) \subseteq 1..Len(Ecus) /\ Len(Ecus) \in Nat
    BY EcuList DEF HeardFrom
  <2>2. PICK p \in HeardFrom(ver, e) : \A q \in HeardFrom(ver, e) : q <= p
    BY <1>2, <2>1, GreatestUpTo
  <2>3. K = p
    <3>1. HeardFrom(ver, e) \subseteq Int
      BY <2>1
    <3>2. QED
      BY <2>2, <3>1, MaxIs
  <2>4. K \in 1..Len(Ecus) /\ others # {} /\ Having(ver, Ecus[K], "v6") # << >>
    BY <2>3 DEF HeardFrom
  <2>5. \E i \in Interface : m.group = <<"solicited", i>>
    <3>1. Ecus[K] \in ToSet(Ecus)
      BY <2>4, EcuList
    <3>2. QED
      BY <2>4, <3>1, SolicitedRxIs
  <2>6. TxOf(ver, e) = <<tx>>
    BY <1>2 DEF TxOf, TxTo
  <2> HIDE DEF K, m
  <2>7. v6 \in Seq(Instance)
    BY HavingIs
  <2>8. \A y : y.solicited /\ y.group # Configured /\ y.iface \in ToSet(v6) => Solicits(ver, e, y)
    BY DEF Solicits
  <2> HIDE DEF v6
  <2>9. others \subseteq 1..Len(v6) /\ DOMAIN v6 = 1..Len(v6) /\ Len(v6) \in Nat
    BY <2>7 DEF Others
  <2> HIDE DEF others
  <2>10. PICK q \in others : \A r \in others : r <= q
    BY <2>4, <2>9, GreatestUpTo
  <2>11. Max(others) = q /\ q \in 1..Len(v6)
    <3>1. others \subseteq Int
      BY <2>9
    <3>2. QED
      BY <2>9, <2>10, <3>1, MaxIs
  <2>12. x \in ToSet(v6) /\ x \in Instance
    BY <2>7, <2>9, <2>11, ElementIn DEF ToSet
  <2> HIDE DEF x
  <2>13. tx = [group |-> m.group, mode |-> "tx", iface |-> x, solicited |-> TRUE]
    BY DEF Membr
  <2> HIDE DEF tx
  <2>14. tx \in Membership
    BY <2>5, <2>12, <2>13 DEF Membership, Group
  <2>15. tx.group = m.group /\ tx.solicited = TRUE /\ tx.iface = x
    BY <2>13
  <2>16. Solicits(ver, e, tx)
    BY <2>5, <2>8, <2>12, <2>15, GroupsApart
  <2>17. ToSet(<<tx>>) = {tx} /\ <<tx>> \in Seq(Membership)
    BY <2>14 DEF ToSet
  <2>18. QED
    BY <2>6, <2>16, <2>17
<1>3. QED
  BY <1>1, <1>2

\* All memberships are those of the ECUs.
Pieces(gr) == [k \in DOMAIN Ecus |-> gr[Ecus[k]]]

LEMMA PiecesAre ==
  ASSUME NEW gr, \A e \in ToSet(Ecus) : gr[e] \in Seq(Membership)
  PROVE  /\ Pieces(gr) \in Seq(Seq(Membership)) /\ Len(Pieces(gr)) = Len(Ecus)
         /\ \A k \in 1..Len(Ecus) : Pieces(gr)[k] = gr[Ecus[k]]
         /\ AllMemberships(gr) = FlattenSeq(Pieces(gr))
<1>1. DOMAIN Ecus = 1..Len(Ecus)
  BY ConnectionAssumption
<1>2. Pieces(gr) \in [1..Len(Ecus) -> Seq(Membership)]
  BY <1>1, EcuList DEF Pieces
<1>3. \A k \in 1..Len(Ecus) : Pieces(gr)[k] = gr[Ecus[k]]
  BY <1>1 DEF Pieces
<1>4. AllMemberships(gr) = FlattenSeq(Pieces(gr))
  BY DEF AllMemberships, Pieces
<1>5. QED
  BY <1>2, <1>3, <1>4, EcuList

LEMMA AllAre ==
  ASSUME NEW gr, \A e \in ToSet(Ecus) : gr[e] \in Seq(Membership)
  PROVE  /\ AllMemberships(gr) \in Seq(Membership)
         /\ \A m : m \in ToSet(AllMemberships(gr)) <=> \E e \in ToSet(Ecus) : m \in ToSet(gr[e])
<1>1. \A e \in ToSet(Ecus) : \E j \in 1..Len(Ecus) : e = Ecus[j]
  BY ConnectionAssumption DEF ToSet
<1>2. AllMemberships(gr) \in Seq(Membership)
  BY PiecesAre, FlattenPlaces
<1>3. \A m : m \in ToSet(AllMemberships(gr)) <=> \E k \in 1..Len(Ecus) : m \in ToSet(Pieces(gr)[k])
  BY PiecesAre, FlattenElements
<1>4. \A k \in 1..Len(Ecus) : Pieces(gr)[k] = gr[Ecus[k]] /\ Ecus[k] \in ToSet(Ecus)
  BY PiecesAre, EcuList
<1>5. ASSUME NEW m PROVE m \in ToSet(AllMemberships(gr)) <=> \E e \in ToSet(Ecus) : m \in ToSet(gr[e])
  BY <1>1, <1>3, <1>4
<1>6. QED
  BY <1>2, <1>5

\* Who is sent to by e, of the ECU at place k: any of its solicited memberships
\* that e sends to shows that e sends to its last one.
LEMMA HeardLast ==
  ASSUME NEW ver, VersionsOK(ver), NEW e \in ToSet(Ecus), NEW k \in 1..Len(Ecus), NEW m,
         m.iface \in ToSet(Having(ver, Ecus[k], "v6")),
         Others(Having(ver, e, "v6"), m) # {}
  PROVE  k \in HeardFrom(ver, e)
<1> DEFINE f == Ecus[k]
           has == Having(ver, f, "v6")
           v6 == Having(ver, e, "v6")
           l == LastRx(ver, f)
<1>1. f \in ToSet(Ecus)
  BY EcuList
<1>2. has # << >>
  BY DEF ToSet
<1>3. Solicits(ver, f, l) /\ l.iface[1] \in ToSet(InterfacesOf[f])
  BY <1>1, <1>2, SolicitedRxIs
<1>4. l.iface \in ToSet(has)
  BY <1>3 DEF Solicits
<1>5. \A x \in ToSet(has) : x[1] \in ToSet(InterfacesOf[f])
  BY <1>1, HavingIs
<1>6. \A x \in ToSet(v6) : x[1] \in ToSet(InterfacesOf[e])
  BY HavingIs
<1>7. PICK n \in DOMAIN v6 : v6[n][1] # m.iface[1]
  BY DEF Others
<1>8. v6[n] \in ToSet(v6)
  BY DEF ToSet
<1>9. \E j \in DOMAIN v6 : v6[j][1] # l.iface[1]
  <2>1. CASE f = e
    <3>1. m.iface \in ToSet(v6)
      BY <2>1
    <3>2. PICK j \in DOMAIN v6 : m.iface = v6[j]
      BY <3>1 DEF ToSet
    <3> HIDE DEF v6, l
    <3>3. QED
      BY <1>7, <3>2
  <2>2. CASE f # e
    <3>1. \A g \in ToSet(Ecus) : \A i \in ToSet(InterfacesOf[g]) : EcuOf[DocOf[i]] = g
      BY ConnectionAssumption
    <3>2. EcuOf[DocOf[v6[n][1]]] = e
      BY <1>6, <1>8, <3>1
    <3>3. EcuOf[DocOf[l.iface[1]]] = f
      BY <1>1, <1>3, <3>1
    <3> HIDE DEF v6, l
    <3>4. QED
      BY <2>2, <3>2, <3>3
  <2>3. QED
    BY <2>1, <2>2
<1>10. Others(v6, l) # {}
  <2> HIDE DEF v6, l
  <2>1. QED
    BY <1>9 DEF Others
<1>11. QED
  BY <1>2, <1>10 DEF HeardFrom

\* What an ECU sends to solicited-node groups does not depend on the
\* memberships that were there before.
LEMMA TxSame ==
  ASSUME NEW ver, VersionsOK(ver), NEW e \in ToSet(Ecus),
         NEW gr, NEW own,
         \A f \in ToSet(Ecus) :
           /\ own[f] \in Seq(Membership) /\ gr[f] = own[f] \o SolicitedRx(ver, f)
           /\ \A m \in ToSet(own[f]) : m.solicited => m.iface \in ToSet(Having(ver, f, "v6"))
  PROVE  SolicitedTx(ver, e, AllMemberships(gr)) = TxOf(ver, e)
<1> DEFINE v6 == Having(ver, e, "v6")
           s == Pieces(gr)
           ms == AllMemberships(gr)
           n == Len(Ecus)
           Hears(m) == m.solicited /\ Others(v6, m) # {}
           heard == {k \in DOMAIN ms : Hears(ms[k])}
           H == HeardFrom(ver, e)
           last(k) == LastRx(ver, Ecus[k])
<1>1. ASSUME NEW f \in ToSet(Ecus)
      PROVE  /\ SolicitedRx(ver, f) \in Seq(Membership)
             /\ \A m \in ToSet(SolicitedRx(ver, f)) : m.solicited /\ m.iface \in ToSet(Having(ver, f, "v6"))
  <2>1. CASE Having(ver, f, "v6") = << >>
    <3>1. SolicitedRx(ver, f) = << >>
      BY <2>1, SolicitedRxIs
    <3>2. QED
      BY <3>1 DEF ToSet
  <2>2. CASE Having(ver, f, "v6") # << >>
    <3>1. SolicitedRx(ver, f) = <<LastRx(ver, f)>> /\ LastRx(ver, f) \in Membership /\ Solicits(ver, f, LastRx(ver, f))
      BY <2>2, SolicitedRxIs
    <3>2. ToSet(<<LastRx(ver, f)>>) = {LastRx(ver, f)}
      BY DEF ToSet
    <3>3. QED
      BY <3>1, <3>2 DEF Solicits
  <2>3. QED
    BY <2>1, <2>2
<1>2. ASSUME NEW f \in ToSet(Ecus)
      PROVE  /\ gr[f] \in Seq(Membership)
             /\ \A m \in ToSet(gr[f]) : m.solicited => m.iface \in ToSet(Having(ver, f, "v6"))
  <2> DEFINE a == own[f]
             b == SolicitedRx(ver, f)
  <2>1. a \in Seq(Membership) /\ b \in Seq(Membership) /\ gr[f] = a \o b
    BY <1>1
  <2>2. \A m \in ToSet(a) \cup ToSet(b) : m.solicited => m.iface \in ToSet(Having(ver, f, "v6"))
    BY <1>1
  <2> HIDE DEF a, b
  <2>3. QED
    BY <2>1, <2>2, ConcatSet
<1>3. /\ s \in Seq(Seq(Membership)) /\ Len(s) = n /\ n \in Nat
      /\ \A k \in 1..n : s[k] = gr[Ecus[k]] /\ Ecus[k] \in ToSet(Ecus)
      /\ ms = FlattenSeq(s)
  BY <1>2, PiecesAre, EcuList
<1> HIDE DEF s, ms, n, Hears
<1>4. ms \in Seq(Membership)
  BY <1>3, FlattenPlaces
<1>5. PICK at \in [1..n -> Nat] :
        /\ Laid(s, at, n, ms)
        /\ \A k, l \in 1..n : k < l => at[k] + Len(s[k]) <= at[l]
  BY <1>3, FlattenPlaces
<1>6. DOMAIN ms = 1..Len(ms) /\ Len(ms) \in Nat
  BY <1>4
<1>7. ASSUME NEW k \in 1..n PROVE s[k] \in Seq(Membership) /\ Len(s[k]) \in Nat /\ DOMAIN s[k] = 1..Len(s[k])
  BY <1>3, ElementIn
<1>8. ASSUME NEW k \in 1..n, NEW i \in 1..Len(s[k]), Hears(s[k][i]) PROVE k \in H
  <2>1. s[k][i] \in ToSet(gr[Ecus[k]])
    BY <1>3, <1>7 DEF ToSet
  <2>2. s[k][i].iface \in ToSet(Having(ver, Ecus[k], "v6"))
    BY <1>2, <1>3, <1>8, <2>1 DEF Hears
  <2>3. Others(v6, s[k][i]) # {}
    BY <1>8 DEF Hears
  <2>4. QED
    BY <2>2, <2>3, HeardLast DEF n
<1>9. ASSUME NEW k \in H
      PROVE  /\ k \in 1..n /\ Len(s[k]) >= 1
             /\ s[k][Len(s[k])] = last(k) /\ Hears(last(k))
  <2>1. k \in 1..n /\ Having(ver, Ecus[k], "v6") # << >> /\ Others(v6, last(k)) # {}
    BY DEF HeardFrom, n
  <2>2. SolicitedRx(ver, Ecus[k]) = <<last(k)>> /\ Solicits(ver, Ecus[k], last(k)) /\ last(k) \in Membership
    BY <1>3, <2>1, SolicitedRxIs
  <2> HIDE DEF last
  <2>3. s[k] = own[Ecus[k]] \o <<last(k)>> /\ own[Ecus[k]] \in Seq(Membership)
    BY <1>3, <2>1, <2>2
  <2>4. Len(s[k]) = Len(own[Ecus[k]]) + 1 /\ s[k][Len(own[Ecus[k]]) + 1] = last(k) /\ Len(own[Ecus[k]]) \in Nat
    BY <2>2, <2>3
  <2>5. Hears(last(k))
    BY <2>1, <2>2 DEF Hears, Solicits
  <2>6. QED
    BY <2>1, <2>4, <2>5
<1>10. SolicitedTx(ver, e, ms) = IF heard = {} THEN << >> ELSE TxTo(ver, e, ms[Max(heard)])
  BY DEF SolicitedTx, TxTo, Hears
<1>11. CASE H = {}
  <2>1. ASSUME NEW p \in DOMAIN ms, Hears(ms[p]) PROVE FALSE
    <3>1. PICK k \in 1..n : \E i \in 1..Len(s[k]) : p = at[k] + i
      BY <1>5, <1>6 DEF Laid
    <3>2. PICK i \in 1..Len(s[k]) : p = at[k] + i
      BY <3>1
    <3>3. ms[p] = s[k][i]
      BY <1>5, <3>2 DEF Laid
    <3>4. k \in H
      BY <1>8, <2>1, <3>3
    <3>5. QED
      BY <1>11, <3>4
  <2>2. heard = {}
    BY <2>1
  <2> HIDE DEF heard
  <2>3. QED
    BY <1>10, <1>11, <2>2 DEF TxOf, ms
<1>12. CASE H # {}
  <2>1. H \subseteq 1..n /\ H \subseteq Int
    BY <1>3 DEF HeardFrom, n
  <2> HIDE DEF H
  <2>2. PICK K \in H : \A q \in H : q <= K
    BY <1>3, <1>12, <2>1, GreatestUpTo
  <2>3. Max(H) = K
    BY <2>1, <2>2, MaxIs
  <2> DEFINE p == at[K] + Len(s[K])
  <2>4. K \in 1..n /\ Len(s[K]) >= 1 /\ s[K][Len(s[K])] = last(K) /\ Hears(last(K)) /\ Len(s[K]) \in Nat /\ at[K] \in Nat
    BY <1>7, <1>9
  <2> HIDE DEF last
  <2>5. Len(s[K]) \in 1..Len(s[K])
    BY <2>4
  <2>6. p \in 1..Len(ms) /\ ms[p] = last(K)
    BY <1>5, <2>4, <2>5 DEF Laid
  <2>7. p \in heard
    BY <1>6, <2>4, <2>6
  <2>8. ASSUME NEW q \in heard PROVE q <= p
    <3>1. q \in 1..Len(ms) /\ Hears(ms[q])
      BY <1>6
    <3>2. PICK k \in 1..n : \E i \in 1..Len(s[k]) : q = at[k] + i
      BY <1>5, <3>1 DEF Laid
    <3>3. PICK i \in 1..Len(s[k]) : q = at[k] + i
      BY <3>2
    <3>4. ms[q] = s[k][i]
      BY <1>5, <3>3 DEF Laid
    <3>5. k \in H
      BY <1>8, <3>1, <3>4
    <3>6. k <= K /\ Len(s[k]) \in Nat /\ at[k] \in Nat
      BY <1>7, <2>2, <3>5
    <3>7. CASE k = K
      BY <3>3, <3>6, <3>7
    <3>8. CASE k < K
      <4>1. at[k] + Len(s[k]) <= at[K]
        BY <1>5, <2>4, <3>8
      <4>2. QED
        BY <2>4, <3>3, <3>6, <4>1
    <3>9. QED
      BY <2>4, <3>6, <3>7, <3>8
  <2>9. heard \subseteq Int
    BY <1>6
  <2> HIDE DEF heard, p
  <2>10. Max(heard) = p /\ heard # {}
    BY <2>7, <2>8, <2>9, MaxIs
  <2>11. SolicitedTx(ver, e, ms) = TxTo(ver, e, last(K))
    BY <1>10, <2>6, <2>10
  <2>12. TxOf(ver, e) = TxTo(ver, e, last(K))
    BY <1>12, <2>3 DEF TxOf, last, H
  <2>13. QED
    BY <2>11, <2>12 DEF ms
<1>13. QED
  BY <1>11, <1>12 DEF ms

\* The memberships of an ECU: those it is configured with, then those in
\* solicited-node groups, however often they were computed.
Shape(ver, e, ms) ==
  \E s \in Seq(Membership) :
    ms = EcuMemberships(ver, e) \o s /\ \A m \in ToSet(s) : Solicits(ver, e, m)

GroupInv(ver, gr) ==
  /\ gr \in [ToSet(Ecus) -> Seq(Membership)]
  /\ \A e \in ToSet(Ecus) : /\ Shape(ver, e, gr[e])
                            /\ ToSet(SolicitedRx(ver, e)) \cup ToSet(TxOf(ver, e)) \subseteq ToSet(gr[e])

Grouped == GroupInv(versions, groups)

LEMMA RxType ==
  ASSUME NEW ver, VersionsOK(ver), NEW e \in ToSet(Ecus)
  PROVE  SolicitedRx(ver, e) \in Seq(Membership) /\ \A m \in ToSet(SolicitedRx(ver, e)) : Solicits(ver, e, m)
<1>1. CASE Having(ver, e, "v6") = << >>
  <2>1. SolicitedRx(ver, e) = << >>
    BY <1>1, SolicitedRxIs
  <2>2. QED
    BY <2>1 DEF ToSet
<1>2. CASE Having(ver, e, "v6") # << >>
  <2>1. SolicitedRx(ver, e) = <<LastRx(ver, e)>> /\ LastRx(ver, e) \in Membership /\ Solicits(ver, e, LastRx(ver, e))
    BY <1>2, SolicitedRxIs
  <2>2. ToSet(<<LastRx(ver, e)>>) = {LastRx(ver, e)}
    BY DEF ToSet
  <2>3. QED
    BY <2>1, <2>2
<1>3. QED
  BY <1>1, <1>2

LEMMA ShapeIs ==
  ASSUME NEW ver, VersionsOK(ver), NEW e \in ToSet(Ecus), NEW ms, Shape(ver, e, ms)
  PROVE  /\ ms \in Seq(Membership) /\ ToSet(EcuMemberships(ver, e)) \subseteq ToSet(ms)
         /\ \A m \in ToSet(ms) : m \in ToSet(EcuMemberships(ver, e)) \/ Solicits(ver, e, m)
<1>1. PICK s \in Seq(Membership) :
        ms = EcuMemberships(ver, e) \o s /\ \A m \in ToSet(s) : Solicits(ver, e, m)
  BY DEF Shape
<1> DEFINE a == EcuMemberships(ver, e)
<1>2. a \in Seq(Membership)
  BY EcuMembershipsIs
<1> HIDE DEF a
<1>3. ms = a \o s
  BY <1>1 DEF a
<1>4. ms \in Seq(Membership) /\ ToSet(ms) = ToSet(a) \cup ToSet(s)
  BY <1>2, <1>3, ConcatSet
<1>5. QED
  BY <1>1, <1>4 DEF a

LEMMA ShapeLonger ==
  ASSUME NEW ver, VersionsOK(ver), NEW e \in ToSet(Ecus), NEW ms, Shape(ver, e, ms),
         NEW t \in Seq(Membership), \A m \in ToSet(t) : Solicits(ver, e, m)
  PROVE  Shape(ver, e, ms \o t)
<1>1. PICK s \in Seq(Membership) :
        ms = EcuMemberships(ver, e) \o s /\ \A m \in ToSet(s) : Solicits(ver, e, m)
  BY DEF Shape
<1> DEFINE a == EcuMemberships(ver, e)
           r == s \o t
<1>2. a \in Seq(Membership)
  BY EcuMembershipsIs
<1>3. ms = a \o s
  BY <1>1
<1> HIDE DEF a
<1>4. r \in Seq(Membership) /\ ToSet(r) = ToSet(s) \cup ToSet(t)
  BY ConcatSet
<1>5. ms \o t = a \o r
  BY <1>2, <1>3
<1> HIDE DEF r
<1>6. \A m \in ToSet(r) : Solicits(ver, e, m)
  BY <1>1, <1>4
<1>7. QED
  BY <1>4, <1>5, <1>6 DEF Shape, a

LEMMA EcuShape ==
  ASSUME NEW ver, VersionsOK(ver), NEW e \in ToSet(Ecus)
  PROVE  Shape(ver, e, EcuMemberships(ver, e))
<1> DEFINE a == EcuMemberships(ver, e)
<1>1. a \in Seq(Membership)
  BY EcuMembershipsIs
<1> HIDE DEF a
<1>2. a = a \o << >> /\ << >> \in Seq(Membership) /\ ToSet(<< >>) = {}
  BY <1>1 DEF ToSet
<1>3. \E s \in Seq(Membership) : a = a \o s /\ \A m \in ToSet(s) : Solicits(ver, e, m)
  BY <1>2
<1>4. QED
  BY <1>3 DEF Shape, a

\* Building the model computes the memberships of the ECUs in es again and adds
\* the solicited-node memberships of all.
LEMMA BuildGroups ==
  ASSUME NEW ver, VersionsOK(ver), NEW es, NEW gr, DOMAIN gr = ToSet(Ecus),
         \A e \in ToSet(Ecus) \ es : Shape(ver, e, gr[e]),
         NEW new, new = WithSolicited(ver, OwnMemberships(ver, es, gr))
  PROVE  /\ GroupInv(ver, new)
         /\ \A e \in ToSet(Ecus) \cap es :
              new[e] = (EcuMemberships(ver, e) \o SolicitedRx(ver, e)) \o TxOf(ver, e)
<1> DEFINE own == OwnMemberships(ver, es, gr)
           rx == [e \in DOMAIN own |-> own[e] \o SolicitedRx(ver, e)]
           ms == AllMemberships(rx)
<1>1. /\ DOMAIN own = ToSet(Ecus)
      /\ \A e \in ToSet(Ecus) : (e \in es => own[e] = EcuMemberships(ver, e)) /\ (e \notin es => own[e] = gr[e])
  BY DEF OwnMemberships
<1>2. new = [e \in DOMAIN own |-> rx[e] \o SolicitedTx(ver, e, ms)]
  BY DEF WithSolicited
<1> HIDE DEF own
<1>3. ASSUME NEW e \in ToSet(Ecus) PROVE Shape(ver, e, own[e])
  <2>1. CASE e \in es
    BY <1>1, <2>1, EcuShape
  <2>2. CASE e \notin es
    BY <1>1, <2>2
  <2>3. QED
    BY <2>1, <2>2
<1>4. \A e \in ToSet(Ecus) : rx[e] = own[e] \o SolicitedRx(ver, e)
  BY <1>1
<1>5. \A e \in ToSet(Ecus) : new[e] = rx[e] \o SolicitedTx(ver, e, ms)
  BY <1>1, <1>2
<1> HIDE DEF rx
<1>6. ASSUME NEW e \in ToSet(Ecus)
      PROVE  /\ own[e] \in Seq(Membership)
             /\ \A m \in ToSet(own[e]) : m.solicited => m.iface \in ToSet(Having(ver, e, "v6"))
  <2>1. /\ own[e] \in Seq(Membership)
        /\ \A m \in ToSet(own[e]) : m \in ToSet(EcuMemberships(ver, e)) \/ Solicits(ver, e, m)
    BY <1>3, ShapeIs
  <2>2. QED
    BY <2>1, EcuMembershipsIs DEF Solicits
<1>7. \A e \in ToSet(Ecus) : SolicitedTx(ver, e, ms) = TxOf(ver, e)
  BY <1>4, <1>6, TxSame
<1> HIDE DEF ms
<1>8. ASSUME NEW e \in ToSet(Ecus)
      PROVE  /\ new[e] = (own[e] \o SolicitedRx(ver, e)) \o TxOf(ver, e)
             /\ Shape(ver, e, new[e]) /\ new[e] \in Seq(Membership)
             /\ ToSet(SolicitedRx(ver, e)) \cup ToSet(TxOf(ver, e)) \subseteq ToSet(new[e])
  <2> DEFINE a == own[e]
             b == SolicitedRx(ver, e)
             c == TxOf(ver, e)
             ab == a \o b
  <2>1. new[e] = ab \o c
    BY <1>4, <1>5, <1>7
  <2>2. /\ a \in Seq(Membership) /\ b \in Seq(Membership) /\ c \in Seq(Membership)
        /\ Shape(ver, e, a)
        /\ \A m \in ToSet(b) : Solicits(ver, e, m)
        /\ \A m \in ToSet(c) : Solicits(ver, e, m)
    BY <1>3, <1>6, RxType, TxOfIs
  <2> HIDE DEF a, b, c
  <2>3. Shape(ver, e, ab)
    BY <2>2, ShapeLonger
  <2>4. ab \in Seq(Membership) /\ ToSet(ab) = ToSet(a) \cup ToSet(b)
    BY <2>2, ConcatSet
  <2> HIDE DEF ab
  <2>5. Shape(ver, e, new[e])
    BY <2>1, <2>2, <2>3, ShapeLonger
  <2>6. new[e] \in Seq(Membership) /\ ToSet(new[e]) = ToSet(ab) \cup ToSet(c)
    BY <2>1, <2>2, <2>4, ConcatSet
  <2>7. QED
    BY <2>1, <2>4, <2>5, <2>6 DEF a, b, c, ab
<1>9. new \in [ToSet(Ecus) -> Seq(Membership)]
  <2>1. new = [e \in ToSet(Ecus) |-> new[e]]
    BY <1>1, <1>2, <1>5
  <2>2. QED
    BY <1>8, <2>1
<1>10. GroupInv(ver, new)
  BY <1>8, <1>9 DEF GroupInv
<1>11. QED
  BY <1>1, <1>8, <1>10

LEMMA LoadedGroups ==
  ASSUME NEW ver, VersionsOK(ver)
  PROVE  /\ GroupInv(ver, Loaded(ver).groups)
         /\ \A e \in ToSet(Ecus) :
              Loaded(ver).groups[e] = (EcuMemberships(ver, e) \o SolicitedRx(ver, e)) \o TxOf(ver, e)
<1> DEFINE new == WithSolicited(ver, OwnMemberships(ver, ToSet(Ecus), NoGroups))
<1>1. Loaded(ver).groups = new
  BY DEF Loaded, Build
<1>2. DOMAIN NoGroups = ToSet(Ecus)
  BY DEF NoGroups
<1>3. \A e \in ToSet(Ecus) \ ToSet(Ecus) : Shape(ver, e, NoGroups[e])
  OBVIOUS
<1> HIDE DEF new
<1>4. new = WithSolicited(ver, OwnMemberships(ver, ToSet(Ecus), NoGroups))
  BY DEF new
<1>5. /\ GroupInv(ver, new)
      /\ \A e \in ToSet(Ecus) \cap ToSet(Ecus) :
           new[e] = (EcuMemberships(ver, e) \o SolicitedRx(ver, e)) \o TxOf(ver, e)
  BY <1>2, <1>3, <1>4, BuildGroups
<1>6. QED
  BY <1>1, <1>5

LEMMA UpdateGroups ==
  ASSUME VersionsOK(versions), Grouped, NEW d \in Document, NEW v \in Offered[d], Len(versions[d]) < MaxVersions,
         NEW new, new = WithSolicited(After(d, v), OwnMemberships(After(d, v), {EcuOf[d]}, groups))
  PROVE  GroupInv(After(d, v), new)
<1> DEFINE ver == After(d, v)
<1>1. VersionsOK(ver) /\ \A c \in Document \ {d} : ver[c] = versions[c]
  BY AfterIs
<1>2. new = WithSolicited(ver, OwnMemberships(ver, {EcuOf[d]}, groups))
  OBVIOUS
<1> HIDE DEF ver
<1>3. ASSUME NEW e \in ToSet(Ecus) \ {EcuOf[d]} PROVE Shape(ver, e, groups[e])
  <2>1. \A c \in Document : EcuOf[c] = e => ver[c] = versions[c]
    BY <1>1
  <2>2. \A what : Having(ver, e, what) = Having(versions, e, what)
    BY <2>1, HavingSame
  <2>3. Shape(versions, e, groups[e])
    BY DEF Grouped, GroupInv
  <2>4. EcuMemberships(ver, e) = EcuMemberships(versions, e)
    <3> DEFINE From(tx, rx) == [k \in DOMAIN tx |-> Membr(Configured, "tx", tx[k], FALSE)]
                               \o [k \in DOMAIN rx |-> Membr(Configured, "rx", rx[k], FALSE)]
    <3>1. /\ EcuMemberships(ver, e) = From(Having(ver, e, "tx"), Having(ver, e, "rx"))
          /\ EcuMemberships(versions, e) = From(Having(versions, e, "tx"), Having(versions, e, "rx"))
      BY DEF EcuMemberships
    <3> HIDE DEF From
    <3>2. QED
      BY <2>2, <3>1
  <2>5. QED
    BY <2>2, <2>3, <2>4 DEF Shape, Solicits
<1>4. DOMAIN groups = ToSet(Ecus)
  BY DEF Grouped, GroupInv
<1>5. GroupInv(ver, new)
  BY <1>1, <1>2, <1>3, <1>4, BuildGroups
<1>6. QED
  BY <1>5 DEF ver

THEOREM GroupsHold == Spec => []Grouped
<1>1. Init => Grouped
  BY InitVersions, LoadedGroups DEF Init, Grouped
<1>2. Linked /\ Grouped /\ [Next]_vars => Grouped'
  <2> SUFFICES ASSUME Linked, Grouped, [Next]_vars PROVE Grouped'
    OBVIOUS
  <2>1. CASE UNCHANGED vars
    <3>1. versions' = versions /\ groups' = groups
      BY <2>1 DEF vars
    <3>2. QED
      BY <3>1 DEF Grouped
  <2>2. CASE Reload
    <3>1. versions' = Latest /\ groups' = Loaded(Latest).groups
      BY <2>2 DEF Reload, Become, Latest
    <3>2. GroupInv(Latest, Loaded(Latest).groups)
      BY LatestVersions, LoadedGroups DEF Linked
    <3>3. QED
      BY <3>1, <3>2 DEF Grouped
  <2>3. ASSUME NEW d \in Document, NEW v \in Offered[d], UpdateDocument(d, v) PROVE Grouped'
    <3>1. /\ Len(versions[d]) < MaxVersions
          /\ versions' = After(d, v)
          /\ groups' = WithSolicited(After(d, v), OwnMemberships(After(d, v), {EcuOf[d]}, groups))
      BY <2>3 DEF UpdateDocument, Become, After, Build
    <3>2. GroupInv(After(d, v), groups')
      BY <3>1, UpdateGroups DEF Linked
    <3>3. QED
      BY <3>1, <3>2 DEF Grouped
  <2>4. QED
    BY <2>1, <2>2, <2>3 DEF Next
<1>3. QED
  BY <1>1, <1>2, LinksHold, PTL DEF Spec

LEMMA ConcatThree ==
  ASSUME NEW S, NEW a \in Seq(S), NEW b \in Seq(S), NEW c \in Seq(S)
  PROVE  ToSet((a \o b) \o c) = ToSet(a) \cup ToSet(b) \cup ToSet(c)
<1> DEFINE ab == a \o b
<1>1. ab \in Seq(S) /\ ToSet(ab) = ToSet(a) \cup ToSet(b)
  BY ConcatSet
<1> HIDE DEF ab
<1>2. ToSet(ab \o c) = ToSet(ab) \cup ToSet(c)
  BY <1>1, ConcatSet
<1>3. QED
  BY <1>1, <1>2 DEF ab

\* Every ECU keeps the memberships that a full load would give it.
LEMMA FreshKept ==
  ASSUME Linked, Grouped, NEW e \in ToSet(Ecus)
  PROVE  ToSet(Loaded(versions).groups[e]) \subseteq ToSet(groups[e])
<1> DEFINE a == EcuMemberships(versions, e)
           b == SolicitedRx(versions, e)
           c == TxOf(versions, e)
           fresh == Loaded(versions).groups[e]
<1>1. VersionsOK(versions) /\ GroupInv(versions, groups)
  BY DEF Linked, Grouped
<1>2. a \in Seq(Membership) /\ b \in Seq(Membership) /\ c \in Seq(Membership) /\ fresh = (a \o b) \o c
  BY <1>1, LoadedGroups, EcuMembershipsIs, RxType, TxOfIs
<1>3. ToSet(a) \cup ToSet(b) \cup ToSet(c) \subseteq ToSet(groups[e])
  BY <1>1, ShapeIs DEF GroupInv
<1> HIDE DEF a, b, c, fresh
<1>4. ToSet(fresh) = ToSet(a) \cup ToSet(b) \cup ToSet(c)
  BY <1>2, ConcatThree
<1>5. QED
  BY <1>3, <1>4 DEF fresh

\* Computing memberships again on the ECUs that are still in the model loses
\* none that a full load would find, and every membership is one of an
\* interface that is in the model (compute_multicast_memberships,
\* collect_ipv6_solicited_node_tx).
THEOREM MembershipsStay == Spec => []MembershipsKept
<1>1. Linked /\ Grouped => MembershipsKept
  <2> SUFFICES ASSUME Linked, Grouped PROVE MembershipsKept
    OBVIOUS
  <2> DEFINE fresh == Loaded(versions).groups
             ver == versions
  <2>1. VersionsOK(ver) /\ GroupInv(ver, fresh) /\ GroupInv(ver, groups)
    BY LoadedGroups DEF Linked, Grouped
  <2>2. \A e \in ToSet(Ecus) : fresh[e] \in Seq(Membership) /\ groups[e] \in Seq(Membership)
    BY <2>1 DEF GroupInv
  <2>4. \A e \in ToSet(Ecus) : ToSet(fresh[e]) \subseteq ToSet(groups[e])
    BY FreshKept
  <2> HIDE DEF fresh, ver
  <2>5. ToSet(AllMemberships(fresh)) \subseteq ToSet(AllMemberships(groups))
    BY <2>2, <2>4, AllAre
  <2>6. ASSUME NEW m \in ToSet(AllMemberships(groups)) PROVE m.iface = Live(ver, m.iface[1])
    <3>1. PICK e \in ToSet(Ecus) : m \in ToSet(groups[e])
      BY <2>2, AllAre
    <3>2. m \in ToSet(EcuMemberships(ver, e)) \/ Solicits(ver, e, m)
      BY <2>1, <3>1, ShapeIs DEF GroupInv
    <3>3. CASE m \in ToSet(EcuMemberships(ver, e))
      BY <2>1, <3>3, EcuMembershipsIs DEF OfEcu
    <3>4. CASE Solicits(ver, e, m)
      BY <2>1, <3>4, HavingIs DEF Solicits
    <3>5. QED
      BY <3>2, <3>3, <3>4
  <2>7. fresh = WithSolicited(ver, OwnMemberships(ver, ToSet(Ecus), NoGroups))
    BY DEF fresh, ver, Loaded, Build
  <2>8. QED
    BY <2>5, <2>6, <2>7 DEF MembershipsKept, ver
<1>2. QED
  BY <1>1, LinksHold, GroupsHold, PTL

-----------------------------------------------------------------------------
(* Paths.                                                                  *)

\* A set of instances that is closed under the walk of compute_path, in which
\* the instances of a component are alike: the walk from one of them may take
\* the instances for the components.
Closed(ln, G) ==
  /\ ln \in Links /\ G \subseteq Instance
  /\ \A z \in G : /\ Exists(versions, z)
                  /\ ToSet(ln[z]) \subseteq G
                  /\ \A p \in SwitchPort : z[1] \in SwitchPort /\ DocOf[p] = DocOf[z[1]] => <<p, z[2]>> \in G
                  /\ Member(versions, z) <=> z[1] \in InVlan
                  /\ \A b \in Component : HasName(ln, z, b) <=> Joined(z[1], b)

SameSwitch(a, b) == a \in SwitchPort /\ b \in SwitchPort /\ DocOf[a] = DocOf[b]

LEMMA AdjacentIs ==
  ASSUME NEW a, NEW b
  PROVE  Adjacent(a, b) <=> Joined(a, b) \/ SameSwitch(a, b)
<1>1. \A c : c \in Connection <=> c \in ToSet(External) \/ \E e \in ToSet(Ecus) : c \in ToSet(Internal[e])
  BY DEF Connection
<1>2. {a, b} \subseteq SwitchPort <=> a \in SwitchPort /\ b \in SwitchPort
  OBVIOUS
<1>3. \A S : {<<a, b>>, <<b, a>>} \cap S # {} <=> <<a, b>> \in S \/ <<b, a>> \in S
  OBVIOUS
<1>4. QED
  BY <1>1, <1>2, <1>3 DEF Adjacent, Joined, SameSwitch

\* The neighbours of an instance in the VLAN are the instances of the
\* components in the VLAN that its component is adjacent to.
LEMMA NeighbourNames ==
  ASSUME VersionsOK(versions), NEW ln, NEW G, Closed(ln, G), NEW z \in G
  PROVE  /\ \A y \in Neighbours(versions, ln, z) : Member(versions, y) =>
              y \in G /\ y[1] \in InVlan /\ Adjacent(z[1], y[1])
         /\ \A b \in InVlan : Adjacent(z[1], b) =>
              \E y \in Neighbours(versions, ln, z) : y \in G /\ Member(versions, y) /\ y[1] = b
<1>1. /\ z \in Instance /\ z = <<z[1], z[2]>> /\ z[1] \in Component /\ DocOf[z[1]] \in Document
      /\ ln[z] \in Seq(Instance)
  BY DEF Closed, Links, Instance, Document
<1>2. Written(versions, z) \in Offered[DocOf[z[1]]]
  <2>1. versions[DocOf[z[1]]] \in Seq(Setting) /\ z[2] \in 1..Len(versions[DocOf[z[1]]])
    BY <1>1 DEF VersionsOK, Closed, Exists
  <2>2. z[2] \in DOMAIN versions[DocOf[z[1]]]
    BY <2>1
  <2>3. QED
    BY <1>1, <2>2 DEF VersionsOK, Written
<1>3. ASSUME NEW p, SameSwitch(p, z[1])
      PROVE  <<p, z[2]>> \in G /\ Written(versions, <<p, z[2]>>) = Written(versions, z)
  <2>1. <<p, z[2]>> \in G
    BY <1>3 DEF Closed, SameSwitch
  <2>2. QED
    BY <1>3, <2>1 DEF SameSwitch, Written
<1>4. ASSUME NEW p \in Written(versions, z), z[1] \in SwitchPort PROVE SameSwitch(p, z[1])
  BY <1>2, <1>4, DocumentAssumption DEF SameSwitch
<1>5. ASSUME NEW y \in Neighbours(versions, ln, z), Member(versions, y)
      PROVE  y \in G /\ y[1] \in InVlan /\ Adjacent(z[1], y[1])
  <2>1. CASE y \in ToSet(ln[z])
    <3>1. y \in G
      BY <2>1 DEF Closed
    <3>2. y[1] \in InVlan /\ y[1] \in Component
      BY <1>5, <3>1 DEF Closed, Instance
    <3>3. HasName(ln, z, y[1])
      BY <2>1 DEF HasName, ToSet
    <3>4. Joined(z[1], y[1])
      BY <3>2, <3>3 DEF Closed
    <3>5. QED
      BY <3>1, <3>2, <3>4, AdjacentIs
  <2>2. ASSUME NEW p \in Written(versions, z), z[1] \in SwitchPort, y = <<p, z[2]>>
        PROVE  y \in G /\ y[1] \in InVlan /\ Adjacent(z[1], y[1])
    <3>1. SameSwitch(p, z[1]) /\ SameSwitch(z[1], p)
      BY <1>4, <2>2 DEF SameSwitch
    <3>2. y \in G /\ y[1] = p
      BY <1>3, <2>2, <3>1
    <3>3. y[1] \in InVlan
      BY <1>5, <3>2 DEF Closed
    <3>4. QED
      BY <3>1, <3>2, <3>3, AdjacentIs
  <2>3. QED
    BY <2>1, <2>2 DEF Neighbours
<1>6. ASSUME NEW b \in InVlan, Adjacent(z[1], b)
      PROVE  \E y \in Neighbours(versions, ln, z) : y \in G /\ Member(versions, y) /\ y[1] = b
  <2>1. CASE Joined(z[1], b)
    <3>1. b \in Component
      BY DEF InVlan
    <3>2. PICK k \in DOMAIN ln[z] : ln[z][k][1] = b
      BY <2>1, <3>1 DEF Closed, HasName
    <3>3. ln[z][k] \in ToSet(ln[z])
      BY DEF ToSet
    <3>4. ln[z][k] \in G /\ ln[z][k] \in Neighbours(versions, ln, z)
      BY <3>3 DEF Closed, Neighbours
    <3>5. Member(versions, ln[z][k])
      BY <3>2, <3>4 DEF Closed
    <3>6. QED
      BY <3>2, <3>4, <3>5
  <2>2. CASE SameSwitch(z[1], b)
    <3> DEFINE y == <<b, z[2]>>
    <3>1. SameSwitch(b, z[1])
      BY <2>2 DEF SameSwitch
    <3>2. y \in G /\ Written(versions, y) = Written(versions, z) /\ y[1] = b
      BY <1>3, <3>1
    <3>3. Member(versions, y)
      BY <3>2 DEF Closed
    <3>4. b \in Written(versions, z)
      <4> HIDE DEF y
      <4>1. y[1] \in SwitchPort => (Member(versions, y) <=> y[1] \in Written(versions, y))
        BY TopologyAssumption DEF Member
      <4>2. QED
        BY <3>1, <3>2, <3>3, <4>1 DEF SameSwitch
    <3>5. y \in Neighbours(versions, ln, z)
      BY <3>1, <3>4 DEF Neighbours, SameSwitch
    <3> HIDE DEF y
    <3>6. QED
      BY <3>2, <3>3, <3>5
  <2>3. QED
    BY <1>6, <2>1, <2>2, AdjacentIs
<1>7. QED
  BY <1>5, <1>6

\* The first round finds the components that are adjacent to x, each once.
LEMMA FirstRoundNames ==
  ASSUME VersionsOK(versions), NEW ln, NEW G, Closed(ln, G), NEW x \in G, x[1] \notin SwitchPort
  PROVE  /\ FirstRound(versions, ln, x) \subseteq G
         /\ Named(FirstRound(versions, ln, x)) = {b \in InVlan : Adjacent(x[1], b)} \ {x[1]}
<1> DEFINE s == ln[x]
           added(k) == {s[j] : j \in {j \in 1..(k - 1) : Member(versions, s[j])}}
           first == {s[k] : k \in {k \in DOMAIN s : Usable(versions, s[k], {x} \cup added(k))}}
<1>1. FirstRound(versions, ln, x) = first
  BY DEF FirstRound
<1>2. s \in Seq(Instance) /\ DOMAIN s = 1..Len(s) /\ Len(s) \in Nat
  BY DEF Closed, Links
<1>3. Neighbours(versions, ln, x) = ToSet(s)
  BY DEF Neighbours
<1>4. \A y \in ToSet(s) : Member(versions, y) => y \in G /\ y[1] \in InVlan /\ Adjacent(x[1], y[1])
  BY <1>3, NeighbourNames
<1>5. \A b \in InVlan : Adjacent(x[1], b) => \E y \in ToSet(s) : y \in G /\ Member(versions, y) /\ y[1] = b
  BY <1>3, NeighbourNames
<1>6. \A y \in G : Member(versions, y) <=> y[1] \in InVlan
  BY DEF Closed
<1> HIDE DEF s
<1>7. \A k \in DOMAIN s : Usable(versions, s[k], {x} \cup added(k)) <=>
        Member(versions, s[k]) /\ s[k][1] # x[1] /\ \A j \in 1..(k - 1) : Member(versions, s[j]) => s[j][1] # s[k][1]
  BY DEF Usable, Named
<1> HIDE DEF added
<1>8. ASSUME NEW y \in first
      PROVE  y \in G /\ y[1] \in {b \in InVlan : Adjacent(x[1], b)} \ {x[1]}
  <2>1. PICK k \in DOMAIN s : y = s[k] /\ Usable(versions, s[k], {x} \cup added(k))
    OBVIOUS
  <2>2. s[k] \in ToSet(s) /\ Member(versions, s[k]) /\ s[k][1] # x[1]
    BY <1>7, <2>1 DEF ToSet
  <2>3. QED
    BY <1>4, <2>1, <2>2
<1>9. ASSUME NEW b \in InVlan, Adjacent(x[1], b), b # x[1]
      PROVE  \E y \in first : y[1] = b
  <2> DEFINE T == {k \in DOMAIN s : Member(versions, s[k]) /\ s[k][1] = b}
  <2>1. T \subseteq Nat /\ T # {}
    <3>1. PICK y \in ToSet(s) : Member(versions, y) /\ y[1] = b
      BY <1>5, <1>9
    <3>2. PICK k \in DOMAIN s : y = s[k]
      BY DEF ToSet
    <3>3. QED
      BY <1>2, <3>1, <3>2
  <2>2. \A k \in T : k \in DOMAIN s /\ Member(versions, s[k]) /\ s[k][1] = b
    OBVIOUS
  <2>3. \A k \in DOMAIN s : Member(versions, s[k]) /\ s[k][1] = b => k \in T
    OBVIOUS
  <2> HIDE DEF T
  <2>4. PICK k \in T : \A j \in T : k <= j
    BY <2>1, LeastNat
  <2>5. ASSUME NEW j \in 1..(k - 1), Member(versions, s[j]) PROVE s[j][1] # s[k][1]
    <3>1. j \in DOMAIN s /\ ~(k <= j)
      BY <1>2, <2>2
    <3>2. j \notin T
      BY <2>4, <3>1
    <3>3. QED
      BY <2>2, <2>3, <2>5, <3>1, <3>2
  <2>6. Usable(versions, s[k], {x} \cup added(k))
    BY <1>7, <1>9, <2>2, <2>5
  <2>7. s[k] \in first
    BY <2>2, <2>6
  <2> HIDE DEF first
  <2>8. QED
    BY <2>2, <2>7
<1> HIDE DEF first
<1>10. QED
  BY <1>1, <1>8, <1>9 DEF Named

\* The components in the VLAN that are adjacent to one of r.
NextTo(r) == {b \in InVlan : \E a \in r : Adjacent(a, b)}

\* One more round of the walk.
Walk(G) == [done : SUBSET G, new : SUBSET G]

Round(ver, ln, w) ==
  LET seen == w.done \cup w.new
  IN [done |-> seen,
      new  |-> {y \in UNION {Neighbours(ver, ln, z) : z \in w.new} : Usable(ver, y, seen)}]

LEMMA RoundIs ==
  ASSUME VersionsOK(versions), NEW ln, NEW G, Closed(ln, G), NEW w \in Walk(G), NEW next, next = Round(versions, ln, w)
  PROVE  /\ next \in Walk(G) /\ Named(next.done) = Named(w.done) \cup Named(w.new)
         /\ Named(next.new) = NextTo(Named(w.new)) \ Named(next.done)
<1> DEFINE seen == w.done \cup w.new
           new == {y \in UNION {Neighbours(versions, ln, z) : z \in w.new} : Usable(versions, y, seen)}
<1>1. w.done \subseteq G /\ w.new \subseteq G
  BY DEF Walk
<1>2. next.done = seen /\ next.new = new /\ next = [done |-> seen, new |-> new]
  BY DEF Round
<1>3. Named(seen) = Named(w.done) \cup Named(w.new)
  BY DEF Named
<1>4. ASSUME NEW y \in new
      PROVE  /\ y \in G /\ y[1] \notin Named(seen)
             /\ y[1] \in InVlan /\ \E a \in Named(w.new) : Adjacent(a, y[1])
  <2>1. PICK z \in w.new : y \in Neighbours(versions, ln, z)
    OBVIOUS
  <2>2. Member(versions, y) /\ y[1] \notin Named(seen)
    BY DEF Usable
  <2>3. y \in G /\ y[1] \in InVlan /\ Adjacent(z[1], y[1])
    BY <1>1, <2>1, <2>2, NeighbourNames
  <2>4. z[1] \in Named(w.new)
    BY DEF Named
  <2>5. QED
    BY <2>2, <2>3, <2>4
<1>5. ASSUME NEW b \in InVlan, NEW a \in Named(w.new), Adjacent(a, b), b \notin Named(seen)
      PROVE  \E y \in new : y[1] = b
  <2>1. PICK z \in w.new : a = z[1]
    BY DEF Named
  <2>2. PICK y \in Neighbours(versions, ln, z) : y \in G /\ Member(versions, y) /\ y[1] = b
    BY <1>1, <1>5, <2>1, NeighbourNames
  <2>3. Usable(versions, y, seen)
    BY <1>5, <2>2 DEF Usable
  <2>4. y \in new
    BY <2>2, <2>3
  <2> HIDE DEF new
  <2>5. QED
    BY <2>2, <2>4
<1> HIDE DEF new, seen
<1>6. new \subseteq G /\ seen \subseteq G
  BY <1>1, <1>4 DEF seen
<1>7. next \in Walk(G)
  BY <1>2, <1>6 DEF Walk
<1>8. Named(new) = NextTo(Named(w.new)) \ Named(seen)
  <2>1. \A b : b \in Named(new) <=> \E y \in new : y[1] = b
    BY DEF Named
  <2>2. QED
    BY <1>4, <1>5, <2>1 DEF NextTo
<1>9. QED
  BY <1>2, <1>3, <1>7, <1>8

LEMMA PathUnfolds ==
  ASSUME VersionsOK(versions), NEW ln, NEW G, Closed(ln, G), NEW x \in G,
         FirstRound(versions, ln, x) \subseteq G, NEW n \in Nat, n = Cardinality(Component)
  PROVE  \E walk \in [0..n -> Walk(G)] :
           /\ walk[0] = [done |-> {x}, new |-> FirstRound(versions, ln, x)]
           /\ \A k \in 1..n : walk[k] = Round(versions, ln, walk[k - 1])
           /\ Path(versions, ln, x) = walk[n].done
<1> DEFINE start == [done |-> {x}, new |-> FirstRound(versions, ln, x)]
           step == [p \in (1..n) \X Walk(G) |-> Round(versions, ln, p[2])]
           Rec(b) == b = [k \in 0..n |-> IF k = 0 THEN start ELSE Round(versions, ln, b[k - 1])]
           walk == CHOOSE b : Rec(b)
<1>1. start \in Walk(G)
  BY DEF Walk
<1>2. Path(versions, ln, x) = walk[n].done
  BY DEF Path, Round
<1> HIDE DEF start
<1>3. step \in Steps(Walk(G), n)
  <2>1. \A p \in (1..n) \X Walk(G) : Round(versions, ln, p[2]) \in Walk(G)
    BY RoundIs
  <2>2. QED
    BY <2>1 DEF Steps
<1>4. PICK f : IsRun(f, Walk(G), n, start, step)
  <2> HIDE DEF step
  <2>1. QED
    BY <1>1, <1>3, Recursion
<1>5. f \in [0..n -> Walk(G)] /\ f[0] = start
  BY <1>4 DEF IsRun
<1>6. \A k \in 1..n : f[k] = Round(versions, ln, f[k - 1])
  <2>1. TAKE k \in 1..n
  <2>2. k - 1 \in 0..n
    OBVIOUS
  <2>3. <<k, f[k - 1]>> \in (1..n) \X Walk(G)
    BY <1>5, <2>2
  <2>4. step[<<k, f[k - 1]>>] = Round(versions, ln, f[k - 1])
    BY <2>3
  <2>5. QED
    BY <1>4, <2>4 DEF IsRun
<1>7. Rec(f)
  <2>1. \A k \in 0..n : f[k] = IF k = 0 THEN start ELSE Round(versions, ln, f[k - 1])
    <3>1. \A k \in 0..n : k # 0 => k \in 1..n
      OBVIOUS
    <3>2. QED
      BY <1>5, <1>6, <3>1
  <2>2. QED
    BY <1>5, <2>1
<1>8. Rec(walk)
  <2> HIDE DEF Rec
  <2>1. QED
    BY <1>7
<1> HIDE DEF walk
<1>9. \A k \in 0..n : walk[k] = IF k = 0 THEN start ELSE Round(versions, ln, walk[k - 1])
  BY <1>8
<1> DEFINE T == {k \in 0..n : walk[k] \in Walk(G)}
<1>10. 0..n \subseteq T
  <2>1. 0 \in T
    BY <1>1, <1>9
  <2>2. ASSUME NEW k \in 1..n, k - 1 \in T PROVE k \in T
    <3>1. k \in 0..n /\ k # 0 /\ walk[k - 1] \in Walk(G)
      BY <2>2
    <3>2. walk[k] = Round(versions, ln, walk[k - 1])
      BY <1>9, <3>1
    <3>3. walk[k] \in Walk(G)
      BY <3>1, <3>2, RoundIs
    <3>4. QED
      BY <3>1, <3>3
  <2> HIDE DEF T
  <2>3. QED
    BY <2>1, <2>2, UpTo
<1>11. walk \in [0..n -> Walk(G)]
  BY <1>8, <1>10
<1>12. walk[0] = start /\ \A k \in 1..n : walk[k] = Round(versions, ln, walk[k - 1])
  BY <1>9
<1>13. QED
  BY <1>2, <1>11, <1>12 DEF start

LEMMA ReachUnfolds ==
  ASSUME NEW c \in Component, NEW n \in Nat, n = Cardinality(Component)
  PROVE  \E reach \in [0..n -> SUBSET Component] :
           /\ reach[0] = {c}
           /\ \A k \in 1..n : reach[k] = reach[k - 1] \cup NextTo(reach[k - 1])
           /\ Reachable(c) = reach[n]
<1> DEFINE More(r) == r \cup NextTo(r)
           step == [p \in (1..n) \X SUBSET Component |-> More(p[2])]
           Rec(b) == b = [k \in 0..n |-> IF k = 0 THEN {c} ELSE More(b[k - 1])]
           reach == CHOOSE b : Rec(b)
<1>1. Reachable(c) = reach[n]
  BY DEF Reachable, NextTo
<1>2. \A r \in SUBSET Component : More(r) \in SUBSET Component
  BY DEF InVlan, NextTo
<1>3. \A r : More(r) = r \cup NextTo(r)
  OBVIOUS
<1> HIDE DEF More
<1>4. step \in Steps(SUBSET Component, n)
  <2>1. \A p \in (1..n) \X SUBSET Component : More(p[2]) \in SUBSET Component
    BY <1>2
  <2>2. QED
    BY <2>1 DEF Steps
<1>5. PICK f : IsRun(f, SUBSET Component, n, {c}, step)
  <2> HIDE DEF step
  <2>1. {c} \in SUBSET Component
    OBVIOUS
  <2>2. QED
    BY <1>4, <2>1, Recursion
<1>6. f \in [0..n -> SUBSET Component] /\ f[0] = {c}
  BY <1>5 DEF IsRun
<1>7. \A k \in 1..n : f[k] = More(f[k - 1])
  <2>1. TAKE k \in 1..n
  <2>2. k - 1 \in 0..n
    OBVIOUS
  <2>3. <<k, f[k - 1]>> \in (1..n) \X SUBSET Component
    BY <1>6, <2>2
  <2>4. step[<<k, f[k - 1]>>] = More(f[k - 1])
    BY <2>3
  <2>5. QED
    BY <1>5, <2>4 DEF IsRun
<1>8. Rec(f)
  <2>1. \A k \in 0..n : f[k] = IF k = 0 THEN {c} ELSE More(f[k - 1])
    <3>1. \A k \in 0..n : k # 0 => k \in 1..n
      OBVIOUS
    <3>2. QED
      BY <1>6, <1>7, <3>1
  <2>2. QED
    BY <1>6, <2>1
<1>9. Rec(reach)
  <2> HIDE DEF Rec
  <2>1. QED
    BY <1>8
<1> HIDE DEF reach
<1>10. \A k \in 0..n : reach[k] = IF k = 0 THEN {c} ELSE More(reach[k - 1])
  BY <1>9
<1> DEFINE T == {k \in 0..n : reach[k] \in SUBSET Component}
<1>11. 0..n \subseteq T
  <2>1. 0 \in T
    BY <1>10
  <2>2. ASSUME NEW k \in 1..n, k - 1 \in T PROVE k \in T
    <3>1. k \in 0..n /\ k # 0 /\ reach[k - 1] \in SUBSET Component
      BY <2>2
    <3>2. reach[k] = More(reach[k - 1])
      BY <1>10, <3>1
    <3>3. QED
      BY <1>2, <3>1, <3>2
  <2> HIDE DEF T
  <2>3. QED
    BY <2>1, <2>2, UpTo
<1>12. reach \in [0..n -> SUBSET Component]
  BY <1>9, <1>11
<1>13. reach[0] = {c} /\ \A k \in 1..n : reach[k] = More(reach[k - 1])
  BY <1>10
<1>14. QED
  BY <1>1, <1>3, <1>12, <1>13

\* The walk from an instance of a closed set finds the components that its
\* component reaches.
LEMMA PathIs ==
  ASSUME VersionsOK(versions), NEW ln, NEW G, Closed(ln, G), NEW x \in G, x[1] \notin SwitchPort
  PROVE  Path(versions, ln, x) \subseteq G /\ Named(Path(versions, ln, x)) = Reachable(x[1])
<1> DEFINE n == Cardinality(Component)
<1>1. n \in Nat
  BY TopologyAssumption, FS_CardinalityType
<1> HIDE DEF n
<1>2. x[1] \in Component
  BY DEF Closed, Instance
<1>3. /\ FirstRound(versions, ln, x) \subseteq G
      /\ Named(FirstRound(versions, ln, x)) = {b \in InVlan : Adjacent(x[1], b)} \ {x[1]}
  BY FirstRoundNames
<1>4. PICK walk \in [0..n -> Walk(G)] :
        /\ walk[0] = [done |-> {x}, new |-> FirstRound(versions, ln, x)]
        /\ \A k \in 1..n : walk[k] = Round(versions, ln, walk[k - 1])
        /\ Path(versions, ln, x) = walk[n].done
  BY <1>1, <1>3, PathUnfolds DEF n
<1>5. PICK reach \in [0..n -> SUBSET Component] :
        /\ reach[0] = {x[1]}
        /\ \A k \in 1..n : reach[k] = reach[k - 1] \cup NextTo(reach[k - 1])
        /\ Reachable(x[1]) = reach[n]
  BY <1>1, <1>2, ReachUnfolds DEF n
<1> DEFINE Same(k) == Named(walk[k].done) = reach[k] /\ Named(walk[k].new) = NextTo(reach[k]) \ reach[k]
           T == {k \in 0..n : Same(k)}
<1>6. 0 \in T
  <2>1. walk[0].done = {x} /\ walk[0].new = FirstRound(versions, ln, x)
    BY <1>4
  <2>2. Named({x}) = {x[1]}
    BY DEF Named
  <2>3. NextTo({x[1]}) = {b \in InVlan : Adjacent(x[1], b)}
    BY DEF NextTo
  <2>4. Same(0)
    <3>1. Named(FirstRound(versions, ln, x)) = NextTo({x[1]}) \ {x[1]}
      BY <1>3, <2>3
    <3>2. QED
      BY <1>5, <2>1, <2>2, <3>1
  <2>5. QED
    BY <1>1, <2>4
<1>7. ASSUME NEW k \in 1..n, k - 1 \in T PROVE k \in T
  <2> DEFINE done == Named(walk[k - 1].done)
             new == Named(walk[k - 1].new)
  <2>1. k - 1 \in 0..n /\ k \in 0..n /\ done = reach[k - 1] /\ new = NextTo(reach[k - 1]) \ reach[k - 1]
    BY <1>1, <1>7
  <2>2. walk[k - 1] \in Walk(G) /\ walk[k] = Round(versions, ln, walk[k - 1])
    BY <1>4, <2>1
  <2>3. Named(walk[k].done) = done \cup new /\ Named(walk[k].new) = NextTo(new) \ Named(walk[k].done)
    <3> DEFINE w == walk[k - 1]
               next == walk[k]
    <3>1. w \in Walk(G) /\ next = Round(versions, ln, w)
      BY <2>2
    <3> HIDE DEF w, next
    <3>2. /\ Named(next.done) = Named(w.done) \cup Named(w.new)
          /\ Named(next.new) = NextTo(Named(w.new)) \ Named(next.done)
      BY <3>1, RoundIs
    <3>3. QED
      BY <3>2 DEF w, next
  <2>4. reach[k] = reach[k - 1] \cup NextTo(reach[k - 1])
    BY <1>5
  <2> HIDE DEF done, new
  <2>5. Named(walk[k].done) = reach[k]
    BY <2>1, <2>3, <2>4
  <2>6. \A b \in NextTo(reach[k]) : b \in NextTo(new) \/ b \in reach[k]
    BY <2>1, <2>4 DEF NextTo
  <2>7. \A b \in NextTo(new) : b \in NextTo(reach[k])
    BY <2>1, <2>4 DEF NextTo
  <2>8. Named(walk[k].new) = NextTo(reach[k]) \ reach[k]
    BY <2>3, <2>5, <2>6, <2>7
  <2>9. QED
    BY <2>1, <2>5, <2>8
<1>8. 0..n \subseteq T
  <2> HIDE DEF T
  <2>1. QED
    BY <1>1, <1>6, <1>7, UpTo
<1>9. n \in 0..n
  BY <1>1
<1>10. Same(n)
  BY <1>8, <1>9
<1>11. walk[n].done \subseteq G
  BY <1>4, <1>9 DEF Walk
<1>12. QED
  BY <1>4, <1>5, <1>10, <1>11

-----------------------------------------------------------------------------
(* Closed sets: what is in the model after a full load, and what an update  *)
(* that leaves StaleUnseen true leads to.                                  *)

LiveOnes == {Live(versions, c) : c \in Component}

\* The links that a full load of the same documents would make.
FreshLinks == Loaded(versions).links

LEMMA LiveClosed ==
  ASSUME VersionsOK(versions), NEW ln, LinksOK(ln), \A c \in Connection : BothBound(versions, ln, c),
         \A x \in LiveOnes : ToSet(ln[x]) \subseteq LiveOnes
  PROVE  Closed(ln, LiveOnes)
<1>1. \A z \in LiveOnes : /\ z \in Instance /\ z[1] \in Component /\ z = Live(versions, z[1])
                          /\ z[2] = Len(versions[DocOf[z[1]]]) /\ Exists(versions, z)
  BY LiveInstance, LiveExists DEF LiveOnes
<1>2. LiveOnes \subseteq Instance /\ ln \in Links
  BY <1>1 DEF LinksOK, Links
<1>3. ASSUME NEW z \in LiveOnes, NEW p \in SwitchPort, DocOf[p] = DocOf[z[1]] PROVE <<p, z[2]>> \in LiveOnes
  <2>1. Live(versions, p) = <<p, z[2]>> /\ p \in Component
    BY <1>1, <1>3 DEF Live, Component
  <2>2. QED
    BY <2>1 DEF LiveOnes
<1>4. \A z \in LiveOnes : Member(versions, z) <=> z[1] \in InVlan
  BY <1>1 DEF InVlan
<1>5. ASSUME NEW z \in LiveOnes, NEW b \in Component PROVE HasName(ln, z, b) <=> Joined(z[1], b)
  <2>1. HasName(ln, z, b) => Joined(z[1], b)
    BY <1>1 DEF HasName, LinksOK
  <2>2. Joined(z[1], b) => HasName(ln, z, b)
    BY <1>1, JoinedBound
  <2>3. QED
    BY <2>1, <2>2
<1>6. QED
  BY <1>1, <1>2, <1>3, <1>4, <1>5 DEF Closed

LEMMA FreshClosed ==
  ASSUME VersionsOK(versions)
  PROVE  /\ LinksOK(FreshLinks) /\ \A c \in Connection : BothBound(versions, FreshLinks, c)
         /\ Closed(FreshLinks, LiveOnes)
<1> DEFINE new == BindAll(versions, NoLinks, Rebound(ToSet(Ecus)))
<1>1. FreshLinks = new
  BY DEF FreshLinks, Loaded, Build
<1>2. LinksOK(NoLinks)
  BY DEF LinksOK, NoLinks
<1> HIDE DEF new
<1>3. /\ Grown(versions, NoLinks, new)
      /\ \A c \in ToSet(External) : BothBound(versions, new, c)
      /\ \A e \in ToSet(Ecus) \cap ToSet(Ecus) : \A c \in ToSet(Internal[e]) : BothBound(versions, new, c)
  BY <1>2, BuildGrows DEF new
<1>4. LinksOK(new) /\ \A c \in Connection : BothBound(versions, new, c)
  BY <1>3 DEF Connection, Grown
<1>5. ASSUME NEW x \in LiveOnes, NEW y \in ToSet(new[x]) PROVE y \in LiveOnes
  <2>1. x \in Instance
    BY LiveInstance DEF LiveOnes
  <2>2. y \notin ToSet(NoLinks[x])
    BY <2>1 DEF NoLinks, ToSet
  <2>3. y = Live(versions, y[1])
    BY <1>3, <2>1, <2>2 DEF Grown
  <2>4. new[x] \in Seq(Instance)
    BY <1>4, <2>1 DEF LinksOK
  <2>5. y[1] \in Component
    BY <1>5, <2>4, MemberOfSeq DEF Instance
  <2>6. QED
    BY <2>3, <2>5 DEF LiveOnes
<1>6. Closed(new, LiveOnes)
  BY <1>4, <1>5, LiveClosed
<1>7. QED
  BY <1>1, <1>4, <1>6

LEMMA NamesAreJoined ==
  ASSUME Linked, NEW z \in Instance, Exists(versions, z), NEW b \in Component
  PROVE  HasName(links, z, b) <=> Joined(z[1], b)
<1>1. HasName(links, z, b) => Joined(z[1], b)
  BY DEF HasName, Linked, LinkInv, LinksOK
<1>2. Joined(z[1], b) => HasName(links, z, b)
  BY DEF Linked, LinkInv
<1>3. QED
  BY <1>1, <1>2

\* When documents are only saved again as they are, old instances do no harm.
LEMMA UnchangedClosed ==
  ASSUME Linked, \A d \in Document : ~ChangedSinceLoad(d)
  PROVE  Closed(links, {x \in Instance : Exists(versions, x)})
<1> DEFINE G == {x \in Instance : Exists(versions, x)}
<1>1. VersionsOK(versions) /\ links \in Links
  BY DEF Linked, LinkInv, LinksOK, Links
<1>2. \A z \in G : z \in Instance /\ Exists(versions, z) /\ z = <<z[1], z[2]>> /\ z[1] \in Component /\ z[2] \in Version
  BY DEF Instance
<1>3. \A z \in Instance : Exists(versions, z) => z \in G
  OBVIOUS
<1>4. ASSUME NEW z \in G, NEW y \in ToSet(links[z]) PROVE y \in G
  <2>1. y \in Instance
    BY <1>1, <1>2, MemberOfSeq DEF Links
  <2>2. Exists(versions, y)
    BY <1>2 DEF Linked, LinkInv
  <2>3. QED
    BY <2>1, <2>2
<1> HIDE DEF G
<1>5. ASSUME NEW z \in G, NEW p \in SwitchPort, DocOf[p] = DocOf[z[1]] PROVE <<p, z[2]>> \in G
  <2> DEFINE y == <<p, z[2]>>
  <2>1. y \in Instance
    BY <1>2 DEF Instance, Component
  <2>2. Exists(versions, y)
    BY <1>2, <1>5 DEF Exists
  <2> HIDE DEF y
  <2>3. y \in G
    BY <1>3, <2>1, <2>2
  <2>4. QED
    BY <2>3 DEF y
<1>6. ASSUME NEW z \in G PROVE Member(versions, z) <=> z[1] \in InVlan
  <2> DEFINE d == DocOf[z[1]]
             l == Live(versions, z[1])
  <2>1. d \in Document /\ l[1] = z[1] /\ l[2] = Len(versions[d])
    BY <1>1, <1>2, LiveInstance
  <2>2. versions[d] \in Seq(Setting) /\ z[2] \in 1..Len(versions[d])
    BY <1>1, <1>2, <2>1 DEF VersionsOK, Exists
  <2>3. versions[d][z[2]] = versions[d][Len(versions[d])]
    BY <2>1, <2>2 DEF ChangedSinceLoad, Last
  <2> HIDE DEF l, d
  <2>4. Written(versions, z) = Written(versions, l)
    BY <2>1, <2>3 DEF Written, d
  <2>5. Member(versions, z) <=> Member(versions, l)
    BY <2>1, <2>4 DEF Member
  <2>6. QED
    BY <1>2, <2>5 DEF InVlan, l
<1>7. \A z \in G : \A b \in Component : HasName(links, z, b) <=> Joined(z[1], b)
  BY <1>2, NamesAreJoined
<1>8. Closed(links, G)
  BY <1>1, <1>2, <1>4, <1>5, <1>6, <1>7 DEF Closed
<1>9. QED
  BY <1>8 DEF G

\* When no component that a list keeps as a partner is reloaded, old instances
\* are only those of ECU ports, which have no VLAN.
UnseenOnes == {x \in Instance : Exists(versions, x) /\ (x[1] \in EcuPort \/ x = Live(versions, x[1]))}

LEMMA UnseenClosed ==
  ASSUME Linked, \A c \in KeptByPartner : ~LoadedAgain(DocOf[c])
  PROVE  Closed(links, UnseenOnes)
<1>1. VersionsOK(versions) /\ links \in Links
  BY DEF Linked, LinkInv, LinksOK, Links
<1>2. ASSUME NEW z \in UnseenOnes
      PROVE  /\ z \in Instance /\ Exists(versions, z) /\ z[1] \in Component /\ z = <<z[1], z[2]>> /\ z[2] \in Version
             /\ z[1] \in EcuPort \/ z = Live(versions, z[1])
  BY DEF UnseenOnes, Instance
<1>3. ASSUME NEW z \in UnseenOnes, NEW y \in ToSet(links[z]) PROVE y \in UnseenOnes
  <2>1. z \in Instance /\ links[z] \in Seq(Instance) /\ z[1] \in Component
    BY <1>1, <1>2 DEF Links
  <2>2. y \in Instance /\ y[1] \in Component /\ y = <<y[1], y[2]>> /\ Exists(versions, y)
    BY <2>1, MemberOfSeq DEF Linked, LinkInv, Instance
  <2>3. Joined(z[1], y[1])
    BY <2>1 DEF Linked, LinkInv, LinksOK, ToSet
  <2>4. SUFFICES y[1] \in EcuPort \/ y = Live(versions, y[1])
    BY <2>2 DEF UnseenOnes
  <2>5. CASE z[1] \in SwitchPort
    <3>1. z = Live(versions, z[1])
      BY <1>2, <2>5, TopologyAssumption
    <3>2. PICK c \in Connection : \E i \in {1, 2} : c[i] = z[1] /\ c[3 - i] = y[1]
      BY <2>3 DEF Joined
    <3>3. PICK i \in {1, 2} : c[i] = z[1] /\ c[3 - i] = y[1]
      BY <3>2
    <3>4. EndBound(versions, links, c, i)
      BY DEF Linked, LinkInv, BothBound
    <3>5. links[z] = <<Live(versions, y[1])>>
      BY <2>5, <3>1, <3>3, <3>4 DEF EndBound, Live
    <3>6. ToSet(<<Live(versions, y[1])>>) = {Live(versions, y[1])}
      BY DEF ToSet
    <3>7. y \in {Live(versions, y[1])}
      BY <1>3, <3>5, <3>6
    <3>8. QED
      BY <3>7
  <2>6. CASE z[1] \notin SwitchPort
    <3>1. PICK c \in Connection : \E i \in {1, 2} : c[i] = y[1] /\ c[3 - i] = z[1]
      BY <2>3 DEF Joined
    <3>2. CASE c \in ToSet(External)
      <4>1. External \in Seq(EcuPort \X EcuPort)
        BY ConnectionAssumption
      <4>2. c \in EcuPort \X EcuPort
        BY <3>2, <4>1, MemberOfSeq
      <4>3. QED
        BY <3>1, <4>2
    <3>3. ASSUME NEW e \in ToSet(Ecus), c \in ToSet(Internal[e]) PROVE y = Live(versions, y[1])
      <4>1. PICK k \in DOMAIN Internal[e] : c = Internal[e][k]
        BY <3>3 DEF ToSet
      <4>2. y[1] \in KeptByPartner
        BY <2>2, <2>6, <3>1, <4>1 DEF KeptByPartner
      <4>3. ~(Len(versions[DocOf[y[1]]]) > 1)
        BY <4>2 DEF LoadedAgain
      <4>4. y[2] \in 1..Len(versions[DocOf[y[1]]]) /\ Len(versions[DocOf[y[1]]]) \in Nat
        BY <1>1, <2>2 DEF Exists, VersionsOK, Version, Document
      <4>5. y[2] = Len(versions[DocOf[y[1]]])
        BY <4>3, <4>4
      <4>6. QED
        BY <2>2, <4>5 DEF Live
    <3>4. QED
      BY <3>2, <3>3 DEF Connection
  <2>7. QED
    BY <2>5, <2>6
<1>4. ASSUME NEW z \in UnseenOnes, NEW p \in SwitchPort, z[1] \in SwitchPort, DocOf[p] = DocOf[z[1]]
      PROVE  <<p, z[2]>> \in UnseenOnes
  <2> DEFINE y == <<p, z[2]>>
  <2>1. y \in Instance /\ y[1] = p
    BY <1>2 DEF Instance, Component
  <2>2. Exists(versions, y)
    BY <1>2, <1>4 DEF Exists
  <2>3. z = Live(versions, z[1])
    BY <1>2, <1>4, TopologyAssumption
  <2>4. y = Live(versions, p)
    BY <1>4, <2>3 DEF Live
  <2> HIDE DEF y
  <2>5. y \in UnseenOnes
    BY <2>1, <2>2, <2>4 DEF UnseenOnes
  <2>6. QED
    BY <2>5 DEF y
<1>5. ASSUME NEW z \in UnseenOnes PROVE Member(versions, z) <=> z[1] \in InVlan
  <2>1. CASE z[1] \in EcuPort
    <3>1. Live(versions, z[1])[1] = z[1]
      BY <1>1, <1>2, LiveInstance
    <3>2. Member(versions, z) /\ Member(versions, Live(versions, z[1]))
      BY <2>1, <3>1, TopologyAssumption DEF Member
    <3>3. QED
      BY <1>2, <3>2 DEF InVlan
  <2>2. CASE z = Live(versions, z[1])
    BY <1>2, <2>2 DEF InVlan
  <2>3. QED
    BY <1>2, <2>1, <2>2
<1>6. \A z \in UnseenOnes : \A b \in Component : HasName(links, z, b) <=> Joined(z[1], b)
  BY <1>2, NamesAreJoined
<1>7. QED
  BY <1>1, <1>2, <1>3, <1>4, <1>5, <1>6 DEF Closed

-----------------------------------------------------------------------------
(* The report.                                                             *)

SendsTo(ms, g) == {k \in DOMAIN ms : ms[k].mode = "tx" /\ ms[k].group = g}

\* Whose path is reported for the group g.
Sender(ms, g) == ms[Min(SendsTo(ms, g))]

LEMMA SenderIs ==
  ASSUME NEW ms \in Seq(Membership), NEW g
  PROVE  /\ g \in Sent(ms) <=> SendsTo(ms, g) # {}
         /\ \A p \in SendsTo(ms, g) : (\A q \in SendsTo(ms, g) : p <= q) => Sender(ms, g) = ms[p]
         /\ g \in Sent(ms) =>
              /\ Sender(ms, g) \in ToSet(ms) /\ Sender(ms, g).mode = "tx" /\ Sender(ms, g).group = g
<1> DEFINE S == SendsTo(ms, g)
<1>1. g \in Sent(ms) <=> \E m \in ToSet(ms) : m.mode = "tx" /\ m.group = g
  BY DEF Sent
<1>2. g \in Sent(ms) <=> S # {}
  BY <1>1 DEF ToSet, SendsTo
<1>3. S \subseteq Nat /\ S \subseteq Int
  BY DEF SendsTo
<1>4. \A k \in S : ms[k] \in ToSet(ms) /\ ms[k].mode = "tx" /\ ms[k].group = g
  BY DEF SendsTo, ToSet
<1> HIDE DEF S
<1>5. \A p \in S : (\A q \in S : p <= q) => Min(S) = p
  BY <1>3, MinIs
<1>6. g \in Sent(ms) => Min(S) \in S
  <2>1. S # {} => \E p \in S : \A q \in S : p <= q
    BY <1>3, LeastNat
  <2>2. QED
    BY <1>2, <1>5, <2>1
<1>7. Sender(ms, g) = ms[Min(S)]
  BY DEF Sender, S
<1>8. QED
  BY <1>2, <1>4, <1>5, <1>6, <1>7 DEF S

LEMMA EcuSends ==
  ASSUME NEW ver, VersionsOK(ver), NEW e \in ToSet(Ecus)
  PROVE  /\ Having(ver, e, "tx") # << >> =>
              /\ Len(EcuMemberships(ver, e)) >= 1
              /\ EcuMemberships(ver, e)[1] = Membr(Configured, "tx", Having(ver, e, "tx")[1], FALSE)
         /\ \A m \in ToSet(EcuMemberships(ver, e)) : m.mode = "tx" => Having(ver, e, "tx") # << >>
<1> DEFINE tx == Having(ver, e, "tx")
           rx == Having(ver, e, "rx")
           sends == [k \in DOMAIN tx |-> Membr(Configured, "tx", tx[k], FALSE)]
           hears == [k \in DOMAIN rx |-> Membr(Configured, "rx", rx[k], FALSE)]
<1>1. EcuMemberships(ver, e) = sends \o hears
  BY DEF EcuMemberships
<1>2. tx \in Seq(Instance) /\ rx \in Seq(Instance)
  BY HavingIs
<1> HIDE DEF tx, rx
<1> DEFINE Both == {sends[k] : k \in DOMAIN tx} \cup {hears[k] : k \in DOMAIN rx}
<1>3. DOMAIN tx = 1..Len(tx) /\ Len(tx) \in Nat /\ DOMAIN rx = 1..Len(rx) /\ Len(rx) \in Nat
  BY <1>2
<1>4. \A k \in DOMAIN tx : sends[k] = Membr(Configured, "tx", tx[k], FALSE)
  OBVIOUS
<1>5. \A k \in DOMAIN rx : hears[k] = Membr(Configured, "rx", rx[k], FALSE)
  OBVIOUS
<1>6. sends \in [1..Len(tx) -> Both] /\ hears \in [1..Len(rx) -> Both]
  <2>1. sends = [k \in 1..Len(tx) |-> sends[k]] /\ hears = [k \in 1..Len(rx) |-> hears[k]]
    BY <1>3
  <2> HIDE DEF sends, hears
  <2>2. (\A k \in 1..Len(tx) : sends[k] \in Both) /\ (\A k \in 1..Len(rx) : hears[k] \in Both)
    BY <1>3
  <2> HIDE DEF Both
  <2>3. QED
    BY <2>1, <2>2
<1> HIDE DEF Both, sends, hears
<1>7. /\ sends \in Seq(Both) /\ Len(sends) = Len(tx) /\ DOMAIN sends = DOMAIN tx
      /\ hears \in Seq(Both) /\ Len(hears) = Len(rx) /\ DOMAIN hears = DOMAIN rx
  BY <1>3, <1>6
<1>8. ASSUME tx # << >>
      PROVE  Len(sends \o hears) >= 1 /\ (sends \o hears)[1] = Membr(Configured, "tx", tx[1], FALSE)
  <2>1. Len(tx) >= 1 /\ 1 \in DOMAIN tx
    BY <1>2, <1>3, <1>8
  <2>2. Len(sends \o hears) >= 1 /\ (sends \o hears)[1] = sends[1]
    BY <1>3, <1>7, <2>1
  <2>3. QED
    BY <1>4, <2>1, <2>2
<1>9. ASSUME NEW m \in ToSet(sends \o hears), m.mode = "tx" PROVE tx # << >>
  <2>1. m \in ToSet(sends) \/ m \in ToSet(hears)
    BY <1>7, ConcatSet
  <2>2. CASE m \in ToSet(sends)
    <3>1. DOMAIN tx # {}
      BY <1>7, <2>2 DEF ToSet
    <3>2. QED
      BY <3>1
  <2>3. CASE m \in ToSet(hears)
    <3>1. PICK k \in DOMAIN rx : m = hears[k]
      BY <1>7, <2>3 DEF ToSet
    <3>2. m = Membr(Configured, "rx", rx[k], FALSE)
      BY <1>5, <3>1
    <3>3. m.mode = "rx"
      BY <3>2 DEF Membr
    <3>4. QED
      BY <1>9, <3>3
  <2>4. QED
    BY <2>1, <2>2, <2>3
<1>10. QED
  BY <1>1, <1>8, <1>9 DEF tx

\* The first sender of the configured group: it depends on the documents alone.
EcusSending(ver) == {k \in 1..Len(Ecus) : Having(ver, Ecus[k], "tx") # << >>}

FirstTx(ver) == Membr(Configured, "tx", Having(ver, Ecus[Min(EcusSending(ver))], "tx")[1], FALSE)

LEMMA FirstConfigured ==
  ASSUME NEW ver, VersionsOK(ver), NEW gr, \A e \in ToSet(Ecus) : Shape(ver, e, gr[e])
  PROVE  /\ Configured \in Sent(AllMemberships(gr)) <=> EcusSending(ver) # {}
         /\ Configured \in Sent(AllMemberships(gr)) => Sender(AllMemberships(gr), Configured) = FirstTx(ver)
<1> DEFINE s == Pieces(gr)
           ms == AllMemberships(gr)
           n == Len(Ecus)
           E == EcusSending(ver)
           S == SendsTo(ms, Configured)
           tx(k) == Membr(Configured, "tx", Having(ver, Ecus[k], "tx")[1], FALSE)
<1>1. \A e \in ToSet(Ecus) : gr[e] \in Seq(Membership)
  BY ShapeIs
<1>2. /\ s \in Seq(Seq(Membership)) /\ Len(s) = n /\ n \in Nat
      /\ \A k \in 1..n : s[k] = gr[Ecus[k]] /\ Ecus[k] \in ToSet(Ecus)
      /\ ms = FlattenSeq(s)
  BY <1>1, PiecesAre, EcuList
<1>3. \A k \in E : k \in 1..n /\ Having(ver, Ecus[k], "tx") # << >>
  BY DEF EcusSending
<1>4. \A k \in 1..n : Having(ver, Ecus[k], "tx") # << >> => k \in E
  BY DEF EcusSending
<1> HIDE DEF s, ms, n, E
<1>5. ms \in Seq(Membership)
  BY <1>2, FlattenPlaces
<1>6. PICK at \in [1..n -> Nat] :
        /\ Laid(s, at, n, ms)
        /\ \A k, l \in 1..n : k < l => at[k] + Len(s[k]) <= at[l]
  BY <1>2, FlattenPlaces
<1>7. DOMAIN ms = 1..Len(ms) /\ Len(ms) \in Nat
  BY <1>5
<1>8. ASSUME NEW k \in 1..n PROVE s[k] \in Seq(Membership) /\ Len(s[k]) \in Nat /\ DOMAIN s[k] = 1..Len(s[k])
  BY <1>2, ElementIn
<1>9. ASSUME NEW k \in E PROVE at[k] + 1 \in S /\ ms[at[k] + 1] = tx(k) /\ Len(s[k]) >= 1
  <2> DEFINE e == Ecus[k]
             a == EcuMemberships(ver, e)
  <2>1. k \in 1..n /\ e \in ToSet(Ecus) /\ Having(ver, e, "tx") # << >>
    BY <1>2, <1>3
  <2>2. PICK r \in Seq(Membership) : s[k] = a \o r
    BY <1>2, <2>1 DEF Shape
  <2>3. a \in Seq(Membership) /\ Len(a) >= 1 /\ a[1] = tx(k)
    BY <2>1, EcuMembershipsIs, EcuSends
  <2>4. tx(k).mode = "tx" /\ tx(k).group = Configured
    BY DEF Membr
  <2> HIDE DEF a, tx
  <2>5. Len(s[k]) >= 1 /\ s[k][1] = tx(k) /\ 1 \in 1..Len(s[k])
    BY <2>2, <2>3
  <2>6. at[k] + 1 \in 1..Len(ms) /\ ms[at[k] + 1] = tx(k)
    BY <1>6, <2>1, <2>5 DEF Laid
  <2>7. at[k] + 1 \in S
    BY <1>7, <2>4, <2>6 DEF SendsTo
  <2>8. QED
    BY <2>5, <2>6, <2>7
<1>10. ASSUME NEW q \in S
       PROVE  \E k \in E : \E i \in 1..Len(s[k]) : q = at[k] + i
  <2>1. q \in 1..Len(ms) /\ ms[q].mode = "tx" /\ ms[q].group = Configured
    BY <1>7 DEF SendsTo
  <2>2. PICK k \in 1..n : \E i \in 1..Len(s[k]) : q = at[k] + i
    BY <1>6, <2>1 DEF Laid
  <2>3. PICK i \in 1..Len(s[k]) : q = at[k] + i
    BY <2>2
  <2>4. ms[q] = s[k][i]
    BY <1>6, <2>3 DEF Laid
  <2>5. ms[q] \in ToSet(gr[Ecus[k]]) /\ Ecus[k] \in ToSet(Ecus)
    BY <1>2, <1>8, <2>4 DEF ToSet
  <2>6. ms[q] \in ToSet(EcuMemberships(ver, Ecus[k]))
    <3>1. ~Solicits(ver, Ecus[k], ms[q])
      BY <2>1 DEF Solicits
    <3>2. QED
      BY <2>5, <3>1, ShapeIs
  <2>7. k \in E
    BY <1>4, <2>1, <2>5, <2>6, EcuSends
  <2>8. QED
    BY <2>3, <2>7
<1> HIDE DEF S
<1>11. Configured \in Sent(ms) <=> S # {}
  BY <1>5, SenderIs DEF S
<1>12. S # {} <=> E # {}
  BY <1>9, <1>10
<1>13. ASSUME S # {} PROVE Sender(ms, Configured) = FirstTx(ver)
  <2>1. E \subseteq Nat /\ E \subseteq Int
    BY <1>3
  <2>2. PICK K \in E : \A k \in E : K <= k
    BY <1>12, <1>13, <2>1, LeastNat
  <2>3. Min(E) = K
    BY <2>1, <2>2, MinIs
  <2>4. K \in 1..n /\ at[K] \in Nat /\ Len(s[K]) \in Nat /\ Len(s[K]) >= 1
    BY <1>3, <1>8, <1>9
  <2>5. ASSUME NEW q \in S PROVE at[K] + 1 <= q
    <3>1. PICK k \in E : \E i \in 1..Len(s[k]) : q = at[k] + i
      BY <1>10
    <3>2. PICK i \in 1..Len(s[k]) : q = at[k] + i
      BY <3>1
    <3>3. k \in 1..n /\ K <= k /\ at[k] \in Nat /\ Len(s[k]) \in Nat
      BY <1>3, <1>8, <2>2
    <3>4. CASE k = K
      BY <2>4, <3>2, <3>4
    <3>5. CASE K < k
      <4>1. at[K] + Len(s[K]) <= at[k]
        BY <1>6, <2>4, <3>3, <3>5
      <4>2. QED
        BY <2>4, <3>2, <3>3, <4>1
    <3>6. QED
      BY <2>4, <3>3, <3>4, <3>5
  <2>6. at[K] + 1 \in S /\ ms[at[K] + 1] = tx(K)
    BY <1>9
  <2> HIDE DEF tx
  <2>7. Sender(ms, Configured) = ms[at[K] + 1]
    BY <1>5, <2>5, <2>6, SenderIs DEF S
  <2>8. FirstTx(ver) = tx(K)
    BY <2>3 DEF FirstTx, E, tx
  <2>9. QED
    BY <2>6, <2>7, <2>8
<1>14. QED
  BY <1>11, <1>12, <1>13 DEF ms, E

\* Every membership is one of an interface in the model.
LEMMA IfaceLive ==
  ASSUME VersionsOK(versions), NEW gr, GroupInv(versions, gr), NEW m \in ToSet(AllMemberships(gr))
  PROVE  /\ m \in Membership
         /\ m.iface[1] \in Interface /\ m.iface = Live(versions, m.iface[1]) /\ m.iface \in LiveOnes
<1>1. \A e \in ToSet(Ecus) : gr[e] \in Seq(Membership)
  BY DEF GroupInv
<1>2. PICK e \in ToSet(Ecus) : m \in ToSet(gr[e])
  BY <1>1, AllAre
<1>3. m \in Membership
  BY <1>1, <1>2, MemberOfSeq
<1>4. m \in ToSet(EcuMemberships(versions, e)) \/ Solicits(versions, e, m)
  BY <1>2, ShapeIs DEF GroupInv
<1>5. m.iface[1] \in Interface /\ m.iface = Live(versions, m.iface[1])
  <2>1. CASE m \in ToSet(EcuMemberships(versions, e))
    BY <2>1, EcuMembershipsIs DEF OfEcu
  <2>2. CASE Solicits(versions, e, m)
    BY <2>2, HavingIs DEF Solicits
  <2>3. QED
    BY <1>4, <2>1, <2>2
<1>6. QED
  BY <1>3, <1>5 DEF LiveOnes, Component

\* The path of a group holds what its first sender reaches.
LEMMA PathsAre ==
  ASSUME VersionsOK(versions), NEW ln, NEW G, Closed(ln, G), LiveOnes \subseteq G,
         NEW gr, GroupInv(versions, gr), NEW ms, ms = AllMemberships(gr),
         NEW paths, paths = Paths(versions, ln, gr)
  PROVE  /\ DOMAIN paths = Sent(ms)
         /\ \A g \in Sent(ms) :
              /\ Sender(ms, g) \in ToSet(ms) /\ Sender(ms, g).mode = "tx" /\ Sender(ms, g).group = g
              /\ paths[g] \subseteq G /\ Named(paths[g]) = Reachable(Sender(ms, g).iface[1])
<1>1. ms \in Seq(Membership)
  BY AllAre DEF GroupInv
<1>2. paths = [g \in Sent(ms) |-> Path(versions, ln, Sender(ms, g).iface)]
  BY DEF Paths, Sender, SendsTo
<1>3. ASSUME NEW g \in Sent(ms)
      PROVE  /\ Sender(ms, g) \in ToSet(ms) /\ Sender(ms, g).mode = "tx" /\ Sender(ms, g).group = g
             /\ paths[g] \subseteq G /\ Named(paths[g]) = Reachable(Sender(ms, g).iface[1])
  <2> DEFINE m == Sender(ms, g)
  <2>1. m \in ToSet(ms) /\ m.mode = "tx" /\ m.group = g
    BY <1>1, SenderIs
  <2>2. paths[g] = Path(versions, ln, m.iface)
    BY <1>2
  <2> HIDE DEF m
  <2>3. m.iface \in G /\ m.iface[1] \notin SwitchPort
    BY <2>1, IfaceLive, TopologyAssumption
  <2>4. Path(versions, ln, m.iface) \subseteq G /\ Named(Path(versions, ln, m.iface)) = Reachable(m.iface[1])
    BY <2>3, PathIs
  <2>5. QED
    BY <2>1, <2>2, <2>4 DEF m
<1>4. QED
  BY <1>2, <1>3

\* The walk is right wherever the old instances are out of its way.
LEMMA StaleClosed ==
  ASSUME Linked, StaleUnseen
  PROVE  \E G : Closed(links, G) /\ LiveOnes \subseteq G
<1>1. \A x \in LiveOnes : x \in Instance /\ Exists(versions, x) /\ x = Live(versions, x[1])
  BY LiveInstance, LiveExists DEF LiveOnes, Linked
<1>2. LiveOnes \subseteq {x \in Instance : Exists(versions, x)} /\ LiveOnes \subseteq UnseenOnes
  BY <1>1 DEF UnseenOnes
<1>3. QED
  BY <1>2, UnchangedClosed, UnseenClosed DEF StaleUnseen

\* What the validators report, from the links and the memberships.
ReportOf(ver, ln, gr) ==
  LET paths == Paths(ver, ln, gr)
  IN [paths    |-> paths,
      warnings |-> MulticastWarnings(gr, paths) \cup ConnectionWarnings(ver) \cup UnconnectedWarnings(ver, ln)]

\* The report is that of the links and memberships of now; after a full load
\* the switches forward what it says.
Reported ==
  /\ report = ReportOf(versions, links, groups)
  /\ JustLoaded => forwarding = Forward(NoForwarding, report.paths)

LEMMA BuildReports ==
  ASSUME NEW ver, NEW es, NEW ln, NEW gr, NEW fw, NEW m, m = Build(ver, es, ln, gr, fw)
  PROVE  m.report = ReportOf(ver, m.links, m.groups) /\ m.forwarding = Forward(fw, m.report.paths)
BY DEF Build, ReportOf

LEMMA LoadedReports ==
  ASSUME NEW ver
  PROVE  /\ Loaded(ver).report = ReportOf(ver, Loaded(ver).links, Loaded(ver).groups)
         /\ Loaded(ver).forwarding = Forward(NoForwarding, Loaded(ver).report.paths)
BY BuildReports DEF Loaded

THEOREM ReportHolds == Spec => []Reported
<1>1. Init => Reported
  BY LoadedReports DEF Init, Reported
<1>2. Linked /\ [Next]_vars /\ Reported => Reported'
  <2> SUFFICES ASSUME Linked, [Next]_vars, Reported PROVE Reported'
    OBVIOUS
  <2>1. CASE UNCHANGED vars
    BY <2>1 DEF vars, Reported, JustLoaded, LoadedAgain
  <2>2. CASE Reload
    <3>1. /\ versions' = Latest /\ links' = Loaded(Latest).links /\ groups' = Loaded(Latest).groups
          /\ report' = Loaded(Latest).report /\ forwarding' = Loaded(Latest).forwarding
      BY <2>2 DEF Reload, Become, Latest
    <3>2. report' = ReportOf(versions', links', groups') /\ forwarding' = Forward(NoForwarding, report'.paths)
      BY <3>1, LoadedReports
    <3>3. QED
      BY <3>2 DEF Reported
  <2>3. ASSUME NEW d \in Document, NEW v \in Offered[d], UpdateDocument(d, v) PROVE Reported'
    <3> DEFINE m == Build(After(d, v), {EcuOf[d]}, links, groups, forwarding)
    <3>1. /\ Len(versions[d]) < MaxVersions /\ versions' = After(d, v)
          /\ links' = m.links /\ groups' = m.groups /\ report' = m.report
      BY <2>3 DEF UpdateDocument, Become, After
    <3> HIDE DEF m
    <3>2. report' = ReportOf(versions', links', groups')
      BY <3>1, BuildReports DEF m
    <3>3. Len(versions'[d]) = Len(versions[d]) + 1 /\ Len(versions[d]) >= 1 /\ Len(versions[d]) \in Nat
      BY <3>1, AfterIs, TopologyAssumption DEF Linked, VersionsOK, Version
    <3>4. ~(JustLoaded')
      BY <3>3 DEF JustLoaded, LoadedAgain
    <3>5. QED
      BY <3>2, <3>4 DEF Reported
  <2>4. QED
    BY <2>1, <2>2, <2>3 DEF Next
<1>3. QED
  BY <1>1, <1>2, LinksHold, PTL DEF Spec

\* Where old instances are out of the way, the path of every group holds what
\* one of its senders reaches, whatever order the connections were bound in
\* (compute_path); after a full load a switch forwards the group to just those
\* of its ports (load_switch_multicast).
THEOREM PathsAreReached == Spec => []PathsReach
<1>1. Linked /\ Grouped /\ Reported => PathsReach
  <2> SUFFICES ASSUME Linked, Grouped, Reported PROVE PathsReach
    OBVIOUS
  <2> DEFINE ms == AllMemberships(groups)
             paths == Paths(versions, links, groups)
  <2>1. VersionsOK(versions) /\ GroupInv(versions, groups) /\ report.paths = paths
    BY DEF Linked, Grouped, Reported, ReportOf
  <2>2. ASSUME NEW G, Closed(links, G), LiveOnes \subseteq G
        PROVE  /\ DOMAIN paths = Sent(ms)
               /\ \A g \in Sent(ms) :
                    /\ Sender(ms, g) \in ToSet(ms) /\ Sender(ms, g).mode = "tx" /\ Sender(ms, g).group = g
                    /\ paths[g] \subseteq G /\ Named(paths[g]) = Reachable(Sender(ms, g).iface[1])
    <3> HIDE DEF ms, paths
    <3>1. ms = AllMemberships(groups) /\ paths = Paths(versions, links, groups)
      BY DEF ms, paths
    <3>2. QED
      BY <2>1, <2>2, <3>1, PathsAre
  <2> HIDE DEF ms, paths
  <2>3. ASSUME StaleUnseen, NEW g \in DOMAIN report.paths
        PROVE  \E m \in ToSet(ms) : m.group = g /\ m.mode = "tx" /\ Named(report.paths[g]) = Reachable(m.iface[1])
    BY <2>1, <2>2, <2>3, StaleClosed
  <2>4. ASSUME JustLoaded, NEW d \in Switch, NEW g \in Group
        PROVE  forwarding[<<d, Len(versions[d])>>][g] =
                 {p \in SwitchPort : DocOf[p] = d /\ g \in DOMAIN report.paths /\ p \in Named(report.paths[g])}
    <3>1. d \in Document /\ \A c \in Component : DocOf[c] \in Document
      BY DEF Switch, Document, Component
    <3>2. \A c \in Document : Len(versions[c]) = 1
      <4>1. \A c \in Document : ~(Len(versions[c]) > 1)
        BY <2>4 DEF JustLoaded, LoadedAgain
      <4>2. \A c \in Document : Len(versions[c]) \in 1..MaxVersions
        BY <2>1 DEF VersionsOK, Version
      <4>3. MaxVersions \in Nat /\ \A n \in 1..MaxVersions : n > 1 \/ n = 1
        BY TopologyAssumption
      <4>4. QED
        BY <4>1, <4>2, <4>3
    <3>3. StaleUnseen
      BY <2>4, <3>1 DEF StaleUnseen, JustLoaded, KeptByPartner
    <3>4. PICK G : Closed(links, G) /\ LiveOnes \subseteq G
      BY <3>3, StaleClosed
    <3>5. ASSUME NEW h \in DOMAIN paths, NEW p \in SwitchPort PROVE <<p, 1>> \in paths[h] <=> p \in Named(paths[h])
      <4>1. paths[h] \subseteq G
        BY <2>2, <3>4
      <4>2. ASSUME NEW y \in paths[h] PROVE y = <<y[1], 1>>
        <5>1. y \in Instance /\ Exists(versions, y)
          BY <3>4, <4>1 DEF Closed
        <5>2. y = <<y[1], y[2]>> /\ DocOf[y[1]] \in Document
          BY <3>1, <5>1 DEF Instance
        <5>3. y[2] \in 1..1
          BY <3>2, <5>1, <5>2 DEF Exists
        <5>4. QED
          BY <5>2, <5>3
      <4>3. p \in Named(paths[h]) <=> \E y \in paths[h] : y[1] = p
        BY DEF Named
      <4>4. <<p, 1>>[1] = p
        OBVIOUS
      <4>5. QED
        BY <4>2, <4>3, <4>4
    <3>6. /\ <<d, 1>> \in Switch \X Version
          /\ Len(versions[d]) = 1
      BY <3>1, <3>2, TopologyAssumption DEF Version
    <3>7. forwarding[<<d, 1>>][g] = {p \in SwitchPort : g \in DOMAIN paths /\ DocOf[p] = d /\ <<p, 1>> \in paths[g]}
      <4>1. forwarding = Forward(NoForwarding, paths)
        BY <2>1, <2>4 DEF Reported
      <4>2. DOMAIN NoForwarding = Switch \X Version /\ NoForwarding[<<d, 1>>][g] = {}
        BY <3>6 DEF NoForwarding
      <4>3. Forward(NoForwarding, paths)[<<d, 1>>][g] = NoForwarding[<<d, 1>>][g]
               \cup {p \in SwitchPort : g \in DOMAIN paths /\ DocOf[p] = d /\ <<p, 1>> \in paths[g]}
        BY <3>6, <4>2 DEF Forward
      <4>4. QED
        BY <4>1, <4>2, <4>3
    <3>8. QED
      BY <2>1, <3>5, <3>6, <3>7
  <2>5. QED
    BY <2>3, <2>4 DEF PathsReach, ms
<1>2. QED
  BY <1>1, LinksHold, GroupsHold, ReportHolds, PTL

\* Whatever was reloaded, a connection that an ECU port lacks after a full load
\* it lacks now, and every warning on the configured group is there.
LEMMA WarningsKept ==
  ASSUME Linked, Grouped,
         NEW fresh, fresh = Loaded(versions).groups,
         NEW freshPaths, DOMAIN freshPaths = Sent(AllMemberships(fresh)),
         NEW paths, DOMAIN paths = Sent(AllMemberships(groups)),
         Configured \in DOMAIN freshPaths => Named(paths[Configured]) = Named(freshPaths[Configured]),
         NEW w, ~OnSolicited(w)
  PROVE  /\ w \in MulticastWarnings(fresh, freshPaths) => w \in MulticastWarnings(groups, paths)
         /\ w \in UnconnectedWarnings(versions, FreshLinks) => w \in UnconnectedWarnings(versions, links)
<1> DEFINE ms == AllMemberships(groups)
           old == AllMemberships(fresh)
<1>1. VersionsOK(versions) /\ GroupInv(versions, groups) /\ GroupInv(versions, fresh)
  BY LoadedGroups DEF Linked, Grouped
<1>2. ToSet(old) \subseteq ToSet(ms)
  <2>1. \A e \in ToSet(Ecus) : fresh[e] \in Seq(Membership) /\ groups[e] \in Seq(Membership)
    BY <1>1 DEF GroupInv
  <2>2. \A e \in ToSet(Ecus) : ToSet(fresh[e]) \subseteq ToSet(groups[e])
    BY FreshKept
  <2>3. QED
    BY <2>1, <2>2, AllAre
<1>3. Configured \in Sent(old) <=> Configured \in Sent(ms)
  BY <1>1, FirstConfigured DEF GroupInv
<1>4. ASSUME NEW m \in ToSet(old), m.group # Configured
      PROVE  /\ w # <<"no sender", m.group>>
             /\ w # <<"unreached", m.mode, m.group, m.iface[1]>>
  <2>1. m \in Membership /\ m.iface[1] \in Interface
    BY <1>1, IfaceLive
  <2>2. m.group \in Group \ {Configured} /\ m.mode \in {"tx", "rx"}
    BY <1>4, <2>1 DEF Membership
  <2>3. QED
    BY <2>1, <2>2 DEF OnSolicited
<1>5. ASSUME w \in MulticastWarnings(fresh, freshPaths) PROVE w \in MulticastWarnings(groups, paths)
  <2>1. CASE \E m \in ToSet(old) : /\ m.group \in DOMAIN freshPaths /\ m.iface[1] \notin Named(freshPaths[m.group])
                                   /\ w = <<"unreached", m.mode, m.group, m.iface[1]>>
    <3>1. PICK m \in ToSet(old) : /\ m.group \in DOMAIN freshPaths /\ m.iface[1] \notin Named(freshPaths[m.group])
                                  /\ w = <<"unreached", m.mode, m.group, m.iface[1]>>
      BY <2>1
    <3>2. m.group = Configured
      BY <1>4, <3>1
    <3>3. m \in ToSet(ms) /\ m.group \in DOMAIN paths /\ m.iface[1] \notin Named(paths[m.group])
      BY <1>2, <1>3, <3>1, <3>2
    <3>4. QED
      BY <3>1, <3>3 DEF MulticastWarnings
  <2>2. CASE \E m \in ToSet(old) : m.mode = "rx" /\ m.group \notin DOMAIN freshPaths /\ w = <<"no sender", m.group>>
    <3>1. PICK m \in ToSet(old) : m.mode = "rx" /\ m.group \notin DOMAIN freshPaths /\ w = <<"no sender", m.group>>
      BY <2>2
    <3>2. m.group = Configured
      BY <1>4, <3>1
    <3>3. m \in ToSet(ms) /\ m.group \notin DOMAIN paths
      BY <1>2, <1>3, <3>1, <3>2
    <3>4. QED
      BY <3>1, <3>3 DEF MulticastWarnings
  <2>3. QED
    BY <1>5, <2>1, <2>2 DEF MulticastWarnings
<1>6. ASSUME w \in UnconnectedWarnings(versions, FreshLinks) PROVE w \in UnconnectedWarnings(versions, links)
  <2> DEFINE Alone(ln, p) == \A k \in DOMAIN ln[Live(versions, p)] : ln[Live(versions, p)][k][1] \notin EcuPort
  <2>1. PICK p \in EcuPort : w = <<"unconnected", p>> /\ Alone(FreshLinks, p)
    BY <1>6 DEF UnconnectedWarnings
  <2>2. p \in Component
    BY DEF Component
  <2>3. /\ Live(versions, p) \in Instance /\ Live(versions, p) \in LiveOnes
        /\ Live(versions, p)[1] = p /\ Exists(versions, Live(versions, p))
    BY <1>1, <2>2, LiveInstance, LiveExists DEF LiveOnes
  <2>4. ASSUME NEW k \in DOMAIN links[Live(versions, p)], links[Live(versions, p)][k][1] \in EcuPort PROVE FALSE
    <3> DEFINE b == links[Live(versions, p)][k][1]
    <3>1. b \in Component /\ b \in EcuPort /\ HasName(links, Live(versions, p), b)
      BY <2>4 DEF Component, HasName
    <3> HIDE DEF b
    <3>2. Joined(p, b)
      BY <2>3, <3>1, NamesAreJoined
    <3>3. HasName(FreshLinks, Live(versions, p), b)
      BY <1>1, <2>3, <3>1, <3>2, FreshClosed DEF Closed
    <3>4. QED
      BY <2>1, <3>1, <3>3 DEF HasName
  <2>5. Alone(links, p)
    BY <2>4
  <2>6. QED
    BY <2>1, <2>5 DEF UnconnectedWarnings
<1>7. QED
  BY <1>5, <1>6

\* Where old instances are out of the way, a partial reload reports every path
\* of a full load, that of the configured group with the same components, and
\* every warning but those on solicited-node groups.
THEOREM ReportStaysCurrent == Spec => []ReportCurrent
<1>1. Linked /\ Grouped /\ Reported => ReportCurrent
  <2> SUFFICES ASSUME Linked, Grouped, Reported, StaleUnseen
               PROVE  /\ {w \in Fresh.warnings : ~OnSolicited(w)} \subseteq report.warnings
                      /\ DOMAIN Fresh.paths \subseteq DOMAIN report.paths
                      /\ Configured \in DOMAIN Fresh.paths =>
                           Named(report.paths[Configured]) = Named(Fresh.paths[Configured])
    BY DEF ReportCurrent
  <2> DEFINE fresh == Loaded(versions).groups
             ms == AllMemberships(groups)
             old == AllMemberships(fresh)
             paths == Paths(versions, links, groups)
             freshPaths == Paths(versions, FreshLinks, fresh)
  <2>1. VersionsOK(versions) /\ GroupInv(versions, groups) /\ GroupInv(versions, fresh)
    BY LoadedGroups DEF Linked, Grouped
  <2>2. /\ report.paths = paths
        /\ report.warnings = MulticastWarnings(groups, paths) \cup ConnectionWarnings(versions)
                             \cup UnconnectedWarnings(versions, links)
    BY DEF Reported, ReportOf
  <2>3. /\ Fresh.paths = freshPaths
        /\ Fresh.warnings = MulticastWarnings(fresh, freshPaths) \cup ConnectionWarnings(versions)
                            \cup UnconnectedWarnings(versions, FreshLinks)
    <3>1. Fresh = ReportOf(versions, FreshLinks, fresh)
      BY LoadedReports DEF Fresh, FreshLinks
    <3> HIDE DEF fresh
    <3>2. QED
      BY <3>1 DEF ReportOf
  <2>4. PICK G : Closed(links, G) /\ LiveOnes \subseteq G
    BY StaleClosed
  <2>5. /\ fresh = Loaded(versions).groups /\ ms = AllMemberships(groups) /\ old = AllMemberships(fresh)
        /\ paths = Paths(versions, links, groups) /\ freshPaths = Paths(versions, FreshLinks, fresh)
    OBVIOUS
  <2> HIDE DEF fresh, ms, old, paths, freshPaths
  <2>6. DOMAIN paths = Sent(ms) /\ \A g \in Sent(ms) : Named(paths[g]) = Reachable(Sender(ms, g).iface[1])
    BY <2>1, <2>4, <2>5, PathsAre
  <2>7. DOMAIN freshPaths = Sent(old) /\ \A g \in Sent(old) : Named(freshPaths[g]) = Reachable(Sender(old, g).iface[1])
    BY <2>1, <2>5, FreshClosed, PathsAre
  <2>8. ToSet(old) \subseteq ToSet(ms)
    <3>1. \A e \in ToSet(Ecus) : fresh[e] \in Seq(Membership) /\ groups[e] \in Seq(Membership)
      BY <2>1 DEF GroupInv
    <3>2. \A e \in ToSet(Ecus) : ToSet(fresh[e]) \subseteq ToSet(groups[e])
      BY <2>5, FreshKept
    <3>3. QED
      BY <2>5, <3>1, <3>2, AllAre
  <2>9. DOMAIN freshPaths \subseteq DOMAIN paths
    BY <2>6, <2>7, <2>8 DEF Sent
  <2>10. Configured \in Sent(old) => Sender(old, Configured) = Sender(ms, Configured)
    BY <2>1, <2>5, FirstConfigured DEF GroupInv
  <2>11. Configured \in DOMAIN freshPaths => Named(paths[Configured]) = Named(freshPaths[Configured])
    BY <2>6, <2>7, <2>9, <2>10
  <2>12. ASSUME NEW w, ~OnSolicited(w)
         PROVE  /\ w \in MulticastWarnings(fresh, freshPaths) => w \in MulticastWarnings(groups, paths)
                /\ w \in UnconnectedWarnings(versions, FreshLinks) => w \in UnconnectedWarnings(versions, links)
    BY <2>5, <2>6, <2>7, <2>11, <2>12, WarningsKept
  <2>13. {w \in Fresh.warnings : ~OnSolicited(w)} \subseteq report.warnings
    BY <2>2, <2>3, <2>12
  <2>14. QED
    BY <2>2, <2>3, <2>9, <2>11, <2>13
<1>2. QED
  BY <1>1, LinksHold, GroupsHold, ReportHolds, PTL
=============================================================================
