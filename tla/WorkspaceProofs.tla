-------------------------- MODULE WorkspaceProofs --------------------------
(***************************************************************************)
(* Proofs about Workspace and ObjectMap for any number of ECUs, files and  *)
(* edits: what the model shows, and that it is found under its ids.        *)
(***************************************************************************)
EXTENDS ObjectMap, ListFacts, FiniteSetTheorems, FunctionTheorems, SequenceTheorems, TLAPS

-----------------------------------------------------------------------------
(* Lists in file order.                                                    *)

\* What comes before i in a finite set of numbers is a smaller finite set.
LEMMA RankType ==
  ASSUME NEW S \in SUBSET Int, IsFiniteSet(S), NEW i \in Int
  PROVE  /\ Rank(S, i) \in Nat
         /\ Rank(S, i) <= Cardinality(S)
         /\ i \in S => Rank(S, i) < Cardinality(S)
<1> DEFINE B == {j \in S : j < i}
<1>1. B \in SUBSET S
  OBVIOUS
<1>2. /\ IsFiniteSet(B) /\ Cardinality(B) <= Cardinality(S)
      /\ Cardinality(S) = Cardinality(B) => S = B
  BY <1>1, FS_Subset
<1>3. Cardinality(B) \in Nat /\ Cardinality(S) \in Nat
  BY <1>2, FS_CardinalityType
<1>4. i \in S => S # B
  OBVIOUS
<1>5. QED
  BY <1>2, <1>3, <1>4 DEF Rank

\* Two members of the set have different ranks.
LEMMA RankInjective ==
  ASSUME NEW S \in SUBSET Int, IsFiniteSet(S), NEW i \in S, NEW j \in S, i < j
  PROVE  Rank(S, i) < Rank(S, j)
<1> DEFINE B == {k \in S : k < j}
<1>1. IsFiniteSet(B) /\ B \in SUBSET Int /\ i \in B
  BY FS_Subset
<1>2. Rank(B, i) < Cardinality(B)
  BY <1>1, RankType
<1>3. \A k \in S : k < i => k < j
  OBVIOUS
<1>4. {k \in B : k < i} = {k \in S : k < i}
  BY <1>3, Zenon
<1>5. QED
  BY <1>2, <1>4 DEF Rank

\* Every rank below the cardinality is taken.
LEMMA RankOnto ==
  ASSUME NEW S \in SUBSET Int, IsFiniteSet(S), NEW k \in 1..Cardinality(S)
  PROVE  \E i \in S : Rank(S, i) = k - 1
<1> DEFINE T == 0..(Cardinality(S) - 1)
           f == [i \in S |-> Rank(S, i)]
<1>1. Cardinality(S) \in Nat
  BY FS_CardinalityType
<1>2. IsFiniteSet(T) /\ Cardinality(T) = Cardinality(S)
  <2> DEFINE n == Cardinality(S)
  <2>1. n \in Nat
    BY <1>1
  <2> HIDE DEF n
  <2>2. /\ IsFiniteSet(0..(n - 1))
        /\ Cardinality(0..(n - 1)) = IF 0 > n - 1 THEN 0 ELSE n - 1 - 0 + 1
    BY <2>1, FS_Interval
  <2>3. IsFiniteSet(0..(n - 1)) /\ Cardinality(0..(n - 1)) = n
    BY <2>1, <2>2
  <2>4. QED
    BY <2>3 DEF n
<1>3. f \in [S -> T]
  BY <1>1, RankType
<1>4. ASSUME NEW i \in S, NEW j \in S, f[i] = f[j]
      PROVE  i = j
  <2>1. i \in Int /\ j \in Int
    OBVIOUS
  <2>2. Rank(S, i) \in Nat /\ Rank(S, j) \in Nat /\ Rank(S, i) = Rank(S, j)
    BY <1>4, <2>1, RankType
  <2>3. ~(i < j) /\ ~(j < i)
    BY <2>2, RankInjective
  <2>4. QED
    BY <2>1, <2>3
<1>5. f \in Injection(S, T)
  BY <1>3, <1>4, Fun_IsInj
<1>6. f \in Surjection(S, T)
  BY <1>2, <1>5, FS_Injection
<1>7. k - 1 \in T
  BY <1>1
<1>8. QED
  BY <1>6, <1>7 DEF Surjection

\* The k-th member of a set is the one with k - 1 members before it.
LEMMA AtProperties ==
  ASSUME NEW S \in SUBSET Int, IsFiniteSet(S)
  PROVE  /\ \A k \in 1..Cardinality(S) : At(S, k) \in S /\ Rank(S, At(S, k)) = k - 1
         /\ \A i \in S : /\ Rank(S, i) + 1 \in 1..Cardinality(S)
                         /\ At(S, Rank(S, i) + 1) = i
<1>1. ASSUME NEW k \in 1..Cardinality(S)
      PROVE  At(S, k) \in S /\ Rank(S, At(S, k)) = k - 1
  BY RankOnto DEF At
<1>2. ASSUME NEW i \in S
      PROVE  /\ Rank(S, i) + 1 \in 1..Cardinality(S)
             /\ At(S, Rank(S, i) + 1) = i
  <2>1. i \in Int /\ Cardinality(S) \in Nat
    BY FS_CardinalityType
  <2>2. Rank(S, i) \in Nat /\ Rank(S, i) < Cardinality(S)
    BY <2>1, RankType
  <2> DEFINE j == At(S, Rank(S, i) + 1)
  <2>3. Rank(S, i) + 1 \in 1..Cardinality(S)
    BY <2>1, <2>2
  <2>4. j \in S /\ Rank(S, j) = Rank(S, i)
    BY <1>1, <2>2, <2>3
  <2>5. j = i
    <3> HIDE DEF j
    <3>1. ~(i < j) /\ ~(j < i)
      BY <2>2, <2>4, RankInjective
    <3>2. j \in Int
      BY <2>4
    <3>3. QED
      BY <2>1, <3>1, <3>2
  <2>6. QED
    BY <2>3, <2>5
<1>3. QED
  BY <1>1, <1>2

\* A list in file order has one entry per member.
LEMMA ListOfType ==
  ASSUME NEW S \in SUBSET Int, IsFiniteSet(S), NEW T, NEW f, \A i \in S : f[i] \in T
  PROVE  /\ ListOf(S, f) \in Seq(T)
         /\ Len(ListOf(S, f)) = Cardinality(S)
         /\ \A k \in 1..Cardinality(S) : ListOf(S, f)[k] = f[At(S, k)]
<1>1. Cardinality(S) \in Nat
  BY FS_CardinalityType
<1>2. \A k \in 1..Cardinality(S) : f[At(S, k)] \in T
  BY AtProperties
<1>3. ListOf(S, f) \in [1..Cardinality(S) -> T]
  BY <1>2 DEF ListOf
<1>4. QED
  BY <1>1, <1>3 DEF ListOf

LEMMA SpliceType ==
  ASSUME NEW T, NEW list \in Seq(T), NEW pos \in Nat, NEW v \in T
  PROVE  Splice(list, pos, v) \in Seq(T)
<1>1. CASE pos < Len(list)
  <2>1. pos + 1 \in 1..Len(list)
    BY <1>1, LenProperties
  <2>2. [list EXCEPT ![pos + 1] = v] \in Seq(T)
    BY <2>1, ExceptSeq
  <2>3. QED
    BY <1>1, <2>2 DEF Splice
<1>2. CASE ~(pos < Len(list))
  BY <1>2 DEF Splice
<1>3. QED
  BY <1>1, <1>2

LEMMA WithoutType ==
  ASSUME NEW T, NEW list \in Seq(T), NEW pos \in Nat
  PROVE  Without(list, pos) \in Seq(T)
<1>1. Len(list) \in Nat /\ list \in [1..Len(list) -> T]
  BY LenProperties
<1>2. CASE pos < Len(list)
  <2>1. SubSeq(list, 1, pos) \in Seq(T)
    <3>1. \A i \in 1..pos : list[i] \in T
      BY <1>1, <1>2
    <3>2. QED
      BY <3>1, SubSeqProperties
  <2>2. SubSeq(list, pos + 2, Len(list)) \in Seq(T)
    <3>1. \A i \in (pos + 2)..Len(list) : list[i] \in T
      BY <1>1
    <3>2. QED
      BY <1>1, <3>1, SubSeqProperties
  <2>3. QED
    BY <1>2, <2>1, <2>2, ConcatProperties DEF Without
<1>3. CASE ~(pos < Len(list))
  BY <1>3 DEF Without
<1>4. QED
  BY <1>2, <1>3

-----------------------------------------------------------------------------
(* Types of what a load computes.                                          *)

LEMMA NodeParts ==
  /\ \A n \in Node : n[1] \in ECU /\ n[2] \in 0..Dir /\ n = <<n[1], n[2]>>
  /\ \A d \in Doc : d[1] \in ECU /\ d[2] \in 0..NS /\ d = <<d[1], d[2]>> /\ d \in Node
  /\ \A e \in ECU : \A i \in 0..NS : <<e, i>> \in Doc
  /\ \A e \in ECU : <<e, Dir>> \in Node
BY SizeAssumption DEF Node, Doc, DirNode, Dir, Meta, Item

LEMMA ModelOfType ==
  ASSUME NEW c \in Content
  PROVE  /\ ModelOf(c) \in ValueModel \cup {NoModel}
         /\ \A i \in Item : ItemValue(i, c) \in ItemModel \cup {NoModel}
         /\ \A i \in Item : ModelOf(c) # NoModel => ItemValue(i, c) \in ItemModel
<1>1. c \in [kind : Usable, val : Vals] \/ c.kind \in Unusable
  BY DEF Content
<1>2. CASE c \in [kind : Usable, val : Vals]
  BY <1>2 DEF ModelOf, ValueModel, ItemValue, ItemModel
<1>3. CASE c.kind \in Unusable
  BY <1>3 DEF ModelOf, ItemValue, Usable, Unusable
<1>4. QED
  BY <1>1, <1>2, <1>3

LEMMA ContentType ==
  /\ Absent \in Content /\ Unopened \in Content
  /\ \A c \in Content : AstAfter(c) \in Content
  /\ Text \subseteq Content
<1>1. \A c \in Content : AstAfter(c) \in Content
  <2> SUFFICES ASSUME NEW c \in Content, c.kind = "nested"
               PROVE  [c EXCEPT !.kind = "pruned"] \in Content
    BY DEF AstAfter
  <2>1. c \in [kind : Usable, val : Vals]
    BY DEF Content, Unusable
  <2>2. QED
    BY <2>1 DEF Content, Usable
<1>2. QED
  BY <1>1 DEF Content, Unusable, Absent, Unopened, Text

LEMMA LoadingFinite ==
  ASSUME NEW seen, NEW e
  PROVE  /\ Loading(seen, e) \in SUBSET Int
         /\ IsFiniteSet(Loading(seen, e))
         /\ Loading(seen, e) \subseteq Item
<1>1. IsFiniteSet(Item)
  BY SizeAssumption, FS_Interval DEF Item
<1>2. Loading(seen, e) \subseteq Item
  BY DEF Loading, Present
<1>3. IsFiniteSet(Loading(seen, e))
  BY <1>1, <1>2, FS_Subset
<1>4. Item \in SUBSET Int
  BY SizeAssumption DEF Item
<1>5. QED
  BY <1>2, <1>3, <1>4

LEMMA LoadEcuType ==
  ASSUME NEW seen \in [Doc -> Content], NEW e \in ECU
  PROVE  /\ Switches(seen, e) \in Seq(ItemModel)
         /\ LoadEcu(seen, e) \in EcuValue
<1> DEFINE S == Loading(seen, e)
           f == [i \in Item |-> ItemValue(i, seen[<<e, i>>])]
<1>1. \A i \in 0..NS : seen[<<e, i>>] \in Content
  BY NodeParts
<1>2. \A i \in S : f[i] \in ItemModel
  <2> TAKE i \in S
  <2>1. i \in Item /\ i \in 0..NS /\ ModelOf(seen[<<e, i>>]) # NoModel
    BY SizeAssumption DEF Loading, Present, Item
  <2>2. QED
    BY <1>1, <2>1, ModelOfType
<1>3. ListOf(S, f) \in Seq(ItemModel)
  <2> HIDE DEF S, f
  <2>1. QED
    BY <1>2, LoadingFinite, ListOfType DEF S
<1>4. Switches(seen, e) \in Seq(ItemModel)
  BY <1>3 DEF Switches
<1>5. ModelOf(seen[<<e, Meta>>]) \in ValueModel \cup {NoModel}
  BY <1>1, ModelOfType, SizeAssumption DEF Meta
<1>6. QED
  BY <1>4, <1>5 DEF LoadEcu, EcuValue, EcuModel

LEMMA LoadModelType ==
  ASSUME NEW seen \in [Doc -> Content]
  PROVE  /\ LoadModel(seen) \in Seq(EcuModel)
         /\ LoadingEcus(seen) \in SUBSET Int
         /\ IsFiniteSet(LoadingEcus(seen))
<1> DEFINE S == LoadingEcus(seen)
           f == [e \in ECU |-> LoadEcu(seen, e)]
<1>1. S \subseteq ECU /\ IsFiniteSet(ECU)
  BY SizeAssumption, FS_Interval DEF LoadingEcus, ECU
<1>2. IsFiniteSet(S) /\ S \in SUBSET Int
  <2>1. ECU \in SUBSET Int
    BY SizeAssumption DEF ECU
  <2> HIDE DEF S
  <2>2. QED
    BY <1>1, <2>1, FS_Subset
<1>3. \A e \in S : f[e] \in EcuModel
  BY LoadEcuType DEF LoadingEcus, EcuValue
<1>4. ListOf(S, f) \in Seq(EcuModel)
  <2> HIDE DEF S, f
  <2>1. QED
    BY <1>2, <1>3, ListOfType
<1>5. QED
  BY <1>2, <1>4 DEF LoadModel

LEMMA KeyOfType ==
  ASSUME NEW seen \in [Doc -> Content], NEW n \in Node
  PROVE  /\ KeyOf(seen, n) \in Nat
         /\ FullKey(seen, n) \in Nat
         /\ NodeDiag(seen, n) \in {"absent", "clean", "error"}
<1>1. n[2] \in Item => Rank(Loading(seen, n[1]), n[2]) \in Nat
  BY LoadingFinite, RankType DEF Item
<1>2. n[1] \in Int
  BY NodeParts DEF ECU
<1>3. Rank(LoadingEcus(seen), n[1]) \in Nat
  BY <1>2, LoadModelType, RankType
<1>4. QED
  BY <1>1, <1>3 DEF KeyOf, FullKey, NodeDiag, DiagOf

-----------------------------------------------------------------------------
(* Type correctness.  The position of an ECU in the root list is a number  *)
(* only because a document never has a LoadNode without its directory.     *)

DirLoaded == \A d \in Doc : key[d] # NoNode => key[<<d[1], Dir>>] # NoNode

\* What a partial or a full reload leaves behind.
WsOK(ws) ==
  /\ ws.ast \in [Doc -> Content]
  /\ ws.key \in [Node -> Nat \cup {NoNode}]
  /\ ws.diags \in [Node -> {"absent", "clean", "error"}]
  /\ ws.ecuModel \in [ECU -> EcuValue]
  /\ ws.model \in Seq(EcuModel)
  /\ ws.returned \subseteq Node
  /\ \A d \in Doc : ws.key[d] # NoNode => ws.key[<<d[1], Dir>>] # NoNode

TypeInv == TypeOK /\ DirLoaded

LEMMA FullLoadOK ==
  ASSUME disk \in [Doc -> Text]
  PROVE  WsOK(FullLoad)
<1>1. disk \in [Doc -> Content]
  BY ContentType
<1>2. \A d \in Doc : (IF disk[d] = Absent THEN Unopened ELSE AstAfter(disk[d])) \in Content
  BY <1>1, ContentType
<1>3. \A n \in Node : /\ FullKey(disk, n) \in Nat
                      /\ NodeDiag(disk, n) \in {"absent", "clean", "error"}
  BY <1>1, KeyOfType
<1>4. \A e \in ECU : LoadEcu(disk, e) \in EcuValue
  BY <1>1, LoadEcuType
<1>5. LoadModel(disk) \in Seq(EcuModel)
  BY <1>1, LoadModelType
<1>6. FullNodes(disk) \subseteq Node
  <2> SUFFICES ASSUME NEW e \in ECU PROVE NodesOf(disk, e) \subseteq Node
    BY DEF FullNodes
  <2>1. Visited(disk, e) \cup {Meta} \subseteq 0..NS
    BY SizeAssumption DEF Visited, Present, Item, Meta
  <2>2. QED
    BY <2>1, NodeParts DEF NodesOf
<1>7. \A e \in ECU : <<e, Dir>> \in FullNodes(disk)
  BY DEF FullNodes, NodesOf
<1>8. \A e \in ECU : FullLoad.key[<<e, Dir>>] # NoNode
  BY <1>3, <1>7, NodeParts DEF FullLoad, NoNode
<1>9. \A d \in Doc : FullLoad.key[d] # NoNode => FullLoad.key[<<d[1], Dir>>] # NoNode
  BY <1>8, NodeParts
<1>10. FullLoad.ast \in [Doc -> Content]
  BY <1>2 DEF FullLoad
<1>11. FullLoad.key \in [Node -> Nat \cup {NoNode}]
  BY <1>3 DEF FullLoad
<1>12. FullLoad.diags \in [Node -> {"absent", "clean", "error"}]
  BY <1>3 DEF FullLoad
<1>13. /\ FullLoad.ecuModel \in [ECU -> EcuValue]
       /\ FullLoad.model \in Seq(EcuModel)
       /\ FullLoad.returned \subseteq Node
  BY <1>4, <1>5, <1>6 DEF FullLoad
<1>14. QED
  BY <1>9, <1>10, <1>11, <1>12, <1>13 DEF WsOK

LEMMA FailedLoadOK ==
  ASSUME model \in Seq(EcuModel)
  PROVE  WsOK(FailedLoad)
<1>1. /\ FailedLoad.ast \in [Doc -> Content]
      /\ FailedLoad.key \in [Node -> Nat \cup {NoNode}]
      /\ FailedLoad.diags \in [Node -> {"absent", "clean", "error"}]
  BY ContentType DEF FailedLoad
<1>2. /\ FailedLoad.ecuModel \in [ECU -> EcuValue]
      /\ FailedLoad.model \in Seq(EcuModel)
      /\ FailedLoad.returned \subseteq Node
  BY DEF FailedLoad, EcuValue
<1>3. \A d \in Doc : FailedLoad.key[d] = NoNode
  BY NodeParts DEF FailedLoad
<1>4. QED
  BY <1>1, <1>2, <1>3 DEF WsOK

LEMMA BecomeOK ==
  ASSUME NEW ws, WsOK(ws), Become(ws),
         disk' \in [Doc -> Text], pending' \subseteq Doc, edits' \in 0..MaxEdits
  PROVE  TypeInv'
BY DEF WsOK, Become, TypeInv, TypeOK, DirLoaded

\* The one document alone.
LEMMA ReloadDocumentOK ==
  ASSUME TypeInv, NEW d \in Doc
  PROVE  WsOK(ReloadDocument(d))
<1>1. AstAfter(disk[d]) \in Content /\ DiagOf(disk[d]) \in {"absent", "clean", "error"}
  BY ContentType DEF TypeInv, TypeOK, DiagOf
<1>2. d \in Node
  BY NodeParts
<1>3. QED
  BY <1>1, <1>2 DEF WsOK, ReloadDocument, TypeInv, TypeOK, DirLoaded

\* A rebuilt ECU has the type of a loaded one: Splice gets a recorded position.
LEMMA RebuildEcuType ==
  ASSUME TypeInv, NEW d \in Doc, key[d] # NoNode
  PROVE  RebuildEcu(d) \in EcuValue
<1> DEFINE old == ecuModel[d[1]]
           child == IF d[2] = Meta THEN ModelOf(disk[d]) ELSE ItemValue(d[2], disk[d])
<1> SUFFICES ASSUME old # NoModel, child # NoModel
             PROVE  RebuildEcu(d) \in EcuModel
  BY DEF RebuildEcu, EcuValue
<1>1. old \in EcuModel /\ disk[d] \in Content /\ d[2] \in 0..NS
  BY NodeParts, ContentType DEF TypeInv, TypeOK, EcuValue
<1>2. key[d] \in Nat
  BY NodeParts DEF TypeInv, TypeOK
<1>3. CASE d[2] = Meta
  <2>1. child \in ValueModel
    BY <1>1, <1>3, ModelOfType
  <2>2. [old EXCEPT !.meta = child] \in EcuModel
    BY <1>1, <2>1 DEF EcuModel
  <2>3. QED
    BY <1>3, <2>2 DEF RebuildEcu
<1>4. CASE d[2] # Meta
  <2>1. d[2] \in Item
    BY <1>1, <1>4, SizeAssumption DEF Item, Meta
  <2>2. child \in ItemModel
    BY <1>1, <1>4, <2>1, ModelOfType
  <2>3. Splice(old.switches, key[d], child) \in Seq(ItemModel)
    BY <1>1, <1>2, <2>2, SpliceType DEF EcuModel
  <2>4. [old EXCEPT !.switches = Splice(@, key[d], child)] \in EcuModel
    BY <1>1, <2>3 DEF EcuModel
  <2>5. QED
    BY <1>4, <2>4 DEF RebuildEcu
<1>5. QED
  BY <1>3, <1>4

LEMMA SeenType ==
  ASSUME TypeInv, NEW asts \in [Doc -> Content]
  PROVE  Seen(asts) \in [Doc -> Content]
BY ContentType DEF Seen, TypeInv, TypeOK

LEMMA ReloadEcuOK ==
  ASSUME TypeInv, NEW ws, WsOK(ws), NEW e \in ECU, ws.key[<<e, Dir>>] # NoNode
  PROVE  WsOK(ReloadEcu(ws, e))
<1> DEFINE seen == Seen(ws.ast)
           after == ReloadEcu(ws, e)
<1>1. seen \in [Doc -> Content]
  BY SeenType DEF WsOK
<1> HIDE DEF seen
<1>2. after.ast \in [Doc -> Content]
  BY <1>1, ContentType DEF ReloadEcu, WsOK, seen
<1>3. \A n \in Node : /\ KeyOf(seen, n) \in Nat
                      /\ NodeDiag(seen, n) \in {"absent", "clean", "error"}
  BY <1>1, KeyOfType
<1>4. after.key \in [Node -> Nat \cup {NoNode}]
  BY <1>3 DEF ReloadEcu, WsOK, seen
<1>5. after.diags \in [Node -> {"absent", "clean", "error"}]
  BY <1>3 DEF ReloadEcu, WsOK, seen
<1>6. after.ecuModel \in [ECU -> EcuValue]
  BY <1>1, LoadEcuType DEF ReloadEcu, WsOK, seen
<1>7. after.model \in Seq(EcuModel)
  BY DEF ReloadEcu, WsOK
<1>8. after.returned \subseteq Node
  <2>1. EcuNodes(e) \subseteq Node
    <3>1. ASSUME NEW i \in 0..Dir PROVE <<e, i>> \in Node
      <4>1. i = Dir \/ i \in 0..NS
        BY SizeAssumption DEF Dir
      <4>2. QED
        BY <4>1, NodeParts
    <3>2. QED
      BY <3>1 DEF EcuNodes
  <2>2. QED
    BY <2>1 DEF ReloadEcu, WsOK
<1>9. \A c \in ECU : after.key[<<c, Dir>>] = ws.key[<<c, Dir>>]
  <2> TAKE c \in ECU
  <2>1. <<c, Dir>> \in Node /\ <<e, Dir>> \in NodesOf(seen, e)
    BY NodeParts DEF NodesOf
  <2>2. <<c, Dir>> \in EcuNodes(e) => c = e
    BY DEF EcuNodes
  <2>3. QED
    BY <2>1, <2>2 DEF ReloadEcu, seen
<1>10. \A d \in Doc : d[1] # e => after.key[d] = ws.key[d]
  BY NodeParts DEF ReloadEcu, NodesOf, EcuNodes
<1>11. \A d \in Doc : after.key[d] # NoNode => after.key[<<d[1], Dir>>] # NoNode
  BY <1>9, <1>10, NodeParts DEF WsOK
<1>12. QED
  BY <1>2, <1>4, <1>5, <1>6, <1>7, <1>8, <1>11 DEF WsOK

LEMMA UpdateEcuOK ==
  ASSUME TypeInv, NEW d \in Doc, key[d] # NoNode
  PROVE  WsOK(UpdateEcu(d)) /\ UpdateEcu(d).key[<<d[1], Dir>>] \in Nat
<1>1. WsOK(ReloadDocument(d)) /\ ReloadDocument(d).key[<<d[1], Dir>>] # NoNode
  BY ReloadDocumentOK, NodeParts DEF ReloadDocument, TypeInv, DirLoaded
<1>2. WsOK(UpdateEcu(d)) /\ UpdateEcu(d).key[<<d[1], Dir>>] # NoNode
  <2>1. CASE RebuildEcu(d) = NoModel
    <3>1. WsOK(ReloadEcu(ReloadDocument(d), d[1]))
      BY <1>1, ReloadEcuOK, NodeParts
    <3>2. ReloadEcu(ReloadDocument(d), d[1]).key[<<d[1], Dir>>] # NoNode
      <4>1. <<d[1], Dir>> \in Node /\ \A seen : <<d[1], Dir>> \in NodesOf(seen, d[1])
        BY NodeParts DEF NodesOf
      <4>2. QED
        BY <1>1, <4>1 DEF ReloadEcu
    <3>3. QED
      BY <2>1, <3>1, <3>2 DEF UpdateEcu
  <2>2. CASE RebuildEcu(d) # NoModel
    <3> DEFINE ws == ReloadDocument(d)
               rebuilt == RebuildEcu(d)
               dn == <<d[1], Dir>>
               up == [ws EXCEPT !.ecuModel[d[1]] = rebuilt,
                                !.diags[dn] = "clean",
                                !.returned = @ \cup {dn}]
    <3>1. UpdateEcu(d) = up
      BY <2>2 DEF UpdateEcu
    <3>2. rebuilt \in EcuValue /\ dn \in Node /\ d[1] \in ECU
      BY RebuildEcuType, NodeParts
    <3>3. /\ ws = [ast |-> ws.ast, key |-> ws.key, diags |-> ws.diags,
                   ecuModel |-> ws.ecuModel, model |-> ws.model, returned |-> ws.returned]
      BY DEF ReloadDocument
    <3> HIDE DEF ws, rebuilt, dn
    <3>4. /\ up.ast = ws.ast /\ up.key = ws.key /\ up.model = ws.model
          /\ up.ecuModel = [ws.ecuModel EXCEPT ![d[1]] = rebuilt]
          /\ up.diags = [ws.diags EXCEPT ![dn] = "clean"]
          /\ up.returned = ws.returned \cup {dn}
      BY <3>3
    <3> HIDE DEF up
    <3>5. WsOK(ws)
      BY <1>1 DEF ws
    <3>6. WsOK(up)
      BY <3>2, <3>4, <3>5 DEF WsOK
    <3>7. up.key[<<d[1], Dir>>] # NoNode
      BY <1>1, <3>4 DEF ws
    <3>8. QED
      BY <3>1, <3>6, <3>7
  <2>3. QED
    BY <2>1, <2>2
<1>3. QED
  BY <1>2, NodeParts DEF WsOK

LEMMA PartialReloadOK ==
  ASSUME TypeInv, NEW d \in Doc, key[d] # NoNode
  PROVE  WsOK([UpdateEcu(d) EXCEPT !.model = RootList(UpdateEcu(d), d[1])])
<1> DEFINE ws == UpdateEcu(d)
           pos == ws.key[<<d[1], Dir>>]
<1>1. WsOK(ws) /\ pos \in Nat /\ d[1] \in ECU
  BY UpdateEcuOK, NodeParts
<1>2. ws = [ast |-> ws.ast, key |-> ws.key, diags |-> ws.diags,
            ecuModel |-> ws.ecuModel, model |-> ws.model, returned |-> ws.returned]
  BY DEF UpdateEcu, ReloadEcu, ReloadDocument
<1> HIDE DEF ws
<1>3. RootList(ws, d[1]) \in Seq(EcuModel)
  <2>1. ws.model \in Seq(EcuModel) /\ ws.ecuModel[d[1]] \in EcuModel \cup {NoModel}
    BY <1>1 DEF WsOK, EcuValue
  <2>2. Without(ws.model, pos) \in Seq(EcuModel)
    BY <1>1, <2>1, WithoutType
  <2>3. ws.ecuModel[d[1]] # NoModel
        => Splice(ws.model, pos, ws.ecuModel[d[1]]) \in Seq(EcuModel)
    BY <1>1, <2>1, SpliceType
  <2>4. QED
    BY <2>2, <2>3 DEF RootList
<1>4. QED
  BY <1>1, <1>2, <1>3 DEF WsOK, ws

LEMMA ResetAndReloadOK ==
  ASSUME TypeInv, ResetAndReload, UNCHANGED <<disk, edits>>, pending' \subseteq Doc
  PROVE  TypeInv'
<1>1. WsOK(FullLoad) /\ WsOK(FailedLoad)
  BY FullLoadOK, FailedLoadOK DEF TypeInv, TypeOK
<1>2. \E ws : WsOK(ws) /\ Become(ws)
  BY <1>1 DEF ResetAndReload
<1>3. disk' \in [Doc -> Text] /\ edits' \in 0..MaxEdits
  BY DEF TypeInv, TypeOK
<1>4. QED
  BY <1>2, <1>3, BecomeOK

LEMMA TypeInit == Init => TypeInv
<1> SUFFICES ASSUME Init PROVE TypeInv
  OBVIOUS
<1>1. disk \in [Doc -> Text] /\ pending \subseteq Doc /\ edits \in 0..MaxEdits
  BY EditAssumption DEF Init, Text
<1>2. WsOK(FullLoad)
  BY <1>1, FullLoadOK
<1>3. /\ ast = FullLoad.ast /\ key = FullLoad.key /\ diags = FullLoad.diags
      /\ ecuModel = FullLoad.ecuModel /\ model = FullLoad.model /\ returned = {}
  BY DEF Init
<1>4. QED
  BY <1>1, <1>2, <1>3 DEF WsOK, TypeInv, TypeOK, DirLoaded

LEMMA TypeStep == TypeInv /\ [Next]_vars => TypeInv'
<1> SUFFICES ASSUME TypeInv, [Next]_vars PROVE TypeInv'
  OBVIOUS
<1>1. ASSUME NEW d \in Doc, EditFile(d) PROVE TypeInv'
  <2>1. disk' \in [Doc -> Text]
    BY <1>1 DEF EditFile, Writable, TypeInv, TypeOK
  <2>2. pending' \subseteq Doc /\ edits' \in 0..MaxEdits
    BY <1>1, EditAssumption DEF EditFile, TypeInv, TypeOK
  <2>3. UNCHANGED wsVars
    BY <1>1 DEF EditFile
  <2>4. QED
    BY <2>1, <2>2, <2>3 DEF TypeInv, TypeOK, DirLoaded, wsVars
<1>2. ASSUME NEW d \in Doc, UpdateDocument(d) PROVE TypeInv'
  <2>1. pending' \subseteq Doc /\ UNCHANGED <<disk, edits>>
    BY <1>2 DEF UpdateDocument, TypeInv, TypeOK
  <2>2. CASE ResetAndReload
    BY <2>1, <2>2, ResetAndReloadOK
  <2>3. CASE /\ key[d] # NoNode
             /\ Become([UpdateEcu(d) EXCEPT !.model = RootList(UpdateEcu(d), d[1])])
    <3>1. WsOK([UpdateEcu(d) EXCEPT !.model = RootList(UpdateEcu(d), d[1])])
      BY <2>3, PartialReloadOK
    <3>2. disk' \in [Doc -> Text] /\ edits' \in 0..MaxEdits
      BY <2>1 DEF TypeInv, TypeOK
    <3>3. QED
      BY <2>1, <2>3, <3>1, <3>2, BecomeOK
  <2>4. QED
    BY <1>2, <2>2, <2>3 DEF UpdateDocument, PartialReload
<1>3. CASE UNCHANGED vars
  BY <1>3 DEF vars, TypeInv, TypeOK, DirLoaded
<1>4. QED
  BY <1>1, <1>2, <1>3 DEF Next

\* Whatever editors write and however the calls of update_document are
\* ordered, flync_model stays a list of complete ECU models: no None and no
\* half-built ECU gets into it, and every position is one that was recorded.
THEOREM TypeCorrect == Spec => []TypeOK
<1>1. TypeInv => TypeOK
  BY DEF TypeInv
<1>2. QED
  BY TypeInit, TypeStep, <1>1, PTL DEF Spec

-----------------------------------------------------------------------------
(* A list in file order after one of its items changed.                    *)

LEMMA SpliceListOf ==
  ASSUME NEW S \in SUBSET Int, IsFiniteSet(S), NEW i \in S, NEW f, NEW g,
         \A j \in S : j # i => g[j] = f[j]
  PROVE  Splice(ListOf(S, f), Rank(S, i), g[i]) = ListOf(S, g)
<1> DEFINE n == Cardinality(S)
           r == Rank(S, i)
           F == ListOf(S, f)
           G == ListOf(S, g)
<1>1. n \in Nat /\ r \in Nat /\ r + 1 \in 1..n /\ At(S, r + 1) = i
  BY FS_CardinalityType, AtProperties, RankType
<1>2. F = [k \in 1..n |-> f[At(S, k)]] /\ G = [k \in 1..n |-> g[At(S, k)]]
  BY DEF ListOf
<1>3. \A k \in 1..n : At(S, k) \in S /\ Rank(S, At(S, k)) = k - 1
  BY AtProperties
<1>4. \A k \in 1..n : k # r + 1 => At(S, k) # i
  BY <1>1, <1>3
<1> HIDE DEF n, r, F, G
<1>5. Len(F) = n
  BY <1>1, <1>2
<1>6. [F EXCEPT ![r + 1] = g[i]] = G
  BY <1>1, <1>2, <1>3, <1>4
<1>7. r < Len(F)
  BY <1>1, <1>5
<1>8. QED
  BY <1>6, <1>7 DEF Splice, F, G, r

\* Two views of the files with the same models, and nothing unparsable in
\* either, load to the same ECU models and the same root list.
LEMMA SameModels ==
  ASSUME NEW a, NEW b,
         \A d \in Doc : /\ ModelOf(a[d]) = ModelOf(b[d])
                        /\ a[d].kind # "garbled" /\ b[d].kind # "garbled"
  PROVE  /\ \A e \in ECU : Loading(a, e) = Loading(b, e)
         /\ \A e \in ECU : LoadEcu(a, e) = LoadEcu(b, e)
         /\ LoadModel(a) = LoadModel(b)
         /\ \A d \in Doc : KeyOf(a, d) = KeyOf(b, d)
<1>1. ASSUME NEW e \in ECU
      PROVE  Loading(a, e) = Loading(b, e) /\ LoadEcu(a, e) = LoadEcu(b, e)
  <2>1. \A i \in Item \cup {Meta} : <<e, i>> \in Doc
    BY SizeAssumption, NodeParts DEF Item, Meta
  <2>2. Loading(a, e) = Loading(b, e)
    <3>1. \A c : ModelOf(c) # NoModel => c.kind # "absent"
      BY DEF ModelOf, Usable
    <3>2. \A i \in Item : i \in Loading(a, e) <=> i \in Loading(b, e)
      BY <2>1, <3>1 DEF Loading, Present
    <3>3. Loading(a, e) \subseteq Item /\ Loading(b, e) \subseteq Item
      BY DEF Loading, Present
    <3>4. QED
      BY <3>2, <3>3
  <2>3. Raising(a, e) = {} /\ Raising(b, e) = {}
    BY <2>1 DEF Raising, Present
  <2>4. \A i \in Item : ItemValue(i, a[<<e, i>>]) = ItemValue(i, b[<<e, i>>])
    BY <2>1 DEF ItemValue
  <2>5. [i \in Item |-> ItemValue(i, a[<<e, i>>])]
          = [i \in Item |-> ItemValue(i, b[<<e, i>>])]
    BY <2>4
  <2>6. Switches(a, e) = Switches(b, e)
    BY <2>2, <2>3, <2>5 DEF Switches
  <2>7. QED
    BY <2>1, <2>2, <2>6 DEF LoadEcu
<1>2. LoadModel(a) = LoadModel(b)
  <2>1. LoadingEcus(a) = LoadingEcus(b)
    BY <1>1 DEF LoadingEcus
  <2>2. [e \in ECU |-> LoadEcu(a, e)] = [e \in ECU |-> LoadEcu(b, e)]
    BY <1>1
  <2>3. QED
    BY <2>1, <2>2 DEF LoadModel
<1>3. \A d \in Doc : KeyOf(a, d) = KeyOf(b, d)
  BY <1>1, NodeParts DEF KeyOf
<1>4. QED
  BY <1>1, <1>2, <1>3

-----------------------------------------------------------------------------
(* The partial reload agrees with the full one.                            *)

LEMMA AstAfterModel ==
  ASSUME NEW c \in Content, c.kind \in Loadable
  PROVE  /\ AstAfter(c).kind \in {"clean", "shallow", "pruned"}
         /\ ModelOf(AstAfter(c)) = ModelOf(c)
         /\ ModelOf(c) # NoModel
         /\ AstAfter(c) # Unopened
<1>1. c \in [kind : Usable, val : Vals]
  BY DEF Content, Loadable, Unusable
<1>2. ModelOf(c) = [val |-> c.val, whole |-> c.kind = "clean"]
      /\ ModelOf(c) \in ValueModel
  BY <1>1 DEF ModelOf, ValueModel
<1>3. ModelOf(c) # NoModel
  BY <1>2, NoneAssumption
<1>4. CASE c.kind = "nested"
  <2>1. AstAfter(c) = [kind |-> "pruned", val |-> c.val]
    BY <1>1, <1>4 DEF AstAfter
  <2>2. AstAfter(c).kind = "pruned" /\ AstAfter(c).val = c.val
    BY <2>1
  <2>3. ModelOf(AstAfter(c)) = [val |-> c.val, whole |-> "pruned" = "clean"]
    BY <2>2 DEF ModelOf, Usable
  <2>4. ("pruned" = "clean") = (c.kind = "clean")
    BY <1>4
  <2>5. ModelOf(AstAfter(c)) = ModelOf(c)
    BY <1>2, <2>3, <2>4
  <2>6. QED
    BY <1>3, <2>2, <2>5 DEF Unopened
<1>5. CASE c.kind # "nested"
  BY <1>3, <1>5 DEF AstAfter, Loadable, Unopened
<1>6. QED
  BY <1>4, <1>5

\* The state a load leaves is in step with the files.
InStep(ws) ==
  LET v == [d \in Doc |-> IF ws.ast[d] = Unopened THEN Absent ELSE ws.ast[d]] IN
  /\ \A d \in Doc : ws.ast[d].kind \in {"clean", "shallow", "pruned", "unopened"}
  /\ \A e \in ECU : ws.ast[<<e, Meta>>] # Unopened
  /\ \A d \in Doc : ws.key[d] = IF ws.ast[d] = Unopened THEN NoNode ELSE KeyOf(v, d)
  /\ \A e \in ECU : ws.key[<<e, Dir>>] = Rank(ECU, e)
  /\ \A e \in ECU : ws.ecuModel[e] = LoadEcu(v, e)
  /\ ws.model = LoadModel(v)
  /\ \A d \in Doc : ModelOf(v[d]) = ModelOf(disk[d]) /\ disk[d].kind # "garbled"

\* A full load leaves the workspace in step with the files.
LEMMA FullLoadLive ==
  ASSUME disk \in [Doc -> Text], LoadableFiles, NothingGarbled(disk)
  PROVE  InStep(FullLoad)
<1> DEFINE v == [d \in Doc |-> IF FullLoad.ast[d] = Unopened THEN Absent ELSE FullLoad.ast[d]]
<1>2. ASSUME NEW d \in Doc
      PROVE  /\ disk[d] = Absent <=> disk[d].kind = "absent"
             /\ disk[d] # Absent => disk[d].kind \in Loadable /\ disk[d] \in Content
  BY ContentType
  DEF LoadableFiles, NothingGarbled, Text, Content, Absent, Unusable, Usable
<1>3. \A d \in Doc : FullLoad.ast[d] = IF disk[d] = Absent THEN Unopened ELSE AstAfter(disk[d])
  BY DEF FullLoad
<1>4. ASSUME NEW d \in Doc
      PROVE  /\ FullLoad.ast[d].kind \in {"clean", "shallow", "pruned", "unopened"}
             /\ FullLoad.ast[d] = Unopened <=> disk[d] = Absent
             /\ ModelOf(v[d]) = ModelOf(disk[d])
             /\ v[d].kind # "garbled"
  <2>1. CASE disk[d] = Absent
    BY <1>3, <2>1 DEF Unopened, Absent
  <2>2. CASE disk[d] # Absent
    BY <1>2, <1>3, <2>2, AstAfterModel
  <2>3. QED
    BY <2>1, <2>2
<1> HIDE DEF v
<1>5. /\ \A e \in ECU : LoadEcu(v, e) = LoadEcu(disk, e) /\ Loading(v, e) = Loading(disk, e)
      /\ LoadModel(v) = LoadModel(disk)
      /\ \A d \in Doc : KeyOf(v, d) = KeyOf(disk, d)
  BY <1>4, SameModels DEF NothingGarbled
<1>6. \A e \in ECU : FullLoad.ast[<<e, Meta>>] # Unopened /\ LoadEcu(disk, e) # NoModel
  <2> TAKE e \in ECU
  <2>1. <<e, Meta>> \in Doc /\ disk[<<e, Meta>>] # Absent
    BY NodeParts, SizeAssumption DEF LoadableFiles, Meta, Absent
  <2>2. ModelOf(disk[<<e, Meta>>]) # NoModel
    BY <1>2, <2>1, AstAfterModel
  <2>3. disk \in [Doc -> Content]
    BY ContentType
  <2>4. LoadEcu(disk, e) \in EcuModel
    <3>1. ModelOf(disk[<<e, Meta>>]) \in ValueModel
      BY <2>1, <2>2, <2>3, ModelOfType
    <3>2. Switches(disk, e) \in Seq(ItemModel)
      BY <2>3, LoadEcuType
    <3>3. QED
      BY <2>2, <3>1, <3>2 DEF LoadEcu, EcuModel
  <2>5. QED
    BY <1>4, <2>1, <2>4, NoneAssumption
<1>7. LoadingEcus(disk) = ECU
  BY <1>6 DEF LoadingEcus
<1>8. \A d \in Doc : FullLoad.key[d] = IF FullLoad.ast[d] = Unopened THEN NoNode ELSE KeyOf(v, d)
  <2> TAKE d \in Doc
  <2>1. d \in FullNodes(disk) <=> d[2] = Meta \/ disk[d] # Absent
    <3>1. d[1] \in ECU /\ d[2] \in 0..NS /\ d = <<d[1], d[2]>>
      BY NodeParts
    <3>2. d \in FullNodes(disk) <=> d[2] \in Visited(disk, d[1]) \cup {Meta, Dir}
      BY <3>1 DEF FullNodes, NodesOf
    <3>3. d[2] # Dir
      BY <3>1, SizeAssumption DEF Dir
    <3>4. Raising(disk, d[1]) = {}
      <4>1. \A i \in Item : <<d[1], i>> \in Doc
        BY <3>1, NodeParts, SizeAssumption DEF Item
      <4>2. QED
        BY <4>1 DEF Raising, Present, NothingGarbled
    <3>5. d[2] \in Visited(disk, d[1]) <=> d[2] \in Item /\ disk[d] # Absent
      BY <1>2, <3>1, <3>4 DEF Visited, Present
    <3>6. d[2] \in Item <=> d[2] # Meta
      BY <3>1, SizeAssumption DEF Item, Meta
    <3>7. QED
      BY <3>2, <3>3, <3>5, <3>6
  <2>2. d[2] = Meta => disk[d] # Absent
    BY NodeParts DEF LoadableFiles, Absent
  <2>3. d \notin DirNode
    BY NodeParts, SizeAssumption DEF DirNode, Dir
  <2>4. FullLoad.key[d] = IF disk[d] # Absent THEN KeyOf(disk, d) ELSE NoNode
    BY <2>1, <2>2, <2>3, NodeParts DEF FullLoad, FullKey
  <2>5. QED
    BY <1>4, <1>5, <2>4
<1>9. \A e \in ECU : FullLoad.key[<<e, Dir>>] = Rank(ECU, e)
  <2> TAKE e \in ECU
  <2>1. <<e, Dir>> \in FullNodes(disk) /\ <<e, Dir>> \in DirNode /\ <<e, Dir>> \in Node
    BY NodeParts DEF FullNodes, NodesOf, DirNode
  <2>2. QED
    BY <1>7, <2>1 DEF FullLoad, FullKey
<1>10. (\A e \in ECU : FullLoad.ecuModel[e] = LoadEcu(v, e)) /\ FullLoad.model = LoadModel(v)
  BY <1>5 DEF FullLoad
<1>11. \A d \in Doc : ModelOf(v[d]) = ModelOf(disk[d]) /\ disk[d].kind # "garbled"
  BY <1>4 DEF NothingGarbled
<1>12. QED
  BY <1>4, <1>6, <1>8, <1>9, <1>10, <1>11 DEF InStep, v

\* When the documents of every ECU load, so does every ECU, and the root list
\* names each of them once.
LEMMA AllEcusLoad ==
  ASSUME NEW seen \in [Doc -> Content],
         \A e \in ECU : ModelOf(seen[<<e, Meta>>]) # NoModel
  PROVE  /\ \A e \in ECU : LoadEcu(seen, e) \in EcuModel /\ LoadEcu(seen, e) # NoModel
         /\ LoadingEcus(seen) = ECU
         /\ UniqueEcus(LoadModel(seen))
<1>1. ASSUME NEW e \in ECU
      PROVE  LoadEcu(seen, e) \in EcuModel /\ LoadEcu(seen, e) # NoModel
  <2>1. ModelOf(seen[<<e, Meta>>]) \in ValueModel
    BY NodeParts, SizeAssumption, ModelOfType DEF Meta
  <2>2. Switches(seen, e) \in Seq(ItemModel)
    BY LoadEcuType
  <2>3. LoadEcu(seen, e) \in EcuModel
    BY <2>1, <2>2 DEF LoadEcu, EcuModel
  <2>4. QED
    BY <2>3, NoneAssumption
<1>2. LoadingEcus(seen) = ECU
  BY <1>1 DEF LoadingEcus
<1>3. IsFiniteSet(ECU) /\ ECU \in SUBSET Int
  BY SizeAssumption, FS_Interval DEF ECU
<1>4. UniqueEcus(LoadModel(seen))
  <2> DEFINE f == [e \in ECU |-> LoadEcu(seen, e)]
  <2>1. LoadModel(seen) = ListOf(ECU, f)
    BY <1>2 DEF LoadModel
  <2>2. \A e \in ECU : f[e].ecu = e
    BY <1>1 DEF LoadEcu
  <2>8. \A e \in ECU : f[e] \in EcuModel
    BY <1>1
  <2> HIDE DEF f
  <2>3. /\ Len(ListOf(ECU, f)) = Cardinality(ECU)
        /\ \A k \in 1..Cardinality(ECU) : ListOf(ECU, f)[k] = f[At(ECU, k)]
    BY <1>3, <2>8, ListOfType
  <2>4. \A k \in 1..Cardinality(ECU) : At(ECU, k) \in ECU /\ Rank(ECU, At(ECU, k)) = k - 1
    BY <1>3, AtProperties
  <2>5. \A k \in 1..Cardinality(ECU) : ListOf(ECU, f)[k].ecu = At(ECU, k)
    BY <2>2, <2>3, <2>4
  <2>6. ASSUME NEW j \in 1..Cardinality(ECU), NEW k \in 1..Cardinality(ECU),
               At(ECU, j) = At(ECU, k)
        PROVE  j = k
    <3>1. j - 1 = k - 1
      BY <2>4, <2>6
    <3>2. j \in Int /\ k \in Int
      OBVIOUS
    <3>3. QED
      BY <3>1, <3>2
  <2>7. QED
    BY <2>1, <2>3, <2>5, <2>6 DEF UniqueEcus
<1>5. QED
  BY <1>1, <1>2, <1>4

\* w is v with a fresh, loadable content of d.
Refreshed(v, w, d) ==
  /\ ModelOf(v[d]) # NoModel /\ ModelOf(w[d]) # NoModel
  /\ ModelOf(v[<<d[1], Meta>>]) # NoModel
  /\ \A c \in Doc : c # d => w[c] = v[c]
  /\ \A c \in Doc : v[c].kind # "garbled" /\ w[c].kind # "garbled"

\* Splicing the fresh value in at the recorded position gives the ECU a full
\* load would give.
LEMMA RebuildIsLoad ==
  ASSUME NEW v, NEW w, NEW d \in Doc, Refreshed(v, w, d)
  PROVE  /\ Loading(w, d[1]) = Loading(v, d[1])
         /\ LoadEcu(w, d[1]) =
              IF d[2] = Meta
                THEN [LoadEcu(v, d[1]) EXCEPT !.meta = ModelOf(w[d])]
                ELSE [LoadEcu(v, d[1]) EXCEPT
                        !.switches = Splice(@, KeyOf(v, d), ItemValue(d[2], w[d]))]
<1> DEFINE e == d[1]
           S == Loading(v, e)
           f == [i \in Item |-> ItemValue(i, v[<<e, i>>])]
           g == [i \in Item |-> ItemValue(i, w[<<e, i>>])]
<1>0. /\ ModelOf(v[d]) # NoModel /\ ModelOf(w[d]) # NoModel
      /\ ModelOf(v[<<d[1], Meta>>]) # NoModel
      /\ \A c \in Doc : c # d => w[c] = v[c]
      /\ \A c \in Doc : v[c].kind # "garbled" /\ w[c].kind # "garbled"
  BY DEF Refreshed
<1>1. e \in ECU /\ d[2] \in 0..NS /\ d = <<e, d[2]>>
  BY NodeParts
<1>2. \A i \in Item \cup {Meta} : <<e, i>> \in Doc
  BY <1>1, NodeParts, SizeAssumption DEF Item, Meta
<1>3. \A i \in Item \cup {Meta} : i # d[2] => w[<<e, i>>] = v[<<e, i>>]
  BY <1>0, <1>1, <1>2
<1>4. Loading(w, e) = S
  <2>1. \A c : ModelOf(c) # NoModel => c.kind # "absent"
    BY DEF ModelOf, Usable
  <2>2. \A i \in Item : i \in Loading(w, e) <=> i \in S
    BY <1>0, <1>1, <1>3, <2>1 DEF Loading, Present
  <2>3. Loading(w, e) \subseteq Item /\ S \subseteq Item
    BY DEF Loading, Present
  <2>4. QED
    BY <2>2, <2>3
<1>5. Raising(v, e) = {} /\ Raising(w, e) = {}
  BY <1>0, <1>2 DEF Raising, Present
<1>6. Switches(v, e) = ListOf(S, f) /\ Switches(w, e) = ListOf(S, g)
  BY <1>4, <1>5 DEF Switches
<1>7. ModelOf(w[<<e, Meta>>]) # NoModel
  BY <1>0, <1>1, <1>2, <1>3
<1>8. /\ LoadEcu(v, e) = [ecu |-> e, meta |-> ModelOf(v[<<e, Meta>>]),
                          switches |-> ListOf(S, f)]
      /\ LoadEcu(w, e) = [ecu |-> e, meta |-> ModelOf(w[<<e, Meta>>]),
                          switches |-> ListOf(S, g)]
  BY <1>0, <1>6, <1>7 DEF LoadEcu
<1>9. CASE d[2] = Meta
  <2>1. \A i \in Item : i # d[2]
    BY <1>9 DEF Item, Meta
  <2>2. f = g
    BY <1>3, <2>1
  <2>3. ModelOf(w[<<e, Meta>>]) = ModelOf(w[d])
    BY <1>1, <1>9
  <2> HIDE DEF f, g, S, e
  <2>4. LoadEcu(w, e) = [LoadEcu(v, e) EXCEPT !.meta = ModelOf(w[d])]
    BY <1>8, <2>2, <2>3
  <2>5. QED
    BY <1>4, <1>9, <2>4 DEF e, S
<1>10. CASE d[2] # Meta
  <2>1. d[2] \in Item
    BY <1>1, <1>10, SizeAssumption DEF Item, Meta
  <2>2. d[2] \in S
    <3>1. \A c : ModelOf(c) # NoModel => c.kind # "absent"
      BY DEF ModelOf, Usable
    <3>2. QED
      BY <1>0, <1>1, <2>1, <3>1 DEF Loading, Present
  <2>3. w[<<e, Meta>>] = v[<<e, Meta>>]
    BY <1>3, <1>10
  <2>4. g[d[2]] = ItemValue(d[2], w[d]) /\ KeyOf(v, d) = Rank(S, d[2])
    BY <1>1, <2>1 DEF KeyOf
  <2>5. \A j \in S : j # d[2] => g[j] = f[j]
    <3>1. S \subseteq Item
      BY DEF Loading, Present
    <3>2. QED
      BY <1>3, <3>1
  <2>6. S \in SUBSET Int /\ IsFiniteSet(S)
    BY LoadingFinite
  <2> HIDE DEF f, g, S, e
  <2>7. Splice(ListOf(S, f), Rank(S, d[2]), g[d[2]]) = ListOf(S, g)
    BY <2>2, <2>5, <2>6, SpliceListOf, ZenonT(40)
  <2>8. LoadEcu(w, e) = [LoadEcu(v, e) EXCEPT
                           !.switches = Splice(@, KeyOf(v, d), ItemValue(d[2], w[d]))]
    BY <1>8, <2>3, <2>4, <2>7
  <2>9. QED
    BY <1>4, <1>10, <2>8 DEF e, S
<1>11. QED
  BY <1>9, <1>10

LEMMA PartialReloadLive ==
  ASSUME TypeInv, LoadableFiles, Live,
         NEW d \in Doc, key[d] # NoNode, disk[d].kind \in Loadable,
         PartialReload(d), disk' = disk, pending' = pending \ {d}
  PROVE  /\ Live' /\ View' = [View EXCEPT ![d] = AstAfter(disk[d])]
         /\ diags' = [diags EXCEPT ![d] = DiagOf(disk[d]), ![<<d[1], Dir>>] = "clean"]
         /\ returned' = {d, <<d[1], Dir>>}
<1> DEFINE e == d[1]
           v == View
           w == [View EXCEPT ![d] = AstAfter(disk[d])]
           ws == UpdateEcu(d)
           up == [ws EXCEPT !.model = RootList(ws, e)]
<1>1. /\ e \in ECU /\ d = <<e, d[2]>>
      /\ <<e, Meta>> \in Doc /\ <<e, Dir>> \in Node /\ <<e, Dir>> \notin Doc
  BY NodeParts, SizeAssumption DEF Meta, Dir, Doc
<1>2. v \in [Doc -> Content] /\ disk[d] \in Content
  BY ContentType DEF TypeInv, TypeOK, View
<1>3. /\ AstAfter(disk[d]).kind \in {"clean", "shallow", "pruned"}
      /\ ModelOf(AstAfter(disk[d])) = ModelOf(disk[d])
      /\ ModelOf(disk[d]) # NoModel /\ AstAfter(disk[d]) # Unopened
  BY <1>2, AstAfterModel
<1>4. /\ w \in [Doc -> Content] /\ w[d] = AstAfter(disk[d])
      /\ \A c \in Doc : c # d => w[c] = v[c]
  <2> HIDE DEF v
  <2>1. View = v
    BY DEF v
  <2>2. QED
    BY <1>2, <2>1, ContentType
<1>5. \A c \in Doc : ast[c] # Unopened => ModelOf(v[c]) # NoModel
  <2>1. ASSUME NEW c \in Content, c.kind \in {"clean", "shallow", "pruned"}
        PROVE  ModelOf(c) # NoModel
    <3>1. c \in [kind : Usable, val : Vals]
      BY <2>1 DEF Content, Unusable
    <3>2. ModelOf(c) \in ValueModel
      BY <3>1 DEF ModelOf, ValueModel
    <3>3. QED
      BY <3>2, NoneAssumption
  <2>2. ASSUME NEW c \in Doc, ast[c] # Unopened
        PROVE  v[c] = ast[c] /\ ast[c].kind \in {"clean", "shallow", "pruned"}
    <3>1. ast[c] \in Content /\ ast[c].kind \in {"clean", "shallow", "pruned", "unopened"}
      BY DEF TypeInv, TypeOK, Live
    <3>2. ast[c].kind # "unopened"
      BY <2>2, <3>1 DEF Content, Usable, Unopened
    <3>3. QED
      BY <2>2, <3>1, <3>2 DEF View
  <2>3. QED
    BY <1>2, <2>1, <2>2
<1>6. \A c \in Doc : v[c].kind # "garbled" /\ w[c].kind # "garbled"
  <2>1. \A c \in Doc : v[c].kind # "garbled"
    BY DEF Live, View, Absent
  <2> HIDE DEF v, w
  <2>2. QED
    BY <1>3, <1>4, <2>1
<1>7. ast[d] # Unopened
  BY DEF Live
<1>8. \A c \in ECU : ModelOf(v[<<c, Meta>>]) # NoModel
  <2>1. \A c \in ECU : <<c, Meta>> \in Doc
    BY NodeParts, SizeAssumption DEF Meta
  <2>2. \A c \in ECU : ast[<<c, Meta>>] # Unopened
    BY DEF Live
  <2>3. QED
    BY <1>5, <2>1, <2>2
<1>9. \A c \in ECU : ModelOf(w[<<c, Meta>>]) # NoModel
  <2>1. \A c \in ECU : <<c, Meta>> \in Doc
    BY NodeParts, SizeAssumption DEF Meta
  <2> HIDE DEF v, w
  <2>2. QED
    BY <1>3, <1>4, <1>8, <2>1
<1>10. ModelOf(v[d]) # NoModel /\ ModelOf(w[d]) = ModelOf(disk[d])
  BY <1>3, <1>4, <1>5, <1>7
<1> HIDE DEF v, w
<1>11. /\ Loading(w, e) = Loading(v, e)
       /\ LoadEcu(w, e) =
            IF d[2] = Meta
              THEN [LoadEcu(v, e) EXCEPT !.meta = ModelOf(w[d])]
              ELSE [LoadEcu(v, e) EXCEPT
                      !.switches = Splice(@, KeyOf(v, d), ItemValue(d[2], w[d]))]
  <2>1. ModelOf(v[d]) # NoModel /\ ModelOf(w[d]) # NoModel
    BY <1>3, <1>10
  <2>2. ModelOf(v[<<d[1], Meta>>]) # NoModel
    BY <1>1, <1>8
  <2>3. Refreshed(v, w, d)
    BY <1>4, <1>6, <2>1, <2>2 DEF Refreshed
  <2>4. QED
    BY <2>3, RebuildIsLoad
<1>12. ASSUME NEW c \in ECU, c # e
       PROVE  LoadEcu(w, c) = LoadEcu(v, c) /\ Loading(w, c) = Loading(v, c)
  <2>1. \A i \in Item \cup {Meta} : <<c, i>> \in Doc /\ <<c, i>> # d
    BY <1>1, <1>12, NodeParts, SizeAssumption DEF Item, Meta
  <2>2. \A i \in Item \cup {Meta} : w[<<c, i>>] = v[<<c, i>>]
    BY <1>4, <2>1
  <2>3. Loading(w, c) = Loading(v, c) /\ Raising(w, c) = Raising(v, c)
    BY <2>2 DEF Loading, Raising, Present
  <2>4. [i \in Item |-> ItemValue(i, w[<<c, i>>])] = [i \in Item |-> ItemValue(i, v[<<c, i>>])]
    BY <2>2
  <2>5. Switches(w, c) = Switches(v, c)
    BY <2>3, <2>4 DEF Switches
  <2>6. QED
    BY <2>2, <2>3, <2>5 DEF LoadEcu
<1>13. \A c \in ECU : LoadEcu(v, c) # NoModel /\ LoadEcu(w, c) # NoModel
  BY <1>2, <1>4, <1>8, <1>9, AllEcusLoad
<1>14. LoadingEcus(v) = ECU /\ LoadingEcus(w) = ECU /\ UniqueEcus(LoadModel(w))
  BY <1>2, <1>4, <1>8, <1>9, AllEcusLoad
<1>15. RebuildEcu(d) = LoadEcu(w, e) /\ RebuildEcu(d) # NoModel
  <2>1. ecuModel[d[1]] = LoadEcu(v, e) /\ key[d] = KeyOf(v, d)
    BY <1>1, <1>7 DEF Live, v
  <2>2. \A i \in Item : /\ ItemValue(i, w[d]) = ItemValue(i, disk[d])
                        /\ ItemValue(i, disk[d]) # NoModel
    <3> TAKE i \in Item
    <3>1. ItemValue(i, w[d]) = ItemValue(i, disk[d])
      BY <1>10 DEF ItemValue
    <3>2. ItemValue(i, disk[d]) \in ItemModel
      BY <1>2, <1>3, ModelOfType
    <3>3. QED
      BY <3>1, <3>2, NoneAssumption
  <2>3. d[2] # Meta => d[2] \in Item
    BY NodeParts, SizeAssumption DEF Item, Meta
  <2>4. RebuildEcu(d) = LoadEcu(w, e)
    BY <1>1, <1>3, <1>10, <1>11, <1>13, <2>1, <2>2, <2>3 DEF RebuildEcu
  <2>5. QED
    BY <1>1, <1>13, <2>4
<1>16. /\ ws.ast = [ast EXCEPT ![d] = AstAfter(disk[d])] /\ ws.key = key
       /\ ws.ecuModel = [ecuModel EXCEPT ![e] = LoadEcu(w, e)] /\ ws.model = model
  BY <1>15 DEF UpdateEcu, ReloadDocument
<1>17. RootList(ws, e) = LoadModel(w)
  <2> DEFINE f == [c \in ECU |-> LoadEcu(v, c)]
             g == [c \in ECU |-> LoadEcu(w, c)]
  <2>1. model = ListOf(ECU, f) /\ LoadModel(w) = ListOf(ECU, g)
    BY <1>14 DEF LoadModel, Live, v
  <2>2. /\ \A c \in ECU : c # e => g[c] = f[c]
        /\ g[e] = LoadEcu(w, e)
    BY <1>1, <1>12
  <2>3. ECU \in SUBSET Int /\ IsFiniteSet(ECU)
    BY SizeAssumption, FS_Interval DEF ECU
  <2> HIDE DEF f, g, e
  <2>4. Splice(ListOf(ECU, f), Rank(ECU, e), g[e]) = ListOf(ECU, g)
    BY <1>1, <2>2, <2>3, SpliceListOf
  <2>5. ws.ecuModel[e] = LoadEcu(w, e) /\ ws.key[<<e, Dir>>] = Rank(ECU, e)
    BY <1>1, <1>16 DEF Live, TypeInv, TypeOK
  <2>6. QED
    BY <1>1, <1>13, <1>16, <2>1, <2>2, <2>4, <2>5 DEF RootList
<1>18. Become(up)
  BY <1>14, <1>15, <1>17 DEF PartialReload, ReloadRaises
<1>19. /\ ast' = [ast EXCEPT ![d] = AstAfter(disk[d])] /\ key' = key
       /\ ecuModel' = [ecuModel EXCEPT ![e] = LoadEcu(w, e)]
       /\ model' = LoadModel(w)
  <2>1. ws = [ast |-> ws.ast, key |-> ws.key, diags |-> ws.diags,
              ecuModel |-> ws.ecuModel, model |-> ws.model, returned |-> ws.returned]
    BY DEF UpdateEcu, ReloadEcu, ReloadDocument
  <2> HIDE DEF ws
  <2>2. up.ast = ws.ast /\ up.key = ws.key /\ up.ecuModel = ws.ecuModel
        /\ up.model = RootList(ws, e)
    BY <2>1
  <2>3. QED
    BY <1>16, <1>17, <1>18, <2>2 DEF Become
<1>20. View' = w
  <2>1. \A c \in Doc : ast'[c] = IF c = d THEN AstAfter(disk[d]) ELSE ast[c]
    BY <1>19 DEF TypeInv, TypeOK
  <2>2. View' = [c \in Doc |-> IF ast'[c] = Unopened THEN Absent ELSE ast'[c]]
    BY DEF View
  <2>3. \A c \in Doc : (IF ast'[c] = Unopened THEN Absent ELSE ast'[c]) = w[c]
    BY <1>3, <1>4, <2>1 DEF v, View
  <2>4. w = [c \in Doc |-> w[c]]
    BY <1>4
  <2>5. QED
    BY <2>2, <2>3, <2>4
<1>21. \A c \in Doc : KeyOf(w, c) = KeyOf(v, c)
  BY <1>11, <1>12, NodeParts DEF KeyOf
<1>22. \A c \in Doc : /\ ast'[c].kind \in {"clean", "shallow", "pruned", "unopened"}
                      /\ ast'[c] = Unopened <=> ast[c] = Unopened
  <2>1. \A c \in Doc : ast'[c] = IF c = d THEN AstAfter(disk[d]) ELSE ast[c]
    BY <1>19 DEF TypeInv, TypeOK
  <2>2. \A c \in Doc : ast[c].kind \in {"clean", "shallow", "pruned", "unopened"}
    BY DEF Live
  <2>3. QED
    BY <1>3, <1>7, <2>1, <2>2
<1>23. \A c \in ECU : ast'[<<c, Meta>>] # Unopened
  <2>1. \A c \in ECU : <<c, Meta>> \in Doc
    BY NodeParts, SizeAssumption DEF Meta
  <2>2. \A c \in ECU : ast[<<c, Meta>>] # Unopened
    BY DEF Live
  <2>3. QED
    BY <1>22, <2>1, <2>2
<1>24. \A c \in Doc : key'[c] = IF ast'[c] = Unopened THEN NoNode ELSE KeyOf(w, c)
  BY <1>19, <1>21, <1>22 DEF Live, v
<1>25. \A c \in ECU : key'[<<c, Dir>>] = Rank(ECU, c)
  BY <1>19 DEF Live
<1>26. \A c \in ECU : ecuModel'[c] = LoadEcu(w, c)
  BY <1>12, <1>19 DEF Live, v, TypeInv, TypeOK
<1>27. \A c \in Doc \ pending' : /\ ModelOf(w[c]) = ModelOf(disk'[c])
                                 /\ disk'[c].kind # "garbled"
  <2> TAKE c \in Doc \ pending'
  <2>1. CASE c = d
    BY <1>10, <2>1 DEF Loadable
  <2>2. CASE c # d
    BY <1>4, <2>2 DEF Live, v
  <2>3. QED
    BY <2>1, <2>2
<1>28. Live'
  BY <1>19, <1>20, <1>22, <1>23, <1>24, <1>25, <1>26, <1>27 DEF Live
<1>29. ws.diags = [diags EXCEPT ![d] = DiagOf(disk[d]), ![<<e, Dir>>] = "clean"]
       /\ ws.returned = {d, <<e, Dir>>}
  BY <1>15 DEF UpdateEcu, ReloadDocument
<1>30. diags' = ws.diags /\ returned' = ws.returned
  <2>1. ws = [ast |-> ws.ast, key |-> ws.key, diags |-> ws.diags,
              ecuModel |-> ws.ecuModel, model |-> ws.model, returned |-> ws.returned]
    BY DEF UpdateEcu, ReloadEcu, ReloadDocument
  <2> HIDE DEF ws
  <2>2. up.diags = ws.diags /\ up.returned = ws.returned
    BY <2>1
  <2>3. QED
    BY <1>18, <2>2 DEF Become
<1>31. QED
  BY <1>20, <1>28, <1>29, <1>30 DEF w

-----------------------------------------------------------------------------
(* Partial reloads give what a full load gives.                            *)

LEMMA InStepInit == LoadableOnly /\ Init => PositionsInStep
<1> SUFFICES ASSUME Init PROVE PositionsInStep
  OBVIOUS
<1>1. disk \in [Doc -> Text] /\ LoadableFiles /\ NothingGarbled(disk)
  <2>1. \A d \in Doc : disk[d].kind \in {"clean", "absent"}
    BY DEF Init
  <2>2. \A e \in ECU : disk[<<e, Meta>>].kind = "clean"
    BY DEF Init
  <2>3. disk \in [Doc -> Text]
    BY DEF Init, Text
  <2>4. QED
    BY <2>1, <2>2, <2>3 DEF LoadableFiles, Loadable, NothingGarbled
<1>2. InStep(FullLoad)
  BY <1>1, FullLoadLive
<1>3. /\ ast = FullLoad.ast /\ key = FullLoad.key
      /\ ecuModel = FullLoad.ecuModel /\ model = FullLoad.model
  BY DEF Init
<1>4. Live
  BY <1>2, <1>3 DEF InStep, Live, View
<1>5. QED
  BY <1>1, <1>4 DEF PositionsInStep

LEMMA ResetKeepsStep ==
  ASSUME TypeInv, LoadableFiles, ResetAndReload, disk' = disk
  PROVE  PositionsInStep'
<1>1. LoadableFiles'
  BY DEF LoadableFiles
<1>2. CASE NothingGarbled(disk)
  <2>1. InStep(FullLoad)
    BY <1>2, FullLoadLive DEF TypeInv, TypeOK
  <2>2. /\ ast' = FullLoad.ast /\ key' = FullLoad.key
        /\ ecuModel' = FullLoad.ecuModel /\ model' = FullLoad.model
    BY <1>2 DEF ResetAndReload, Become
  <2>3. Live'
    BY <2>1, <2>2 DEF InStep, Live, View
  <2>4. QED
    BY <1>1, <2>3 DEF PositionsInStep
<1>3. CASE ~NothingGarbled(disk)
  <2>1. key' = FailedLoad.key
    BY <1>3 DEF ResetAndReload, Become
  <2>2. \A n \in Node : key'[n] = NoNode
    BY <2>1 DEF FailedLoad
  <2>3. ~NothingGarbled(disk')
    BY <1>3
  <2>4. Dead'
    BY <2>2, <2>3 DEF Dead
  <2>5. QED
    BY <1>1, <2>4 DEF PositionsInStep
<1>4. QED
  BY <1>2, <1>3

LEMMA InStepStep == LoadableOnly /\ TypeInv /\ PositionsInStep /\ [Next]_vars => PositionsInStep'
<1> SUFFICES ASSUME LoadableOnly, TypeInv, PositionsInStep, [Next]_vars
             PROVE  PositionsInStep'
  OBVIOUS
<1>1. ASSUME NEW d \in Doc, EditFile(d) PROVE PositionsInStep'
  <2>1. PICK c \in Writable(d) : disk' = [disk EXCEPT ![d] = c]
    BY <1>1 DEF EditFile
  <2>2. /\ \A b \in Doc : disk'[b] = IF b = d THEN c ELSE disk[b]
        /\ pending' = pending \cup {d}
        /\ UNCHANGED wsVars
    BY <1>1, <2>1 DEF EditFile, TypeInv, TypeOK
  <2>3. /\ c.kind \in Loadable \cup {"garbled", "absent"}
        /\ d[2] = Meta => c.kind # "absent"
    BY DEF Writable, LoadableOnly, Loadable
  <2>4. LoadableFiles'
    <3>1. \A e \in ECU : disk[<<e, Meta>>].kind # "absent" /\ <<e, Meta>>[2] = Meta
                         /\ <<e, Meta>> \in Doc
      <4>1. \A e \in ECU : <<e, Meta>> \in Doc
        BY NodeParts, SizeAssumption DEF Meta
      <4>2. \A e \in ECU : disk[<<e, Meta>>].kind # "absent"
        BY DEF PositionsInStep, LoadableFiles
      <4>3. QED
        BY <4>1, <4>2
    <3>2. \A e \in ECU : disk'[<<e, Meta>>].kind # "absent"
      BY <2>2, <2>3, <3>1
    <3>3. \A b \in Doc : disk'[b].kind \in Loadable \cup {"garbled", "absent"}
      BY <2>2, <2>3 DEF PositionsInStep, LoadableFiles
    <3>4. QED
      BY <3>2, <3>3 DEF LoadableFiles
  <2>5. Dead => Dead'
    BY <2>2 DEF Dead, wsVars
  <2>6. ASSUME Live PROVE Live'
    <3>1. /\ ast' = ast /\ key' = key /\ ecuModel' = ecuModel /\ model' = model
          /\ View' = View
      BY <2>2 DEF wsVars, View
    <3>2. \A b \in Doc \ pending' : b \in Doc \ pending /\ disk'[b] = disk[b]
      BY <2>2
    <3>3. QED
      BY <2>6, <3>1, <3>2 DEF Live
  <2>7. QED
    BY <2>4, <2>5, <2>6 DEF PositionsInStep
<1>2. ASSUME NEW d \in Doc, UpdateDocument(d) PROVE PositionsInStep'
  <2>1. LoadableFiles /\ disk' = disk /\ pending' = pending \ {d}
    BY <1>2 DEF UpdateDocument, PositionsInStep
  <2>2. CASE ResetAndReload
    BY <2>1, <2>2, ResetKeepsStep
  <2>3. CASE ~ResetAndReload
    <3>1. key[d] # NoNode /\ disk[d].kind \notin {"absent", "garbled"} /\ PartialReload(d)
      BY <1>2, <2>3 DEF UpdateDocument
    <3>2. Live
      BY <3>1, NodeParts DEF PositionsInStep, Dead
    <3>3. disk[d].kind \in Loadable
      BY <2>1, <3>1 DEF LoadableFiles
    <3>4. Live'
      BY <2>1, <3>1, <3>2, <3>3, PartialReloadLive
    <3>5. LoadableFiles'
      BY <2>1 DEF LoadableFiles
    <3>6. QED
      BY <3>4, <3>5 DEF PositionsInStep
  <2>4. QED
    BY <2>2, <2>3
<1>3. CASE UNCHANGED vars
  BY <1>3 DEF vars, PositionsInStep, Live, Dead, View, LoadableFiles
<1>4. QED
  BY <1>1, <1>2, <1>3 DEF Next

LEMMA InStepImpliesInSync == TypeInv /\ PositionsInStep => InSync
<1> SUFFICES ASSUME TypeInv, PositionsInStep, pending = {}, NothingGarbled(disk)
             PROVE  model = LoadModel(disk)
  BY DEF InSync
<1>1. Live
  BY DEF PositionsInStep, Dead
<1>2. \A d \in Doc : ModelOf(View[d]) = ModelOf(disk[d])
  BY <1>1 DEF Live
<1>3. \A d \in Doc : View[d].kind # "garbled"
  BY <1>1 DEF Live, View, Absent
<1>4. LoadModel(View) = LoadModel(disk)
  BY <1>2, <1>3, SameModels DEF NothingGarbled
<1>5. QED
  BY <1>1, <1>4 DEF Live

\* As long as editors leave loadable files or no YAML at all, every recorded
\* list position and every model a LoadNode holds is what a full load of the
\* opened documents would give.
THEOREM PositionsStayInStep == LoadableOnly => (Spec => []PositionsInStep)
<1> SUFFICES ASSUME LoadableOnly PROVE Spec => []PositionsInStep
  OBVIOUS
<1>1. Init => TypeInv /\ PositionsInStep
  BY TypeInit, InStepInit
<1>2. TypeInv /\ PositionsInStep /\ [Next]_vars => (TypeInv /\ PositionsInStep)'
  BY TypeStep, InStepStep
<1>3. QED
  BY <1>1, <1>2, PTL DEF Spec

\* The promise of update_document's docstring, under the same condition: once
\* every change was reported, the model is the one load_workspace would build.
THEOREM UpdatesStayInSync == LoadableOnly => (Spec => []InSync)
<1> SUFFICES ASSUME LoadableOnly PROVE Spec => []InSync
  OBVIOUS
<1>1. Init => TypeInv /\ PositionsInStep
  BY TypeInit, InStepInit
<1>2. TypeInv /\ PositionsInStep /\ [Next]_vars => (TypeInv /\ PositionsInStep)'
  BY TypeStep, InStepStep
<1>3. TypeInv /\ PositionsInStep => InSync
  BY InStepImpliesInSync
<1>4. QED
  BY <1>1, <1>2, <1>3, PTL DEF Spec

-----------------------------------------------------------------------------
(* The workspace implements what update_document promises.                 *)

\* A workspace that is in step is either alive, and then not lost, or lost.
LEMMA LiveIsNotLost == Live /\ ECU # {} => ~Lost
<1> SUFFICES ASSUME Live, ECU # {} PROVE ~Lost
  OBVIOUS
<1>1. PICK e \in ECU : TRUE
  OBVIOUS
<1>2. ECU \in SUBSET Int /\ IsFiniteSet(ECU)
  BY SizeAssumption, FS_Interval DEF ECU
<1>3. Rank(ECU, e) \in Nat
  BY <1>1, <1>2, RankType
<1>4. <<e, Dir>> \in Node /\ key[<<e, Dir>>] = Rank(ECU, e)
  BY <1>1 DEF Live, Node, DirNode
<1>5. QED
  BY <1>3, <1>4 DEF Lost, NoNode

\* The documents as a load of all of them reads them.
LEMMA FullLoadView ==
  ASSUME disk \in [Doc -> Text], LoadableFiles, NothingGarbled(disk)
  PROVE  /\ [d \in Doc |-> IF FullLoad.ast[d] = Unopened THEN Absent ELSE FullLoad.ast[d]]
              = [d \in Doc |-> AstAfter(disk[d])]
         /\ LoadModel(disk) = LoadModel([d \in Doc |-> AstAfter(disk[d])])
<1> DEFINE all == [d \in Doc |-> AstAfter(disk[d])]
<1>1. ASSUME NEW d \in Doc
      PROVE  /\ disk[d] \in Content /\ disk[d].kind \in Loadable \cup {"absent"}
             /\ disk[d].kind = "absent" => disk[d] = Absent
  <2>1. disk[d] \in Content
    BY DEF Text
  <2>2. disk[d].kind \in Loadable \cup {"absent"}
    BY DEF LoadableFiles, NothingGarbled
  <2>3. disk[d].kind = "absent" => disk[d] = Absent
    BY <2>1 DEF Content, Usable, Absent
  <2>4. QED
    BY <2>1, <2>2, <2>3
<1>2. AstAfter(Absent) = Absent /\ Absent # Unopened
  BY DEF AstAfter, Absent, Unopened
<1>3. ASSUME NEW d \in Doc
      PROVE  /\ (IF FullLoad.ast[d] = Unopened THEN Absent ELSE FullLoad.ast[d]) = AstAfter(disk[d])
             /\ ModelOf(disk[d]) = ModelOf(all[d])
             /\ disk[d].kind # "garbled" /\ all[d].kind # "garbled"
  <2>1. FullLoad.ast[d] = IF disk[d] = Absent THEN Unopened ELSE AstAfter(disk[d])
    BY DEF FullLoad
  <2>2. CASE disk[d] = Absent
    BY <1>2, <2>1, <2>2 DEF Absent
  <2>3. CASE disk[d] # Absent
    <3>1. disk[d].kind \in Loadable
      BY <1>1, <2>3
    <3>2. /\ AstAfter(disk[d]).kind \in {"clean", "shallow", "pruned"}
          /\ ModelOf(AstAfter(disk[d])) = ModelOf(disk[d]) /\ AstAfter(disk[d]) # Unopened
      BY <1>1, <3>1, AstAfterModel
    <3>3. QED
      BY <2>1, <2>3, <3>1, <3>2 DEF Loadable
  <2>4. QED
    BY <2>2, <2>3
<1>4. LoadModel(disk) = LoadModel(all)
  BY <1>3, SameModels
<1>5. QED
  BY <1>3, <1>4

LEMMA InitImplementsView == LoadableOnly /\ Init => Promise!Init
<1> SUFFICES ASSUME LoadableOnly, Init PROVE Promise!Init
  OBVIOUS
<1>1. /\ disk \in [Doc -> Text] /\ LoadableFiles /\ NothingGarbled(disk) /\ Live
      /\ ECU # {} => ~Lost
  <2>1. \A d \in Doc : disk[d].kind \in {"clean", "absent"}
    BY DEF Init
  <2>2. disk \in [Doc -> Text]
    BY DEF Init, Text
  <2>3. PositionsInStep /\ NothingGarbled(disk)
    BY <2>1, InStepInit DEF NothingGarbled
  <2>4. Live
    BY <2>3 DEF PositionsInStep, Dead, Init
  <2>5. QED
    BY <2>2, <2>3, <2>4, LiveIsNotLost DEF PositionsInStep
<1>2. View = [d \in Doc |-> AstAfter(disk[d])]
  BY <1>1, FullLoadView DEF Init, View
<1>3. Lost = FALSE
  BY <1>1 DEF Lost
<1>4. model = LoadModel(View)
  BY <1>1 DEF Live
<1>5. QED
  BY <1>1, <1>2, <1>3, <1>4 DEF Promise!Init, Promise!ReadAll, IsGarbled, NothingGarbled, Init

LEMMA EditImplementsView ==
  ASSUME TypeInv, NEW d \in Doc, EditFile(d)
  PROVE  Promise!Write(d)
<1>1. /\ \E c \in Text : disk' = [disk EXCEPT ![d] = c]
      /\ pending' = pending \cup {d}
      /\ ast' = ast /\ key' = key /\ model' = model
  BY DEF EditFile, Writable, wsVars
<1>2. View' = View /\ Lost' = Lost
  BY <1>1 DEF View, Lost
<1>3. QED
  BY <1>1, <1>2 DEF Promise!Write

LEMMA ResetImplementsView ==
  ASSUME TypeInv, LoadableFiles, ResetAndReload, disk' = disk, NEW d \in Doc
  PROVE  Promise!ReadAgain \/ Promise!Fail
<1>1. ECU # {}
  BY NodeParts
<1>2. CASE NothingGarbled(disk)
  <2>1. InStep(FullLoad)
    BY <1>2, FullLoadLive DEF TypeInv, TypeOK
  <2>2. /\ ast' = FullLoad.ast /\ key' = FullLoad.key
        /\ ecuModel' = FullLoad.ecuModel /\ model' = FullLoad.model
    BY <1>2 DEF ResetAndReload, Become
  <2>3. \A e \in ECU : key'[<<e, Dir>>] = Rank(ECU, e)
    BY <2>1, <2>2 DEF InStep
  <2>4. Lost' = FALSE
    <3>1. PICK e \in ECU : TRUE
      BY <1>1
    <3>2. ECU \in SUBSET Int /\ IsFiniteSet(ECU)
      BY SizeAssumption, FS_Interval DEF ECU
    <3>3. Rank(ECU, e) \in Nat /\ <<e, Dir>> \in Node
      BY <3>1, <3>2, RankType DEF Node, DirNode
    <3>4. QED
      BY <2>3, <3>1, <3>3 DEF Lost, NoNode
  <2>5. View' = [c \in Doc |-> AstAfter(disk[c])]
    BY <1>2, <2>2, FullLoadView DEF View, TypeInv, TypeOK
  <2>6. model' = LoadModel(View')
    BY <1>2, <2>2, <2>5, FullLoadView DEF FullLoad, TypeInv, TypeOK
  <2>7. QED
    BY <1>2, <2>4, <2>5, <2>6 DEF Promise!ReadAgain, Promise!ReadAll, IsGarbled, NothingGarbled
<1>3. CASE ~NothingGarbled(disk)
  <2>1. ast' = FailedLoad.ast /\ key' = FailedLoad.key /\ model' = FailedLoad.model
    BY <1>3 DEF ResetAndReload, Become
  <2>2. View' = [c \in Doc |-> Absent]
    BY <2>1 DEF View, FailedLoad
  <2>3. Lost' = TRUE
    BY <1>1, <2>1 DEF Lost, FailedLoad
  <2>4. model' = model
    BY <2>1 DEF FailedLoad
  <2>5. QED
    BY <1>3, <2>2, <2>3, <2>4 DEF Promise!Fail, IsGarbled, NothingGarbled
<1>4. QED
  BY <1>2, <1>3

\* An update that does not start over is a partial reload of a live workspace.
LEMMA PartialUpdate ==
  ASSUME TypeInv, PositionsInStep, NEW d \in Doc, UpdateDocument(d), ~ResetAndReload
  PROVE  /\ Live /\ ECU # {} /\ disk[d].kind \in Loadable
         /\ Live' /\ View' = [View EXCEPT ![d] = AstAfter(disk[d])]
         /\ diags' = [diags EXCEPT ![d] = DiagOf(disk[d]), ![<<d[1], Dir>>] = "clean"]
         /\ returned' = {d, <<d[1], Dir>>}
<1>1. /\ pending' = pending \ {d} /\ disk' = disk /\ LoadableFiles
      /\ key[d] # NoNode /\ disk[d].kind \notin {"absent", "garbled"} /\ PartialReload(d)
  BY DEF UpdateDocument, PositionsInStep
<1>2. Live /\ ECU # {}
  BY <1>1, NodeParts DEF PositionsInStep, Dead
<1>3. disk[d].kind \in Loadable
  BY <1>1 DEF LoadableFiles
<1>4. QED
  BY <1>1, <1>2, <1>3, PartialReloadLive

LEMMA UpdateImplementsView ==
  ASSUME TypeInv, PositionsInStep, NEW d \in Doc, UpdateDocument(d)
  PROVE  Promise!Update(d)
<1>1. /\ d \in pending /\ pending' = pending \ {d} /\ disk' = disk /\ LoadableFiles
  BY DEF UpdateDocument, PositionsInStep
<1>2. CASE ResetAndReload
  BY <1>1, <1>2, ResetImplementsView DEF Promise!Update
<1>3. CASE ~ResetAndReload
  <2>1. Live /\ ECU # {} /\ disk[d].kind \in Loadable
    BY <1>3, PartialUpdate
  <2>4. Live' /\ View' = [View EXCEPT ![d] = AstAfter(disk[d])]
    BY <1>3, PartialUpdate
  <2>5. ~Lost
    BY <2>1, LiveIsNotLost
  <2>6. Lost' = FALSE
    <3>1. PICK e \in ECU : TRUE
      BY <2>1
    <3>2. ECU \in SUBSET Int /\ IsFiniteSet(ECU)
      BY SizeAssumption, FS_Interval DEF ECU
    <3>3. Rank(ECU, e) \in Nat /\ <<e, Dir>> \in Node
      BY <3>1, <3>2, RankType DEF Node, DirNode
    <3>4. key'[<<e, Dir>>] = Rank(ECU, e)
      BY <2>4, <3>1 DEF Live
    <3>5. QED
      BY <3>3, <3>4 DEF Lost, NoNode
  <2>7. model' = LoadModel(View')
    BY <2>4 DEF Live
  <2>8. Promise!ReadOne(d)
    BY <2>1, <2>4, <2>5, <2>6, <2>7 DEF Promise!ReadOne, IsGarbled, Loadable
  <2>9. QED
    BY <1>1, <2>8 DEF Promise!Update
<1>4. QED
  BY <1>2, <1>3

\* The promise of update_document at every moment: as long as editors leave
\* loadable files or no YAML at all, the model is that of the documents as last
\* read, and every update reads one document, all of them, or fails on a file
\* that is no YAML and leaves the model alone.
THEOREM UpdatesImplementView == LoadableOnly => (Spec => ImplementsView)
<1> SUFFICES ASSUME LoadableOnly PROVE Spec => ImplementsView
  OBVIOUS
<1>1. Init => TypeInv /\ PositionsInStep /\ Promise!Init
  BY TypeInit, InStepInit, InitImplementsView
<1>2. TypeInv /\ PositionsInStep /\ [Next]_vars => (TypeInv /\ PositionsInStep)'
  BY TypeStep, InStepStep
<1>3. TypeInv /\ PositionsInStep /\ [Next]_vars => [Promise!Next]_(Promise!view)
  <2> SUFFICES ASSUME TypeInv, PositionsInStep, [Next]_vars
               PROVE  Promise!Next \/ UNCHANGED Promise!view
    BY DEF Promise!view
  <2>1. ASSUME NEW d \in Doc, EditFile(d) PROVE Promise!Next
    BY <2>1, EditImplementsView DEF Promise!Next
  <2>2. ASSUME NEW d \in Doc, UpdateDocument(d) PROVE Promise!Next
    BY <2>2, UpdateImplementsView DEF Promise!Next
  <2>3. CASE UNCHANGED vars
    BY <2>3 DEF vars, Promise!view, View, Lost
  <2>4. QED
    BY <2>1, <2>2, <2>3 DEF Next
<1>4. QED
  BY <1>1, <1>2, <1>3, PTL DEF Spec, ImplementsView, Promise!Spec

-----------------------------------------------------------------------------
(* Diagnostics and what an update shows and returns.                       *)

\* A full load lists an error for every file that has one.
LEMMA FullLoadDiags ==
  ASSUME NothingGarbled(disk), NEW d \in Doc, DiagOf(disk[d]) = "error"
  PROVE  FullLoad.diags[d] = "error"
<1>1. d[1] \in ECU /\ d[2] \in 0..NS /\ d = <<d[1], d[2]>> /\ d \in Node /\ d[2] # Dir
  BY NodeParts, SizeAssumption DEF Dir
<1>2. disk[d].kind \notin {"absent", "garbled"}
  BY DEF DiagOf
<1>3. d[2] \in Visited(disk, d[1]) \cup {Meta, Dir}
  <2>1. Raising(disk, d[1]) = {}
    <3>1. \A i \in Item : <<d[1], i>> \in Doc
      BY <1>1, NodeParts, SizeAssumption DEF Item
    <3>2. QED
      BY <3>1 DEF Raising, Present, NothingGarbled
  <2>2. d[2] \in Item \/ d[2] = Meta
    BY <1>1, SizeAssumption DEF Item, Meta
  <2>3. QED
    BY <1>1, <1>2, <2>1, <2>2 DEF Visited, Present
<1>4. d \in FullNodes(disk)
  BY <1>1, <1>3 DEF FullNodes, NodesOf
<1>5. NodeDiag(disk, d) = DiagOf(disk[d])
  BY <1>1, <1>2 DEF NodeDiag
<1>6. QED
  BY <1>1, <1>4, <1>5 DEF FullLoad

\* Unless nothing is loaded, a file with an invalid value whose change was
\* reported has an error listed.
ErrorsListed == Dead \/ \A d \in Doc \ pending : DiagOf(disk[d]) = "error" => diags[d] = "error"

LEMMA ErrorsInit == Init => ErrorsListed
<1>1. Init => \A d \in Doc : disk[d].kind \in {"clean", "absent"}
  BY DEF Init
<1>2. QED
  BY <1>1 DEF ErrorsListed, DiagOf

LEMMA ErrorsStep ==
  ASSUME TypeInv, PositionsInStep, ErrorsListed, [Next]_vars
  PROVE  ErrorsListed'
<1>1. ASSUME NEW d \in Doc, EditFile(d) PROVE ErrorsListed'
  <2>1. PICK c \in Writable(d) : disk' = [disk EXCEPT ![d] = c]
    BY <1>1 DEF EditFile
  <2>2. /\ \A b \in Doc \ pending' : b \in Doc \ pending /\ disk'[b] = disk[b]
        /\ pending' = pending \cup {d} /\ diags' = diags /\ key' = key
    BY <1>1, <2>1 DEF EditFile, wsVars, TypeInv, TypeOK
  <2>3. QED
    BY <2>2 DEF ErrorsListed, Dead
<1>2. ASSUME NEW d \in Doc, UpdateDocument(d) PROVE ErrorsListed'
  <2>1. disk' = disk /\ pending' = pending \ {d}
    BY <1>2 DEF UpdateDocument
  <2>2. CASE ResetAndReload /\ NothingGarbled(disk)
    <3>1. diags' = FullLoad.diags
      BY <2>2 DEF ResetAndReload, Become
    <3>2. \A b \in Doc : DiagOf(disk[b]) = "error" => diags'[b] = "error"
      BY <2>2, <3>1, FullLoadDiags
    <3>3. QED
      BY <2>1, <3>2 DEF ErrorsListed
  <2>3. CASE ResetAndReload /\ ~NothingGarbled(disk)
    <3>1. \A n \in Node : key'[n] = NoNode
      BY <2>3 DEF ResetAndReload, Become, FailedLoad
    <3>2. ~NothingGarbled(disk')
      BY <2>1, <2>3
    <3>3. QED
      BY <3>1, <3>2 DEF ErrorsListed, Dead
  <2>4. CASE ~ResetAndReload
    <3>1. Live /\ ECU # {}
      BY <1>2, <2>4, PartialUpdate
    <3>2. diags' = [diags EXCEPT ![d] = DiagOf(disk[d]), ![<<d[1], Dir>>] = "clean"]
      BY <1>2, <2>4, PartialUpdate
    <3>3. <<d[1], Dir>> \notin Doc /\ d \in Node /\ Doc \subseteq Node
      BY NodeParts, SizeAssumption DEF Dir, Doc, Node
    <3>4. \A b \in Doc : diags'[b] = IF b = d THEN DiagOf(disk[d]) ELSE diags[b]
      BY <3>2, <3>3 DEF TypeInv, TypeOK
    <3>5. ~Dead
      <4>1. key[d] # NoNode
        BY <1>2, <2>4 DEF UpdateDocument
      <4>2. QED
        BY <3>3, <4>1 DEF Dead
    <3>6. QED
      BY <2>1, <3>4, <3>5 DEF ErrorsListed
  <2>5. QED
    BY <2>2, <2>3, <2>4
<1>3. CASE UNCHANGED vars
  BY <1>3 DEF vars, ErrorsListed, Dead
<1>4. QED
  BY <1>1, <1>2, <1>3 DEF Next

\* As long as editors leave loadable files or no YAML at all, a file with an
\* invalid value has an error listed once its change was reported, whichever
\* way the updates went (documents_diags).
THEOREM ErrorsStayReported == LoadableOnly => (Spec => []ErrorsReported)
<1> SUFFICES ASSUME LoadableOnly PROVE Spec => []ErrorsReported
  OBVIOUS
<1>1. Init => TypeInv /\ PositionsInStep /\ ErrorsListed
  BY TypeInit, InStepInit, ErrorsInit
<1>2. TypeInv /\ PositionsInStep /\ ErrorsListed /\ [Next]_vars
        => (TypeInv /\ PositionsInStep /\ ErrorsListed)'
  BY TypeStep, InStepStep, ErrorsStep
<1>3. ErrorsListed => ErrorsReported
  BY DEF ErrorsListed, ErrorsReported, Dead
<1>4. QED
  BY <1>1, <1>2, <1>3, PTL DEF Spec

-----------------------------------------------------------------------------
(* What an update shows and returns, whatever the files are.               *)

\* The model of an ECU has what file d says.
EcuHas(v, d, files) ==
  /\ v.ecu = d[1]
  /\ IF d[2] = Meta
       THEN v.meta = ModelOf(files[d])
       ELSE \E j \in 1..Len(v.switches) : v.switches[j] = ItemValue(d[2], files[d])

\* The model of a loaded ECU has each document that loads.
LEMMA LoadHas ==
  ASSUME NEW v \in [Doc -> Content], NEW files, NEW d \in Doc,
         \A c \in Doc : v[c].kind # "garbled",
         ModelOf(v[d]) # NoModel, ModelOf(files[d]) = ModelOf(v[d]),
         LoadEcu(v, d[1]) # NoModel
  PROVE  EcuHas(LoadEcu(v, d[1]), d, files)
<1> DEFINE e == d[1]
<1>1. e \in ECU /\ d[2] \in 0..NS /\ d = <<e, d[2]>>
  BY NodeParts
<1>2. LoadEcu(v, e) = [ecu |-> e, meta |-> ModelOf(v[<<e, Meta>>]), switches |-> Switches(v, e)]
  BY DEF LoadEcu
<1>3. CASE d[2] = Meta
  BY <1>1, <1>2, <1>3 DEF EcuHas
<1>4. CASE d[2] # Meta
  <2> DEFINE i == d[2]
             S == Loading(v, e)
             g == [x \in Item |-> ItemValue(x, v[<<e, x>>])]
             j == Rank(S, i) + 1
  <2>1. i \in Item
    BY <1>1, <1>4, SizeAssumption DEF Item, Meta
  <2>2. S \in SUBSET Int /\ IsFiniteSet(S) /\ S \subseteq Item
    BY LoadingFinite
  <2>3. i \in S
    <3>1. \A c : ModelOf(c) # NoModel => c.kind # "absent"
      BY DEF ModelOf, Usable
    <3>2. QED
      BY <1>1, <2>1, <3>1 DEF Loading, Present
  <2>4. Raising(v, e) = {}
    <3>1. \A x \in Item : <<e, x>> \in Doc
      BY <1>1, NodeParts, SizeAssumption DEF Item
    <3>2. QED
      BY <3>1 DEF Raising, Present
  <2>5. Switches(v, e) = ListOf(S, g)
    BY <2>4 DEF Switches
  <2> DEFINE T == {g[y] : y \in S}
  <2>6. \A x \in S : g[x] \in T
    OBVIOUS
  <2>7. j \in 1..Len(Switches(v, e)) /\ Switches(v, e)[j] = g[i]
    <3> HIDE DEF S, g, i, e, T
    <3>1. j \in 1..Cardinality(S) /\ At(S, j) = i
      BY <2>2, <2>3, AtProperties
    <3>2. Len(ListOf(S, g)) = Cardinality(S) /\ ListOf(S, g)[j] = g[At(S, j)]
      BY <2>2, <2>6, <3>1, ListOfType, ZenonT(40)
    <3>3. QED
      BY <2>5, <3>1, <3>2
  <2>8. g[i] = ItemValue(d[2], files[d])
    BY <1>1, <2>1 DEF ItemValue
  <2> HIDE DEF j, g, S, i, e
  <2>9. LoadEcu(v, e).ecu = d[1] /\ LoadEcu(v, e).switches = Switches(v, e)
    BY <1>2 DEF e
  <2>10. QED
    BY <1>4, <2>7, <2>8, <2>9 DEF EcuHas, e
<1>5. QED
  BY <1>3, <1>4

\* So the model of a load shows each document that loads in an ECU that loads.
LEMMA LoadShows ==
  ASSUME NEW v \in [Doc -> Content], NEW files, NEW d \in Doc,
         \A c \in Doc : v[c].kind # "garbled",
         ModelOf(v[d]) # NoModel, ModelOf(files[d]) = ModelOf(v[d]),
         LoadEcu(v, d[1]) # NoModel
  PROVE  Shows(LoadModel(v), d, files)
<1> DEFINE e == d[1]
           E == LoadingEcus(v)
           f == [x \in ECU |-> LoadEcu(v, x)]
           k == Rank(E, e) + 1
<1>1. e \in ECU
  BY NodeParts
<1>2. E \in SUBSET Int /\ IsFiniteSet(E) /\ e \in E /\ LoadModel(v) = ListOf(E, f)
  BY <1>1, LoadModelType DEF LoadModel, LoadingEcus
<1>3. \A x \in E : f[x] \in EcuModel
  BY LoadEcuType DEF LoadingEcus, EcuValue
<1>4. f[e] = LoadEcu(v, e)
  BY <1>1
<1>5. /\ k \in 1..Len(LoadModel(v)) /\ LoadModel(v)[k] = LoadEcu(v, e)
  <2> HIDE DEF E, f, e
  <2>1. k \in 1..Cardinality(E) /\ At(E, k) = e
    BY <1>2, AtProperties
  <2>2. Len(ListOf(E, f)) = Cardinality(E) /\ ListOf(E, f)[k] = f[At(E, k)]
    BY <1>2, <1>3, <2>1, ListOfType, ZenonT(40)
  <2>3. QED
    BY <1>2, <1>4, <2>1, <2>2
<1>6. EcuHas(LoadEcu(v, d[1]), d, files)
  BY LoadHas
<1> HIDE DEF k, E, f
<1>7. QED
  BY <1>5, <1>6 DEF EcuHas, Shows

\* The list of the root with the fresh model of an ECU in it.
LEMMA SpliceHolds ==
  ASSUME NEW T, NEW list \in Seq(T), NEW pos \in Nat, NEW x
  PROVE  \E k \in 1..Len(Splice(list, pos, x)) : Splice(list, pos, x)[k] = x
<1>1. CASE pos < Len(list)
  <2>1. Splice(list, pos, x) = [list EXCEPT ![pos + 1] = x]
    BY <1>1 DEF Splice
  <2>2. pos + 1 \in 1..Len(list)
    BY <1>1
  <2>3. QED
    BY <2>1, <2>2
<1>2. CASE ~(pos < Len(list))
  <2>1. Splice(list, pos, x) = Append(list, x)
    BY <1>2 DEF Splice
  <2>2. Len(list) \in Nat
    OBVIOUS
  <2>3. Append(list, x)[Len(list) + 1] = x /\ Len(Append(list, x)) = Len(list) + 1
    BY <2>2
  <2>4. QED
    BY <2>1, <2>2, <2>3
<1>3. QED
  BY <1>1, <1>2

\* No cached document is one that cannot be parsed, and the model a LoadNode of
\* an ECU holds is one of that ECU.
OwnIn(ws) ==
  /\ \A d \in Doc : ws.ast[d].kind # "garbled"
  /\ \A e \in ECU : ws.ecuModel[e] # NoModel => ws.ecuModel[e].ecu = e

OwnModels ==
  /\ \A d \in Doc : ast[d].kind # "garbled"
  /\ \A e \in ECU : ecuModel[e] # NoModel => ecuModel[e].ecu = e

\* The document an update reads has the model its file has, pruned or not.
LEMMA ReadModel ==
  ASSUME NEW c \in Content
  PROVE  /\ ModelOf(AstAfter(c)) = ModelOf(c)
         /\ c.kind # "garbled" => AstAfter(c).kind # "garbled"
<1>1. CASE c.kind = "nested"
  <2>1. c.kind \in Loadable
    BY <1>1 DEF Loadable
  <2>2. QED
    BY <2>1, AstAfterModel
<1>2. CASE c.kind # "nested"
  BY <1>2 DEF AstAfter
<1>3. QED
  BY <1>1, <1>2

LEMMA LoadOwn ==
  ASSUME NEW v, NEW e, LoadEcu(v, e) # NoModel
  PROVE  LoadEcu(v, e).ecu = e
BY DEF LoadEcu

LEMMA ResetOwn ==
  ASSUME TypeInv, ResetAndReload
  PROVE  OwnModels'
<1>1. CASE NothingGarbled(disk)
  <2>1. /\ ast' = [d \in Doc |-> IF disk[d] = Absent THEN Unopened ELSE AstAfter(disk[d])]
        /\ ecuModel' = [e \in ECU |-> LoadEcu(disk, e)]
    BY <1>1 DEF ResetAndReload, Become, FullLoad
  <2>2. \A d \in Doc : disk[d] \in Content /\ disk[d].kind # "garbled"
    BY <1>1, ContentType DEF TypeInv, TypeOK, NothingGarbled
  <2>3. \A d \in Doc : ast'[d].kind # "garbled"
    BY <2>1, <2>2, ReadModel DEF Unopened
  <2>4. QED
    BY <2>1, <2>3, LoadOwn DEF OwnModels
<1>2. CASE ~NothingGarbled(disk)
  BY <1>2 DEF ResetAndReload, Become, FailedLoad, Unopened, OwnModels
<1>3. QED
  BY <1>1, <1>2

\* An ECU after an update of d: models of its own, and the one of the ECU has
\* what the file says.
LEMMA UpdateOwn ==
  ASSUME TypeInv, OwnModels, NEW d \in Doc, key[d] # NoNode, disk[d].kind # "garbled"
  PROVE  /\ OwnIn(UpdateEcu(d)) /\ UpdateEcu(d).model = model
         /\ NothingGarbled(disk) /\ ModelOf(disk[d]) # NoModel
              /\ UpdateEcu(d).ecuModel[d[1]] # NoModel
              => EcuHas(UpdateEcu(d).ecuModel[d[1]], d, disk)
<1> DEFINE e == d[1]
           ws == ReloadDocument(d)
           seen == Seen(ws.ast)
<1>1. e \in ECU /\ d[2] \in 0..NS /\ d = <<e, d[2]>> /\ key[d] \in Nat
  BY NodeParts DEF TypeInv, TypeOK
<1>2. disk \in [Doc -> Content] /\ ast \in [Doc -> Content] /\ ecuModel \in [ECU -> EcuValue]
  BY ContentType DEF TypeInv, TypeOK
<1>3. /\ ws.ast = [ast EXCEPT ![d] = AstAfter(disk[d])] /\ ws.ecuModel = ecuModel
      /\ ws.model = model /\ ws.ast \in [Doc -> Content]
  BY <1>2, ContentType DEF ReloadDocument
<1>4. \A c \in Doc : ws.ast[c].kind # "garbled"
  BY <1>2, <1>3, ReadModel DEF OwnModels
<1>5. CASE RebuildEcu(d) = NoModel
  <2>1. UpdateEcu(d) = ReloadEcu(ws, e)
    BY <1>5 DEF UpdateEcu
  <2>2. seen \in [Doc -> Content] /\ \A c \in Doc : seen[c] =
          IF disk[c] = Absent THEN Absent ELSE IF ws.ast[c] = Unopened THEN disk[c] ELSE ws.ast[c]
    BY <1>3, SeenType DEF Seen
  <2> HIDE DEF ws, seen
  <2>3. /\ \A c \in Doc : ReloadEcu(ws, e).ast[c] = ws.ast[c]
                          \/ (ReloadEcu(ws, e).ast[c] = AstAfter(seen[c]) /\ seen[c].kind # "garbled")
        /\ ReloadEcu(ws, e).ecuModel = [ws.ecuModel EXCEPT ![e] = LoadEcu(seen, e)]
        /\ ReloadEcu(ws, e).model = ws.model
    BY DEF ReloadEcu, seen
  <2>4. OwnIn(ReloadEcu(ws, e))
    <3>1. \A c \in Doc : ReloadEcu(ws, e).ast[c].kind # "garbled"
      BY <1>4, <2>2, <2>3, ReadModel
    <3>2. \A x \in ECU : ReloadEcu(ws, e).ecuModel[x] # NoModel => ReloadEcu(ws, e).ecuModel[x].ecu = x
      BY <1>1, <1>2, <1>3, <2>3, LoadOwn DEF OwnModels
    <3>3. QED
      BY <3>1, <3>2 DEF OwnIn
  <2>5. ASSUME NothingGarbled(disk), ModelOf(disk[d]) # NoModel, LoadEcu(seen, e) # NoModel
        PROVE  EcuHas(LoadEcu(seen, e), d, disk)
    <3>1. \A c \in Doc : seen[c].kind # "garbled"
      BY <1>4, <2>2, <2>5 DEF NothingGarbled, Absent
    <3>2. ModelOf(seen[d]) = ModelOf(disk[d])
      <4>1. ws.ast[d] = AstAfter(disk[d]) /\ disk[d] \in Content
        BY <1>2, <1>3
      <4>2. disk[d] # Absent
        BY <2>5 DEF Absent, ModelOf, Usable
      <4>3. QED
        BY <2>2, <4>1, <4>2, ReadModel
    <3>3. QED
      BY <2>2, <2>5, <3>1, <3>2, LoadHas DEF e
  <2>6. ReloadEcu(ws, e).ecuModel[e] = LoadEcu(seen, e)
    BY <1>1, <1>2, <1>3, <2>3
  <2>7. QED
    BY <1>3, <2>1, <2>3, <2>4, <2>5, <2>6 DEF e
<1>6. CASE RebuildEcu(d) # NoModel
  <2> DEFINE rebuilt == RebuildEcu(d)
             old == ecuModel[e]
             child == IF d[2] = Meta THEN ModelOf(disk[d]) ELSE ItemValue(d[2], disk[d])
  <2>1. /\ UpdateEcu(d).ast = ws.ast /\ UpdateEcu(d).model = ws.model
        /\ UpdateEcu(d).ecuModel = [ws.ecuModel EXCEPT ![e] = rebuilt]
    BY <1>6 DEF UpdateEcu, ReloadDocument
  <2>2. old # NoModel /\ child # NoModel
        /\ rebuilt = IF d[2] = Meta THEN [old EXCEPT !.meta = child]
                     ELSE [old EXCEPT !.switches = Splice(@, key[d], child)]
    BY <1>6 DEF RebuildEcu
  <2>3. old \in EcuModel /\ old.ecu = e
    BY <1>1, <1>2, <2>2 DEF EcuValue, OwnModels
  <2>4. EcuHas(rebuilt, d, disk) /\ rebuilt.ecu = e
    <3>1. CASE d[2] = Meta
      BY <2>2, <2>3, <3>1 DEF EcuHas, EcuModel
    <3>2. CASE d[2] # Meta
      <4> DEFINE new == Splice(old.switches, key[d], child)
      <4>1. old.switches \in Seq(ItemModel)
        BY <2>3 DEF EcuModel
      <4>2. \E k \in 1..Len(new) : new[k] = child
        BY <1>1, <4>1, SpliceHolds
      <4> HIDE DEF new
      <4>3. rebuilt.switches = new /\ rebuilt.ecu = e
        BY <2>2, <2>3, <3>2 DEF new, EcuModel
      <4>4. QED
        BY <3>2, <4>2, <4>3 DEF EcuHas
    <3>3. QED
      BY <3>1, <3>2
  <2> HIDE DEF rebuilt, ws
  <2>5. UpdateEcu(d).ecuModel[e] = rebuilt
    BY <1>1, <1>2, <1>3, <2>1
  <2>6. OwnIn(UpdateEcu(d))
    BY <1>2, <1>3, <1>4, <2>1, <2>4 DEF OwnIn, OwnModels
  <2>7. QED
    BY <1>3, <2>1, <2>4, <2>5, <2>6 DEF e
<1>7. QED
  BY <1>5, <1>6

\* The partial reload in terms of the parts above.
LEMMA PartialIs ==
  ASSUME TypeInv, NEW d \in Doc, UpdateDocument(d), ~ResetAndReload
  PROVE  /\ key[d] # NoNode /\ disk[d].kind # "garbled"
         /\ ast' = UpdateEcu(d).ast /\ ecuModel' = UpdateEcu(d).ecuModel
         /\ diags' = UpdateEcu(d).diags /\ returned' = UpdateEcu(d).returned
         /\ model' = RootList(UpdateEcu(d), d[1])
<1>1. ~(key[d] = NoNode \/ disk[d].kind \in {"absent", "garbled"}) /\ PartialReload(d)
  BY DEF UpdateDocument
<1>2. Become([UpdateEcu(d) EXCEPT !.model = RootList(UpdateEcu(d), d[1])])
  BY <1>1 DEF PartialReload
<1>3. LET ws == UpdateEcu(d)
      IN ws = [ast |-> ws.ast, key |-> ws.key, diags |-> ws.diags,
               ecuModel |-> ws.ecuModel, model |-> ws.model, returned |-> ws.returned]
  BY DEF UpdateEcu, ReloadEcu, ReloadDocument
<1> DEFINE ws == UpdateEcu(d)
           list == RootList(UpdateEcu(d), d[1])
<1>4. Become([ws EXCEPT !.model = list])
  BY <1>2
<1>5. ws = [ast |-> ws.ast, key |-> ws.key, diags |-> ws.diags,
            ecuModel |-> ws.ecuModel, model |-> ws.model, returned |-> ws.returned]
  BY <1>3
<1> HIDE DEF ws, list
<1>6. /\ ast' = ws.ast /\ ecuModel' = ws.ecuModel /\ diags' = ws.diags
      /\ returned' = ws.returned /\ model' = list
  BY <1>4, <1>5 DEF Become
<1>7. QED
  BY <1>1, <1>6 DEF ws, list

LEMMA OwnInit == Init => OwnModels
<1> SUFFICES ASSUME Init PROVE OwnModels
  OBVIOUS
<1>1. /\ ast = [d \in Doc |-> IF disk[d] = Absent THEN Unopened ELSE AstAfter(disk[d])]
      /\ ecuModel = [e \in ECU |-> LoadEcu(disk, e)]
  BY DEF Init, FullLoad
<1>2. \A d \in Doc : disk[d] \in Content /\ disk[d].kind # "garbled"
  BY DEF Init
<1>3. \A d \in Doc : ast[d].kind # "garbled"
  BY <1>1, <1>2, ReadModel DEF Unopened
<1>4. QED
  BY <1>1, <1>3, LoadOwn DEF OwnModels

LEMMA OwnStep == TypeInv /\ OwnModels /\ [Next]_vars => OwnModels'
<1> SUFFICES ASSUME TypeInv, OwnModels, [Next]_vars PROVE OwnModels'
  OBVIOUS
<1>1. ASSUME NEW d \in Doc, EditFile(d) PROVE OwnModels'
  BY <1>1 DEF EditFile, wsVars, OwnModels
<1>2. ASSUME NEW d \in Doc, UpdateDocument(d) PROVE OwnModels'
  <2>1. CASE ResetAndReload
    BY <2>1, ResetOwn
  <2>2. CASE ~ResetAndReload
    <3>1. /\ key[d] # NoNode /\ disk[d].kind # "garbled"
          /\ ast' = UpdateEcu(d).ast /\ ecuModel' = UpdateEcu(d).ecuModel
      BY <1>2, <2>2, PartialIs
    <3>2. OwnIn(UpdateEcu(d))
      BY <3>1, UpdateOwn
    <3>3. QED
      BY <3>1, <3>2 DEF OwnIn, OwnModels
  <2>3. QED
    BY <2>1, <2>2
<1>3. CASE UNCHANGED vars
  BY <1>3 DEF vars, OwnModels
<1>4. QED
  BY <1>1, <1>2, <1>3 DEF Next

\* After an update its document is in the model with what its file says, when
\* it and its ECU can be loaded: the part that clients of update_document see.
\* For files of every kind, and for ECUs that were rebuilt around their old
\* parts as for those whose directory was reloaded.
THEOREM UpdatesAreVisible == Spec => UpdateIsVisible
<1> DEFINE Visible == \A d \in pending \ pending' :
             NothingGarbled(disk) /\ ModelOf(disk[d]) # NoModel /\ ecuModel'[d[1]] # NoModel
             => Shows(model', d, disk')
<1>1. Init => TypeInv /\ OwnModels
  BY TypeInit, OwnInit
<1>2. TypeInv /\ OwnModels /\ [Next]_vars => (TypeInv /\ OwnModels)'
  BY TypeStep, OwnStep
<1>3. TypeInv /\ OwnModels /\ [Next]_vars => [Visible]_vars
  <2> SUFFICES ASSUME TypeInv, OwnModels, Next PROVE Visible
    OBVIOUS
  <2>1. ASSUME NEW d \in Doc, EditFile(d) PROVE Visible
    BY <2>1 DEF EditFile
  <2>2. ASSUME NEW d \in Doc, UpdateDocument(d) PROVE Visible
    <3>1. disk' = disk /\ pending' = pending \ {d} /\ d[1] \in ECU
      BY <2>2, NodeParts DEF UpdateDocument
    <3>2. SUFFICES ASSUME NothingGarbled(disk), ModelOf(disk[d]) # NoModel, ecuModel'[d[1]] # NoModel
                   PROVE  Shows(model', d, disk)
      BY <3>1
    <3>3. CASE ResetAndReload
      <4>1. model' = LoadModel(disk) /\ ecuModel' = [e \in ECU |-> LoadEcu(disk, e)]
        BY <3>2, <3>3 DEF ResetAndReload, Become, FullLoad
      <4>2. LoadEcu(disk, d[1]) # NoModel
        BY <3>1, <3>2, <4>1
      <4>3. disk \in [Doc -> Content]
        BY ContentType DEF TypeInv, TypeOK
      <4>4. QED
        BY <3>2, <4>1, <4>2, <4>3, LoadShows DEF NothingGarbled
    <3>4. CASE ~ResetAndReload
      <4> DEFINE ws == UpdateEcu(d)
                 pos == ws.key[<<d[1], Dir>>]
      <4>1. /\ key[d] # NoNode /\ disk[d].kind # "garbled"
            /\ ecuModel' = ws.ecuModel /\ model' = RootList(ws, d[1])
        BY <2>2, <3>4, PartialIs
      <4>2. ws.model = model /\ EcuHas(ws.ecuModel[d[1]], d, disk)
        BY <3>2, <4>1, UpdateOwn
      <4>3. pos \in Nat /\ model \in Seq(EcuModel)
        BY <4>1, UpdateEcuOK DEF TypeInv, TypeOK
      <4> HIDE DEF ws
      <4>4. model' = Splice(model, pos, ws.ecuModel[d[1]])
        BY <3>2, <4>1, <4>2 DEF RootList
      <4>5. \E k \in 1..Len(model') : model'[k] = ws.ecuModel[d[1]]
        BY <4>3, <4>4, SpliceHolds
      <4>6. QED
        BY <4>2, <4>5 DEF EcuHas, Shows
    <3>5. QED
      BY <3>3, <3>4
  <2>3. QED
    BY <2>1, <2>2 DEF Next
<1>4. QED
  BY <1>1, <1>2, <1>3, PTL DEF Spec, UpdateIsVisible

\* A LoadNode that is not of the ECU of d keeps its diagnosis in an update of
\* d; those of the ECU that had a LoadNode are returned when its directory is
\* reloaded.
LEMMA UpdateDiags ==
  ASSUME TypeInv, NEW d \in Doc, NEW n \in Node,
         UpdateEcu(d).diags[n] \notin {"absent", diags[n]}
  PROVE  \/ n \in UpdateEcu(d).returned
         \/ n[1] = d[1] /\ key[n] = NoNode /\ RebuildEcu(d) = NoModel
<1> DEFINE e == d[1]
           ws == ReloadDocument(d)
           seen == Seen(ws.ast)
<1>1. e \in ECU /\ d \in Node /\ <<e, Dir>> \in Node
  BY NodeParts
<1>2. /\ ws.diags = [diags EXCEPT ![d] = DiagOf(disk[d])] /\ ws.key = key /\ ws.returned = {d}
  BY DEF ReloadDocument
<1>3. ws.diags[n] # diags[n] => n = d
  BY <1>1, <1>2 DEF TypeInv, TypeOK
<1>4. CASE RebuildEcu(d) = NoModel
  <2>1. UpdateEcu(d) = ReloadEcu(ws, e)
    BY <1>4 DEF UpdateEcu
  <2> HIDE DEF ws
  <2>2. ReloadEcu(ws, e).returned = ws.returned \cup {x \in EcuNodes(e) : ws.key[x] # NoNode}
    BY DEF ReloadEcu
  <2>3. CASE n \in NodesOf(seen, e)
    <3>1. n[1] = e /\ n \in EcuNodes(e)
      <4>1. \A i \in Visited(seen, e) \cup {Meta, Dir} : i \in 0..Dir
        BY SizeAssumption DEF Visited, Present, Item, Meta, Dir
      <4>2. QED
        BY <2>3, <4>1 DEF NodesOf, EcuNodes
    <3>2. QED
      BY <1>2, <1>4, <2>1, <2>2, <3>1 DEF e
  <2>4. CASE n \notin NodesOf(seen, e)
    <3>1. ReloadEcu(ws, e).diags[n] = IF n \in EcuNodes(e) /\ ws.key[n] # NoNode
                                        THEN "absent" ELSE ws.diags[n]
      BY <2>4 DEF ReloadEcu, seen
    <3>2. ws.diags[n] # diags[n]
      BY <2>1, <3>1
    <3>3. QED
      BY <1>2, <1>3, <2>1, <2>2, <3>2
  <2>5. QED
    BY <2>3, <2>4
<1>5. CASE RebuildEcu(d) # NoModel
  <2>1. /\ UpdateEcu(d).diags = [ws.diags EXCEPT ![<<e, Dir>>] = "clean"]
        /\ UpdateEcu(d).returned = ws.returned \cup {<<e, Dir>>}
    BY <1>5 DEF UpdateEcu, ReloadDocument
  <2>2. n = <<e, Dir>> \/ UpdateEcu(d).diags[n] = ws.diags[n]
    BY <1>2, <2>1 DEF TypeInv, TypeOK
  <2> HIDE DEF ws
  <2>3. QED
    BY <1>2, <1>3, <2>1, <2>2
<1>6. QED
  BY <1>4, <1>5

\* Every document or directory that gets a diagnosis, or a different one, is
\* among the ids update_document returns, for files of every kind, but for
\* those a directory reload meets for the first time.
THEOREM ReturnsCoverKnown == Spec => ReturnCoversKnown
<1> DEFINE Covered == \A d \in pending \ pending', n \in Node :
             diags'[n] \notin {"absent", diags[n]} =>
               \/ n \in returned'
               \/ n[1] = d[1] /\ key[n] = NoNode /\ RebuildEcu(d) = NoModel
<1>1. TypeInv /\ [Next]_vars => [Covered]_vars
  <2> SUFFICES ASSUME TypeInv, Next PROVE Covered
    OBVIOUS
  <2>1. ASSUME NEW d \in Doc, EditFile(d) PROVE Covered
    BY <2>1 DEF EditFile
  <2>2. ASSUME NEW d \in Doc, UpdateDocument(d) PROVE Covered
    <3> SUFFICES ASSUME NEW n \in Node, diags'[n] \notin {"absent", diags[n]}
                 PROVE  \/ n \in returned'
                        \/ n[1] = d[1] /\ key[n] = NoNode /\ RebuildEcu(d) = NoModel
      <4>1. pending \ pending' \subseteq {d}
        BY <2>2 DEF UpdateDocument
      <4>2. QED
        BY <4>1
    <3>1. CASE ResetAndReload /\ NothingGarbled(disk)
      BY <3>1 DEF ResetAndReload, Become, FullLoad
    <3>2. CASE ResetAndReload /\ ~NothingGarbled(disk)
      BY <3>2 DEF ResetAndReload, Become, FailedLoad
    <3>3. CASE ~ResetAndReload
      <4>1. diags' = UpdateEcu(d).diags /\ returned' = UpdateEcu(d).returned
        BY <2>2, <3>3, PartialIs
      <4>2. QED
        BY <4>1, UpdateDiags
    <3>4. QED
      BY <3>1, <3>2, <3>3
  <2>3. QED
    BY <2>1, <2>2 DEF Next
<1>2. QED
  BY <1>1, TypeInit, TypeStep, PTL DEF Spec, ReturnCoversKnown

-----------------------------------------------------------------------------
(* Broken files: ModelSound and ErrorsReported.                            *)
(*                                                                         *)
(* Positions recorded before a file broke or was mended may be wrong then, *)
(* so that an update puts a value in the place of another one.  What is    *)
(* left of the recorded positions is enough: an item that is in the list   *)
(* is where its own LoadNode says, so no file is shown twice.              *)

\* Editors may break switch files in every way but one, and the metadata of an
\* ECU always loads or is no YAML at all.
BrokenSwitches ==
  /\ "garbled" \notin EditKinds
  /\ MetaKinds \subseteq Loadable \cup {"garbled"}

\* No value is invalid below the top level of its document.
NoneNested == "nested" \notin EditKinds \cup MetaKinds

FilesAllowed ==
  /\ \A d \in Doc : /\ disk[d].kind = "garbled" => d[2] = Meta
                    /\ NoneNested => disk[d].kind # "nested"
  /\ \A e \in ECU : disk[<<e, Meta>>].kind \in Loadable \cup {"garbled"}

\* v is a model of ECU e made from the documents `asts', and each of its items
\* is where its LoadNode says.
Placed(asts, keys, v, e) ==
  /\ v \in EcuModel
  /\ v.ecu = e
  /\ v.meta = ModelOf(asts[<<e, Meta>>])
  /\ \A i \in Item : keys[<<e, i>>] <= Len(v.switches)
  /\ \A j \in 1..Len(v.switches) :
       LET item == v.switches[j]
       IN /\ keys[<<e, item.file>>] = j - 1
          /\ item = ItemValue(item.file, asts[<<e, item.file>>])

\* A document whose change was reported says what its file says.
Settled(d) ==
  /\ ModelOf(View[d]) = ModelOf(disk[d])
  /\ disk[d].kind # "garbled"
  /\ NoneNested => View[d] = disk[d]

Sound ==
  /\ \A d \in Doc : ast[d].kind # "garbled"
  /\ \A e \in ECU : key[<<e, Dir>>] = Rank(ECU, e) /\ Placed(ast, key, ecuModel[e], e)
  /\ model = ListOf(ECU, ecuModel)
  /\ \A d \in Doc \ pending : Settled(d)

SoundInv == FilesAllowed /\ (Dead \/ Sound)

-----------------------------------------------------------------------------
(* Documents.                                                              *)

LEMMA Kinds ==
  ASSUME NEW c \in Content
  PROVE  /\ c.kind = "unopened" <=> c = Unopened
         /\ c.kind = "absent" <=> c = Absent
         /\ c.kind \in Loadable => ModelOf(c) # NoModel
         /\ ModelOf(c) # NoModel => ModelOf(c) \in ValueModel /\ c.kind \in Usable
<1>1. c \in [kind : Usable, val : Vals] \/ c \in [kind : Unusable, val : {NoVal}]
  BY DEF Content
<1>2. CASE c \in [kind : Usable, val : Vals]
  <2>1. ModelOf(c) \in ValueModel
    BY <1>2 DEF ModelOf, ValueModel
  <2>2. c.kind \notin {"unopened", "absent"}
    BY <1>2 DEF Usable
  <2>3. QED
    BY <1>2, <2>1, <2>2, NoneAssumption DEF Unopened, Absent
<1>3. CASE c \in [kind : Unusable, val : {NoVal}]
  <2>1. c = [kind |-> c.kind, val |-> NoVal]
    BY <1>3
  <2>2. c.kind \notin Loadable /\ ModelOf(c) = NoModel
    BY <1>3 DEF Unusable, Loadable, ModelOf, Usable
  <2>3. QED
    BY <2>1, <2>2 DEF Unopened, Absent
<1>4. QED
  BY <1>1, <1>2, <1>3

LEMMA AfterSame ==
  ASSUME NEW c \in Content
  PROVE  /\ AstAfter(c) \in Content
         /\ ModelOf(AstAfter(c)) = ModelOf(c)
         /\ AstAfter(c).kind = IF c.kind = "nested" THEN "pruned" ELSE c.kind
         /\ c.kind # "nested" => AstAfter(c) = c
<1>1. CASE c.kind = "nested"
  <2>1. c.kind \in Loadable
    BY <1>1 DEF Loadable
  <2>2. ModelOf(AstAfter(c)) = ModelOf(c)
    BY <2>1, AstAfterModel
  <2>3. c \in [kind : Usable, val : Vals]
    BY <1>1 DEF Content, Unusable
  <2>4. AstAfter(c) = [c EXCEPT !.kind = "pruned"]
    BY <1>1 DEF AstAfter
  <2>5. AstAfter(c).kind = "pruned"
    BY <2>3, <2>4
  <2>6. QED
    BY <1>1, <2>2, <2>5, ContentType
<1>2. CASE c.kind # "nested"
  BY <1>2 DEF AstAfter
<1>3. QED
  BY <1>1, <1>2

LEMMA ItemOf ==
  ASSUME NEW c, NEW i \in Item, ModelOf(c) \in ValueModel
  PROVE  /\ ItemValue(i, c) = [file |-> i, model |-> ModelOf(c)]
         /\ ItemValue(i, c) \in ItemModel
BY NoneAssumption DEF ItemValue, ItemModel

-----------------------------------------------------------------------------
(* A loaded ECU is in place.                                               *)

LEMMA LoadedIsPlaced ==
  ASSUME NEW seen \in [Doc -> Content], NEW e \in ECU, NEW asts, NEW keys,
         Raising(seen, e) = {},
         ModelOf(seen[<<e, Meta>>]) # NoModel,
         \A i \in Loading(seen, e) \cup {Meta} : ModelOf(asts[<<e, i>>]) = ModelOf(seen[<<e, i>>]),
         \A i \in Item : keys[<<e, i>>] = IF i \in Present(seen, e)
                                            THEN Rank(Loading(seen, e), i) ELSE NoNode
  PROVE  Placed(asts, keys, LoadEcu(seen, e), e)
<1> DEFINE S == Loading(seen, e)
           f == [i \in Item |-> ItemValue(i, seen[<<e, i>>])]
           v == LoadEcu(seen, e)
<1>1. S \in SUBSET Int /\ IsFiniteSet(S) /\ S \subseteq Item /\ S \subseteq Present(seen, e)
  BY LoadingFinite DEF Loading
<1>2. v = [ecu |-> e, meta |-> ModelOf(seen[<<e, Meta>>]), switches |-> ListOf(S, f)]
  BY DEF LoadEcu, Switches
<1>3. \A i \in S : f[i] = [file |-> i, model |-> ModelOf(seen[<<e, i>>])] /\ f[i] \in ItemModel
  <2> TAKE i \in S
  <2>1. i \in Item /\ seen[<<e, i>>] \in Content /\ ModelOf(seen[<<e, i>>]) # NoModel
    BY <1>1, NodeParts, SizeAssumption DEF Loading, Item
  <2>2. ModelOf(seen[<<e, i>>]) \in ValueModel
    BY <2>1, Kinds
  <2>3. QED
    BY <2>1, <2>2, ItemOf
<1> HIDE DEF S, f
<1>4. /\ ListOf(S, f) \in Seq(ItemModel)
      /\ Len(ListOf(S, f)) = Cardinality(S)
      /\ \A k \in 1..Cardinality(S) : ListOf(S, f)[k] = f[At(S, k)]
  <2>1. \A i \in S : f[i] \in ItemModel
    BY <1>3
  <2>2. QED
    BY <1>1, <2>1, ListOfType
<1>5. \A k \in 1..Cardinality(S) : At(S, k) \in S /\ Rank(S, At(S, k)) = k - 1
  BY <1>1, AtProperties
<1>6. v \in EcuModel /\ v.ecu = e /\ v.meta = ModelOf(asts[<<e, Meta>>])
      /\ v.switches = ListOf(S, f)
  <2>1. ModelOf(seen[<<e, Meta>>]) \in ValueModel
    BY NodeParts, SizeAssumption, Kinds DEF Meta
  <2>2. QED
    BY <1>2, <1>4, <2>1 DEF EcuModel
<1> HIDE DEF v
<1>7. \A i \in Item : keys[<<e, i>>] <= Len(v.switches)
  <2> TAKE i \in Item
  <2>1. Cardinality(S) \in Nat /\ Rank(S, i) <= Cardinality(S)
    BY <1>1, RankType, FS_CardinalityType DEF Item
  <2>2. keys[<<e, i>>] = Rank(S, i) \/ keys[<<e, i>>] = NoNode
    BY DEF S
  <2>3. QED
    BY <1>4, <1>6, <2>1, <2>2 DEF NoNode
<1>8. ASSUME NEW j \in 1..Len(v.switches)
      PROVE  /\ keys[<<e, v.switches[j].file>>] = j - 1
             /\ v.switches[j] = ItemValue(v.switches[j].file, asts[<<e, v.switches[j].file>>])
  <2> DEFINE i == At(S, j)
  <2>1. i \in S /\ Rank(S, i) = j - 1 /\ v.switches[j] = f[i]
    BY <1>4, <1>5, <1>6
  <2> HIDE DEF i
  <2>2. i \in Item /\ i \in Present(seen, e) /\ v.switches[j].file = i
    <3>1. f[i] = [file |-> i, model |-> ModelOf(seen[<<e, i>>])]
      BY <1>3, <2>1
    <3>2. f[i].file = i
      BY <3>1
    <3>3. QED
      BY <1>1, <2>1, <3>2
  <2>3. f[i] = ItemValue(i, seen[<<e, i>>]) /\ ModelOf(asts[<<e, i>>]) = ModelOf(seen[<<e, i>>])
    BY <2>1, <2>2 DEF f, S
  <2>4. ItemValue(i, seen[<<e, i>>]) = ItemValue(i, asts[<<e, i>>])
    BY <2>3 DEF ItemValue
  <2>5. QED
    BY <2>1, <2>2, <2>3, <2>4 DEF S
<1>9. QED
  BY <1>6, <1>7, <1>8 DEF Placed, v

\* So is an ECU into which the value of an item is spliced at its position:
\* whatever was there before is not in the list any more.
LEMMA SplicedIsPlaced ==
  ASSUME NEW asts \in [Doc -> Content], NEW keys \in [Node -> Nat \cup {NoNode}],
         NEW old, NEW e \in ECU, NEW i \in Item,
         Placed(asts, keys, old, e), keys[<<e, i>>] \in Nat,
         NEW c, ModelOf(c) \in ValueModel
  PROVE  Placed([asts EXCEPT ![<<e, i>>] = c], keys,
                [old EXCEPT !.switches = Splice(@, keys[<<e, i>>], ItemValue(i, c))], e)
<1> DEFINE d == <<e, i>>
           k == keys[d]
           item == ItemValue(i, c)
           list == old.switches
           new == Splice(list, k, item)
           v == [old EXCEPT !.switches = new]
           after == [asts EXCEPT ![d] = c]
<1>1. /\ old \in EcuModel /\ old.ecu = e /\ old.meta = ModelOf(asts[<<e, Meta>>])
      /\ list \in Seq(ItemModel) /\ k \in Nat /\ k <= Len(list)
      /\ \A j \in 1..Len(list) :
           /\ keys[<<e, list[j].file>>] = j - 1
           /\ list[j] = ItemValue(list[j].file, asts[<<e, list[j].file>>])
      /\ \A x \in Item : keys[<<e, x>>] <= Len(list)
  BY DEF Placed, EcuModel
<1>2. item = [file |-> i, model |-> ModelOf(c)] /\ item \in ItemModel
  BY ItemOf
<1>3. /\ \A x \in Item \cup {Meta} : <<e, x>> \in Doc /\ (x # i => after[<<e, x>>] = asts[<<e, x>>])
      /\ after[d] = c /\ i # Meta
  <2>1. \A x \in Item \cup {Meta} : <<e, x>> \in Doc
    BY NodeParts, SizeAssumption DEF Item, Meta
  <2>2. QED
    BY <2>1 DEF Item, Meta
<1>4. new \in Seq(ItemModel)
  BY <1>1, <1>2, SpliceType
<1>5. /\ Len(new) >= Len(list) /\ Len(new) \in Nat /\ Len(list) \in Nat
      /\ k + 1 \in 1..Len(new) /\ new[k + 1] = item
      /\ \A j \in 1..Len(new) : j # k + 1 => j \in 1..Len(list) /\ new[j] = list[j]
  <2> HIDE DEF item, list, k
  <2>1. CASE k < Len(list)
    <3>1. new = [list EXCEPT ![k + 1] = item]
      BY <2>1 DEF Splice
    <3>2. QED
      BY <1>1, <2>1, <3>1
  <2>2. CASE ~(k < Len(list))
    <3>1. new = Append(list, item) /\ k = Len(list)
      BY <1>1, <2>2 DEF Splice
    <3>2. QED
      BY <1>1, <3>1
  <2>3. QED
    BY <2>1, <2>2
<1>6. v \in EcuModel /\ v.ecu = e /\ v.meta = old.meta /\ v.switches = new
  <2> HIDE DEF new
  <2>1. QED
    BY <1>1, <1>4 DEF EcuModel
<1> HIDE DEF new, item, k, after, v
<1>7. v.meta = ModelOf(after[<<e, Meta>>])
  BY <1>1, <1>3, <1>6
<1>8. \A x \in Item : keys[<<e, x>>] <= Len(v.switches)
  <2> TAKE x \in Item
  <2>1. keys[<<e, x>>] <= Len(list)
    BY <1>1
  <2>2. keys[<<e, x>>] \in Int
    <3>1. <<e, x>> \in Node
      BY NodeParts, SizeAssumption DEF Item
    <3>2. QED
      BY <3>1 DEF NoNode
  <2>3. QED
    BY <1>5, <1>6, <2>1, <2>2
<1>9. ASSUME NEW j \in 1..Len(new)
      PROVE  /\ keys[<<e, new[j].file>>] = j - 1
             /\ new[j] = ItemValue(new[j].file, after[<<e, new[j].file>>])
  <2>1. CASE j = k + 1
    <3>1. new[j] = item /\ new[j].file = i
      BY <1>2, <1>5, <2>1
    <3>2. keys[<<e, i>>] = j - 1
      BY <1>1, <2>1 DEF k
    <3>3. QED
      BY <1>3, <3>1, <3>2 DEF item
  <2>2. CASE j # k + 1
    <3>1. j \in 1..Len(list) /\ new[j] = list[j]
      BY <1>5, <2>2
    <3>2. keys[<<e, list[j].file>>] = j - 1 /\ list[j].file \in Item
      <4>1. list[j] \in ItemModel
        BY <1>1, <3>1, ElementOfSeq
      <4>2. QED
        BY <1>1, <3>1, <4>1 DEF ItemModel
    <3>3. list[j].file # i
      <4>1. SUFFICES ASSUME list[j].file = i PROVE FALSE
        OBVIOUS
      <4>2. k = j - 1
        BY <3>2, <4>1 DEF k
      <4>3. j \in Int
        BY <1>5
      <4>4. QED
        BY <2>2, <4>2, <4>3
    <3>4. QED
      BY <1>1, <1>3, <3>1, <3>2, <3>3
  <2>3. QED
    BY <2>1, <2>2
<1>10. QED
  BY <1>6, <1>7, <1>8, <1>9 DEF Placed, v, new, after, k, item

\* And one with fresh metadata.
LEMMA MetaIsPlaced ==
  ASSUME NEW asts \in [Doc -> Content], NEW keys, NEW old, NEW e \in ECU,
         Placed(asts, keys, old, e), NEW c, ModelOf(c) \in ValueModel
  PROVE  Placed([asts EXCEPT ![<<e, Meta>>] = c], keys, [old EXCEPT !.meta = ModelOf(c)], e)
<1> DEFINE v == [old EXCEPT !.meta = ModelOf(c)]
           after == [asts EXCEPT ![<<e, Meta>>] = c]
<1>1. v \in EcuModel /\ v.ecu = e /\ v.meta = ModelOf(c) /\ v.switches = old.switches
  BY DEF Placed, EcuModel
<1>2. \A x \in Item : <<e, x>> \in Doc /\ x # Meta
  BY NodeParts, SizeAssumption DEF Item, Meta
<1>3. <<e, Meta>> \in Doc
  BY NodeParts, SizeAssumption DEF Meta
<1>4. after[<<e, Meta>>] = c /\ \A x \in Item : after[<<e, x>>] = asts[<<e, x>>]
  BY <1>2, <1>3
<1>5. \A j \in 1..Len(old.switches) : old.switches[j].file \in Item
  <2>1. old.switches \in Seq(ItemModel)
    BY DEF Placed, EcuModel
  <2>2. \A j \in 1..Len(old.switches) : old.switches[j] \in ItemModel
    BY <2>1, ElementOfSeq
  <2>3. QED
    BY <2>2 DEF ItemModel
<1> HIDE DEF v, after
<1>6. Placed(after, keys, v, e)
  BY <1>1, <1>4, <1>5 DEF Placed
<1>7. QED
  BY <1>6 DEF v, after
-----------------------------------------------------------------------------
(* The root list.                                                          *)

\* A list with the model of every ECU at its place names each of them once.
LEMMA RootNamesOnce ==
  ASSUME NEW f, \A e \in ECU : f[e] \in EcuModel /\ f[e].ecu = e
  PROVE  /\ UniqueEcus(ListOf(ECU, f))
         /\ \A k \in 1..Len(ListOf(ECU, f)) : \E e \in ECU : ListOf(ECU, f)[k] = f[e]
<1>1. IsFiniteSet(ECU) /\ ECU \in SUBSET Int
  BY SizeAssumption, FS_Interval DEF ECU
<1>2. /\ Len(ListOf(ECU, f)) = Cardinality(ECU)
      /\ \A k \in 1..Cardinality(ECU) : ListOf(ECU, f)[k] = f[At(ECU, k)]
  <2>1. \A e \in ECU : f[e] \in EcuModel
    OBVIOUS
  <2>2. QED
    BY <1>1, <2>1, ListOfType
<1>3. \A k \in 1..Cardinality(ECU) : At(ECU, k) \in ECU /\ Rank(ECU, At(ECU, k)) = k - 1
  BY <1>1, AtProperties
<1>4. \A k \in 1..Cardinality(ECU) : ListOf(ECU, f)[k].ecu = At(ECU, k)
  BY <1>2, <1>3
<1>5. ASSUME NEW j \in 1..Cardinality(ECU), NEW k \in 1..Cardinality(ECU),
             At(ECU, j) = At(ECU, k)
      PROVE  j = k
  <2>1. j - 1 = k - 1
    BY <1>3, <1>5
  <2>2. j \in Int /\ k \in Int
    OBVIOUS
  <2>3. QED
    BY <2>1, <2>2
<1>6. UniqueEcus(ListOf(ECU, f))
  BY <1>2, <1>4, <1>5 DEF UniqueEcus
<1>7. QED
  BY <1>2, <1>3, <1>6

\* While nothing is pending, what the model shows is there once and current.
LEMMA SoundImpliesModelSound == TypeInv /\ SoundInv => ModelSound
<1> SUFFICES ASSUME TypeInv, SoundInv, pending = {}, NothingGarbled(disk)
             PROVE  /\ UniqueEcus(model)
                    /\ \A k \in 1..Len(model) :
                         LET v == model[k] IN
                         /\ v.meta = ModelOf(disk[<<v.ecu, Meta>>])
                         /\ \A j \in 1..Len(v.switches) :
                              /\ v.switches[j] = ItemValue(v.switches[j].file,
                                                           disk[<<v.ecu, v.switches[j].file>>])
                              /\ \A i \in 1..Len(v.switches) :
                                   v.switches[i].file = v.switches[j].file => i = j
  BY DEF ModelSound
<1>1. Sound
  BY DEF SoundInv, Dead
<1>2. \A e \in ECU : Placed(ast, key, ecuModel[e], e)
  BY <1>1 DEF Sound
<1>3. \A e \in ECU : ecuModel[e] \in EcuModel /\ ecuModel[e].ecu = e
  BY <1>2 DEF Placed
<1>4. UniqueEcus(model) /\ \A k \in 1..Len(model) : \E e \in ECU : model[k] = ecuModel[e]
  <2>1. model = ListOf(ECU, ecuModel)
    BY <1>1 DEF Sound
  <2>2. QED
    BY <1>3, <2>1, RootNamesOnce
<1>5. ASSUME NEW d \in Doc PROVE ModelOf(ast[d]) = ModelOf(disk[d])
  <2>1. ModelOf(View[d]) = ModelOf(disk[d])
    BY <1>1 DEF Sound, Settled
  <2>2. View[d] = IF ast[d] = Unopened THEN Absent ELSE ast[d]
    BY DEF View
  <2>3. ModelOf(Unopened) = NoModel /\ ModelOf(Absent) = NoModel
    BY DEF ModelOf, Usable, Unopened, Absent
  <2>4. QED
    BY <2>1, <2>2, <2>3
<1>6. ASSUME NEW k \in 1..Len(model)
      PROVE  /\ model[k].meta = ModelOf(disk[<<model[k].ecu, Meta>>])
             /\ \A j \in 1..Len(model[k].switches) :
                  /\ model[k].switches[j] =
                       ItemValue(model[k].switches[j].file,
                                 disk[<<model[k].ecu, model[k].switches[j].file>>])
                  /\ \A i \in 1..Len(model[k].switches) :
                       model[k].switches[i].file = model[k].switches[j].file => i = j
  <2>1. PICK e \in ECU : model[k] = ecuModel[e]
    BY <1>4
  <2> DEFINE v == model[k]
  <2>2. Placed(ast, key, v, e)
    BY <1>2, <2>1
  <2> HIDE DEF v
  <2>3. /\ v.ecu = e /\ v.meta = ModelOf(ast[<<e, Meta>>]) /\ v.switches \in Seq(ItemModel)
        /\ \A j \in 1..Len(v.switches) :
             /\ key[<<e, v.switches[j].file>>] = j - 1
             /\ v.switches[j] = ItemValue(v.switches[j].file, ast[<<e, v.switches[j].file>>])
    BY <2>2 DEF Placed, EcuModel
  <2>4. v.meta = ModelOf(disk[<<e, Meta>>])
    BY <1>5, <2>3, NodeParts, SizeAssumption DEF Meta
  <2>5. ASSUME NEW j \in 1..Len(v.switches)
        PROVE  v.switches[j] = ItemValue(v.switches[j].file, disk[<<e, v.switches[j].file>>])
    <3>1. v.switches[j] \in ItemModel
      BY <2>3, ElementOfSeq
    <3>2. v.switches[j].file \in Item
      BY <3>1 DEF ItemModel
    <3>3. <<e, v.switches[j].file>> \in Doc
      BY <3>2, NodeParts, SizeAssumption DEF Item
    <3>4. QED
      BY <1>5, <2>3, <3>3 DEF ItemValue
  <2>6. ASSUME NEW j \in 1..Len(v.switches), NEW i \in 1..Len(v.switches),
               v.switches[i].file = v.switches[j].file
        PROVE  i = j
    <3>1. i - 1 = j - 1
      BY <2>3, <2>6
    <3>2. i \in Int /\ j \in Int
      OBVIOUS
    <3>3. QED
      BY <3>1, <3>2
  <2>7. QED
    BY <2>3, <2>4, <2>5, <2>6 DEF v
<1>7. QED
  BY <1>4, <1>6
-----------------------------------------------------------------------------
(* A full load.                                                            *)

\* What a full load leaves, and what a partial reload leaves.
SoundIn(ws) ==
  /\ \A d \in Doc : ws.ast[d].kind # "garbled"
  /\ \A e \in ECU : ws.key[<<e, Dir>>] = Rank(ECU, e) /\ Placed(ws.ast, ws.key, ws.ecuModel[e], e)
  /\ ws.model = ListOf(ECU, ws.ecuModel)

LEMMA FullLoadSound ==
  ASSUME disk \in [Doc -> Text], FilesAllowed, NothingGarbled(disk)
  PROVE  /\ SoundIn(FullLoad)
         /\ \A d \in Doc : FullLoad.ast[d] = IF disk[d] = Absent THEN Unopened ELSE AstAfter(disk[d])
<1>1. disk \in [Doc -> Content]
  BY ContentType
<1>2. \A d \in Doc : FullLoad.ast[d] = IF disk[d] = Absent THEN Unopened ELSE AstAfter(disk[d])
  BY DEF FullLoad
<1>3. \A d \in Doc : FullLoad.ast[d].kind # "garbled" /\ ModelOf(FullLoad.ast[d]) = ModelOf(disk[d])
  <2> TAKE d \in Doc
  <2>1. CASE disk[d] = Absent
    BY <1>2, <2>1 DEF Absent, Unopened, ModelOf, Usable
  <2>2. CASE disk[d] # Absent
    <3>1. disk[d] \in Content /\ disk[d].kind # "garbled"
      BY <1>1 DEF NothingGarbled
    <3>2. QED
      BY <1>2, <2>2, <3>1, AfterSame
  <2>3. QED
    BY <2>1, <2>2
<1>4. ASSUME NEW e \in ECU
      PROVE  /\ Raising(disk, e) = {}
             /\ ModelOf(disk[<<e, Meta>>]) # NoModel
             /\ \A i \in Item \cup {Meta} : <<e, i>> \in Doc
  <2>1. \A i \in Item \cup {Meta} : <<e, i>> \in Doc
    BY NodeParts, SizeAssumption DEF Item, Meta
  <2>2. Raising(disk, e) = {}
    BY <2>1 DEF Raising, Present, NothingGarbled
  <2>3. disk[<<e, Meta>>].kind \in Loadable /\ disk[<<e, Meta>>] \in Content
    BY <1>1, <2>1 DEF FilesAllowed, NothingGarbled
  <2>4. QED
    BY <2>1, <2>2, <2>3, Kinds
<1>5. (\A e \in ECU : LoadEcu(disk, e) \in EcuModel) /\ LoadingEcus(disk) = ECU
  BY <1>1, <1>4, AllEcusLoad
<1>6. ASSUME NEW e \in ECU
      PROVE  /\ FullLoad.key[<<e, Dir>>] = Rank(ECU, e)
             /\ \A i \in Item : FullLoad.key[<<e, i>>] = IF i \in Present(disk, e)
                                  THEN Rank(Loading(disk, e), i) ELSE NoNode
  <2>1. <<e, Dir>> \in FullNodes(disk) /\ <<e, Dir>> \in DirNode /\ <<e, Dir>> \in Node
    BY NodeParts DEF FullNodes, NodesOf, DirNode
  <2>2. FullLoad.key[<<e, Dir>>] = Rank(ECU, e)
    BY <1>5, <2>1 DEF FullLoad, FullKey
  <2>3. ASSUME NEW i \in Item
        PROVE  FullLoad.key[<<e, i>>] = IF i \in Present(disk, e)
                                  THEN Rank(Loading(disk, e), i) ELSE NoNode
    <3>1. <<e, i>> \in Node /\ <<e, i>> \notin DirNode /\ i # Meta /\ i # Dir
      BY NodeParts, SizeAssumption DEF Item, DirNode, Dir, Meta
    <3>2. <<e, i>> \in FullNodes(disk) <=> i \in Visited(disk, e) \cup {Meta, Dir}
      BY DEF FullNodes, NodesOf
    <3>3. i \in Visited(disk, e) <=> i \in Present(disk, e)
      BY <1>4 DEF Visited
    <3>4. KeyOf(disk, <<e, i>>) = Rank(Loading(disk, e), i)
      BY DEF KeyOf
    <3>5. QED
      BY <3>1, <3>2, <3>3, <3>4 DEF FullLoad, FullKey
  <2>4. QED
    BY <2>2, <2>3
<1>7. ASSUME NEW e \in ECU PROVE Placed(FullLoad.ast, FullLoad.key, FullLoad.ecuModel[e], e)
  <2>1. \A i \in Loading(disk, e) \cup {Meta} :
          ModelOf(FullLoad.ast[<<e, i>>]) = ModelOf(disk[<<e, i>>])
    BY <1>3, <1>4, LoadingFinite
  <2>2. FullLoad.ecuModel[e] = LoadEcu(disk, e)
    BY DEF FullLoad
  <2>3. QED
    BY <1>1, <1>4, <1>6, <2>1, <2>2, LoadedIsPlaced
<1>8. FullLoad.model = ListOf(ECU, FullLoad.ecuModel)
  BY <1>5 DEF FullLoad, LoadModel
<1>9. QED
  BY <1>2, <1>3, <1>6, <1>7, <1>8 DEF SoundIn

-----------------------------------------------------------------------------
(* A partial reload.                                                       *)

LEMMA PlacedElsewhere ==
  ASSUME NEW e \in ECU, NEW v, NEW asts, NEW keys, NEW asts2, NEW keys2,
         Placed(asts, keys, v, e),
         \A i \in Item : asts2[<<e, i>>] = asts[<<e, i>>] /\ keys2[<<e, i>>] = keys[<<e, i>>],
         asts2[<<e, Meta>>] = asts[<<e, Meta>>]
  PROVE  Placed(asts2, keys2, v, e)
<1>1. v.switches \in Seq(ItemModel)
  BY DEF Placed, EcuModel
<1>2. \A j \in 1..Len(v.switches) : v.switches[j] \in ItemModel
  BY <1>1, ElementOfSeq
<1>3. \A j \in 1..Len(v.switches) : v.switches[j].file \in Item
  BY <1>2 DEF ItemModel
<1>4. QED
  BY <1>3 DEF Placed

\* The document alone and its ECU rebuilt around it.
LEMMA RebuiltSound ==
  ASSUME TypeInv, Sound, NEW d \in Doc, key[d] # NoNode,
         disk[d].kind # "garbled", RebuildEcu(d) # NoModel
  PROVE  /\ \A e \in ECU : Placed(UpdateEcu(d).ast, UpdateEcu(d).key, UpdateEcu(d).ecuModel[e], e)
         /\ UpdateEcu(d).key = key /\ UpdateEcu(d).model = model
         /\ UpdateEcu(d).ast = [ast EXCEPT ![d] = AstAfter(disk[d])]
         /\ UpdateEcu(d).ecuModel = [ecuModel EXCEPT ![d[1]] = RebuildEcu(d)]
<1> DEFINE ws == UpdateEcu(d)
           c == AstAfter(disk[d])
           old == ecuModel[d[1]]
<1>1. /\ ws.ast = [ast EXCEPT ![d] = c] /\ ws.key = key
      /\ ws.ecuModel = [ecuModel EXCEPT ![d[1]] = RebuildEcu(d)] /\ ws.model = model
  BY DEF UpdateEcu, ReloadDocument
<1>2. d[1] \in ECU /\ d[2] \in 0..NS /\ d = <<d[1], d[2]>> /\ d \in Node
  BY NodeParts
<1>3. /\ ast \in [Doc -> Content] /\ disk[d] \in Content /\ key[d] \in Nat
      /\ key \in [Node -> Nat \cup {NoNode}] /\ ecuModel \in [ECU -> EcuValue]
  BY <1>2, ContentType DEF TypeInv, TypeOK
<1>4. ModelOf(c) = ModelOf(disk[d])
  BY <1>3, AfterSame
<1>5. \A e \in ECU : Placed(ast, key, ecuModel[e], e)
  BY DEF Sound
<1>6. ModelOf(disk[d]) # NoModel
  BY DEF RebuildEcu, ItemValue
<1>7. ModelOf(c) \in ValueModel
  BY <1>3, <1>4, <1>6, Kinds
<1> HIDE DEF ws, c
<1>8. ASSUME NEW e \in ECU, e # d[1] PROVE Placed(ws.ast, ws.key, ws.ecuModel[e], e)
  <2>1. ws.ecuModel[e] = ecuModel[e]
    BY <1>1, <1>3, <1>8
  <2>2. \A i \in Item \cup {Meta} : <<e, i>> \in Doc /\ <<e, i>> # d
    BY <1>2, <1>8, NodeParts, SizeAssumption DEF Item, Meta
  <2>3. \A i \in Item \cup {Meta} : ws.ast[<<e, i>>] = ast[<<e, i>>]
    BY <1>1, <1>3, <2>2
  <2>4. Placed(ast, key, ecuModel[e], e)
    BY <1>5
  <2>5. Placed(ws.ast, ws.key, ecuModel[e], e)
    <3>1. \A i \in Item : ws.ast[<<e, i>>] = ast[<<e, i>>] /\ ws.key[<<e, i>>] = key[<<e, i>>]
      BY <1>1, <2>3
    <3>2. ws.ast[<<e, Meta>>] = ast[<<e, Meta>>]
      BY <2>3
    <3> DEFINE wa == ws.ast
               wk == ws.key
    <3> HIDE DEF wa, wk
    <3>3. Placed(wa, wk, ecuModel[e], e)
      BY <2>4, <3>1, <3>2, PlacedElsewhere DEF wa, wk
    <3>4. QED
      BY <3>3 DEF wa, wk
  <2>6. QED
    BY <2>1, <2>5
<1>9. Placed(ws.ast, ws.key, ws.ecuModel[d[1]], d[1])
  <2>1. ws.ecuModel[d[1]] = RebuildEcu(d) /\ Placed(ast, key, old, d[1])
    BY <1>1, <1>2, <1>3, <1>5
  <2>2. CASE d[2] = Meta
    <3>1. RebuildEcu(d) = [old EXCEPT !.meta = ModelOf(c)]
      BY <1>4, <2>2 DEF RebuildEcu
    <3>2. ws.ast = [ast EXCEPT ![<<d[1], Meta>>] = c]
      BY <1>1, <1>2, <2>2
    <3>3. Placed([ast EXCEPT ![<<d[1], Meta>>] = c], key, [old EXCEPT !.meta = ModelOf(c)], d[1])
      BY <1>2, <1>3, <1>7, <2>1, MetaIsPlaced
    <3>4. QED
      BY <1>1, <2>1, <3>1, <3>2, <3>3
  <2>3. CASE d[2] # Meta
    <3>1. d[2] \in Item
      BY <1>2, <2>3, SizeAssumption DEF Item, Meta
    <3>2. ItemValue(d[2], disk[d]) = ItemValue(d[2], c)
      BY <1>4 DEF ItemValue
    <3>3. RebuildEcu(d) = [old EXCEPT !.switches = Splice(@, key[d], ItemValue(d[2], c))]
      BY <2>3, <3>2 DEF RebuildEcu
    <3> DEFINE i == d[2]
               x == d[1]
    <3>4. d = <<x, i>> /\ x \in ECU /\ i \in Item
      BY <1>2, <3>1
    <3>5. Placed(ast, key, old, x) /\ key[<<x, i>>] \in Nat
      BY <1>2, <1>3, <2>1
    <3> HIDE DEF i, x, old
    <3>6. Placed([ast EXCEPT ![<<x, i>>] = c], key,
                 [old EXCEPT !.switches = Splice(@, key[<<x, i>>], ItemValue(i, c))], x)
      BY <1>3, <1>7, <3>4, <3>5, SplicedIsPlaced
    <3>7. QED
      BY <1>1, <2>1, <3>3, <3>4, <3>6 DEF x, i
  <2>4. QED
    BY <2>2, <2>3
<1>10. QED
  BY <1>1, <1>8, <1>9 DEF ws, c

\* With the metadata loaded only a switch file can make the rebuilding fail.
LEMMA OnlySwitchesBreak ==
  ASSUME TypeInv, FilesAllowed, Sound, NEW d \in Doc, key[d] # NoNode,
         disk[d].kind # "garbled", RebuildEcu(d) = NoModel
  PROVE  d[2] \in Item
<1>1. d[1] \in ECU /\ d[2] \in 0..NS /\ d = <<d[1], d[2]>>
  BY NodeParts
<1>2. SUFFICES ASSUME d[2] = Meta PROVE FALSE
  BY <1>1, SizeAssumption DEF Item, Meta
<1>3. disk[d].kind \in Loadable /\ disk[d] \in Content
  BY <1>1, <1>2, ContentType DEF FilesAllowed, TypeInv, TypeOK
<1>4. ModelOf(disk[d]) # NoModel /\ ModelOf(disk[d]) \in ValueModel
  BY <1>3, Kinds
<1>5. ecuModel[d[1]] \in EcuModel
  BY <1>1 DEF Sound, Placed
<1>6. [ecuModel[d[1]] EXCEPT !.meta = ModelOf(disk[d])] \in EcuModel
  BY <1>4, <1>5 DEF EcuModel
<1>7. RebuildEcu(d) \in EcuModel
  BY <1>2, <1>4, <1>5, <1>6, NoneAssumption DEF RebuildEcu
<1>8. QED
  BY <1>7, NoneAssumption

\* The directory of the ECU read again, from what is open and what is new.
LEMMA ReloadedSound ==
  ASSUME TypeInv, FilesAllowed, Sound, NEW d \in Doc, key[d] # NoNode,
         disk[d].kind \notin {"absent", "garbled"}, RebuildEcu(d) = NoModel
  PROVE  LET ws   == UpdateEcu(d)
             asts == [ast EXCEPT ![d] = AstAfter(disk[d])]
             seen == Seen(asts)
         IN /\ \A e \in ECU : Placed(ws.ast, ws.key, ws.ecuModel[e], e)
            /\ ws.model = model
            /\ \A e \in ECU : ws.key[<<e, Dir>>] = key[<<e, Dir>>]
            /\ \A e \in ECU : e # d[1] => ws.ecuModel[e] = ecuModel[e]
            /\ ws.ecuModel \in [ECU -> EcuValue]
            /\ \A c \in Doc :
                 \/ disk[c] = Absent /\ ws.ast[c] = asts[c] /\ c # d
                 \/ c[1] # d[1] /\ ws.ast[c] = asts[c] /\ c # d
                 \/ /\ c[1] = d[1] /\ disk[c] # Absent
                    /\ seen[c].kind \in {"absent", "garbled"} /\ ws.ast[c] = asts[c] /\ c # d
                 \/ /\ c[1] = d[1] /\ disk[c] # Absent
                    /\ seen[c].kind \notin {"absent", "garbled"}
                    /\ ws.ast[c] = AstAfter(seen[c])
            /\ \A c \in Doc : c[1] = d[1] /\ seen[c].kind \notin {"absent", "garbled"}
                              => ws.diags[c] = DiagOf(seen[c])
            /\ \A c \in Doc : c[1] # d[1] => ws.diags[c] = diags[c]
<1> DEFINE ws   == UpdateEcu(d)
           one  == ReloadDocument(d)
           asts == [ast EXCEPT ![d] = AstAfter(disk[d])]
           seen == Seen(asts)
           e    == d[1]
<1>1. /\ e \in ECU /\ d = <<e, d[2]>> /\ d \in Node /\ d[2] \in Item
      /\ \A i \in Item \cup {Meta} : <<e, i>> \in Doc /\ <<e, i>> \in Node
  <2>1. d[2] \in Item
    BY OnlySwitchesBreak
  <2>2. \A i \in Item \cup {Meta} : <<e, i>> \in Doc /\ <<e, i>> \in Node
    BY NodeParts, SizeAssumption DEF Item, Meta
  <2>3. QED
    BY <2>1, <2>2, NodeParts
<1>2. /\ ast \in [Doc -> Content] /\ disk \in [Doc -> Content] /\ asts \in [Doc -> Content]
      /\ seen \in [Doc -> Content] /\ key \in [Node -> Nat \cup {NoNode}]
      /\ ecuModel \in [ECU -> EcuValue]
  <2>1. ast \in [Doc -> Content] /\ disk \in [Doc -> Content]
    BY ContentType DEF TypeInv, TypeOK
  <2>2. asts \in [Doc -> Content]
    BY <2>1, ContentType
  <2>3. seen \in [Doc -> Content]
    BY <2>2, SeenType
  <2>4. QED
    BY <2>1, <2>2, <2>3 DEF TypeInv, TypeOK
<1>3. /\ one.ast = asts /\ one.key = key /\ one.model = model /\ one.ecuModel = ecuModel
      /\ \A c \in Doc : c # d => one.diags[c] = diags[c]
  <2>1. \A c \in Doc : c \in Node
    BY NodeParts
  <2>2. diags \in [Node -> {"absent", "clean", "error"}]
    BY DEF TypeInv, TypeOK
  <2>3. QED
    BY <2>1, <2>2 DEF ReloadDocument
<1>4. ws = ReloadEcu(one, e)
  BY DEF UpdateEcu
<1> HIDE DEF one, asts
<1>5. \A c \in Doc : seen[c] = IF disk[c] = Absent THEN Absent
                               ELSE IF asts[c] = Unopened THEN disk[c] ELSE asts[c]
  BY DEF Seen
<1> HIDE DEF seen
<1>6. \A c \in Doc : ws.ast[c] = IF /\ c \in NodesOf(seen, e)
                                    /\ seen[c].kind \notin {"absent", "garbled"}
                                   THEN AstAfter(seen[c]) ELSE asts[c]
  BY <1>3, <1>4 DEF ReloadEcu, seen
<1>7. \A n \in Node : ws.key[n] = IF n \in NodesOf(seen, e)
                                    THEN IF n[2] = Dir THEN key[n] ELSE KeyOf(seen, n)
                                  ELSE IF n \in EcuNodes(e) THEN NoNode ELSE key[n]
  BY <1>3, <1>4 DEF ReloadEcu, seen
<1>8. /\ ws.ecuModel = [ecuModel EXCEPT ![e] = LoadEcu(seen, e)]
      /\ ws.model = model
  BY <1>3, <1>4 DEF ReloadEcu, seen
<1>9. \A n \in Node : ws.diags[n] = IF n \in NodesOf(seen, e) THEN NodeDiag(seen, n)
                                   ELSE IF n \in EcuNodes(e) /\ key[n] # NoNode
                                          THEN "absent" ELSE one.diags[n]
  BY <1>3, <1>4 DEF ReloadEcu, seen
<1> HIDE DEF ws
<1>10. \A c \in Doc : asts[c].kind # "garbled" /\ (c # d => asts[c] = ast[c])
  <2>1. AstAfter(disk[d]).kind # "garbled"
    BY <1>2, AfterSame
  <2>2. \A c \in Doc : ast[c].kind # "garbled"
    BY DEF Sound
  <2>3. QED
    BY <1>2, <2>1, <2>2 DEF asts
<1>11. \A i \in Item : seen[<<e, i>>].kind # "garbled"
  <2> TAKE i \in Item
  <2>1. <<e, i>> \in Doc /\ i # Meta
    BY <1>1, SizeAssumption DEF Item, Meta
  <2>2. disk[<<e, i>>].kind # "garbled"
    BY <2>1 DEF FilesAllowed
  <2>3. QED
    BY <1>5, <1>10, <2>1, <2>2 DEF Absent
<1>12. Raising(seen, e) = {} /\ Visited(seen, e) = Present(seen, e)
  BY <1>11 DEF Raising, Visited, Present
<1>13. /\ ModelOf(seen[<<e, Meta>>]) # NoModel /\ seen[<<e, Meta>>] = ast[<<e, Meta>>]
       /\ disk[<<e, Meta>>] # Absent
  <2>1. <<e, Meta>> \in Doc /\ <<e, Meta>> # d
    BY <1>1, SizeAssumption DEF Item, Meta
  <2>2. disk[<<e, Meta>>].kind \in Loadable \cup {"garbled"}
    BY <1>1 DEF FilesAllowed
  <2>3. disk[<<e, Meta>>] # Absent
    BY <2>2 DEF Absent, Loadable
  <2>4. ModelOf(ast[<<e, Meta>>]) \in ValueModel
    BY <1>1 DEF Sound, Placed, EcuModel
  <2>5. ast[<<e, Meta>>] # Unopened
    BY <2>4, NoneAssumption DEF Unopened, ModelOf, Usable
  <2>6. QED
    BY <1>5, <1>10, <2>1, <2>3, <2>4, <2>5, NoneAssumption
<1>14. \A i \in Item \cup {Meta} :
         <<e, i>> \in NodesOf(seen, e) <=> i \in Present(seen, e) \cup {Meta}
  <2>1. \A i \in Item \cup {Meta} : i # Dir
    BY SizeAssumption DEF Item, Meta, Dir
  <2>2. QED
    BY <1>12, <2>1 DEF NodesOf
<1>15. \A c \in Doc : c[1] # e => c \notin NodesOf(seen, e) /\ c \notin EcuNodes(e) /\ c # d
  BY <1>1 DEF NodesOf, EcuNodes
<1>16. \A i \in Item : ws.key[<<e, i>>] = IF i \in Present(seen, e)
                                            THEN Rank(Loading(seen, e), i) ELSE NoNode
  <2> TAKE i \in Item
  <2>1. <<e, i>> \in Node /\ i # Dir /\ i # Meta /\ <<e, i>> \in EcuNodes(e)
    BY <1>1, SizeAssumption DEF Item, Dir, Meta, EcuNodes
  <2>2. KeyOf(seen, <<e, i>>) = Rank(Loading(seen, e), i)
    BY DEF KeyOf
  <2>3. QED
    BY <1>7, <1>14, <2>1, <2>2
<1>17. \A i \in Loading(seen, e) \cup {Meta} : ModelOf(ws.ast[<<e, i>>]) = ModelOf(seen[<<e, i>>])
  <2> TAKE i \in Loading(seen, e) \cup {Meta}
  <2>1. <<e, i>> \in Doc /\ <<e, i>> \in NodesOf(seen, e) /\ ModelOf(seen[<<e, i>>]) # NoModel
    BY <1>1, <1>13, <1>14, LoadingFinite DEF Loading
  <2>2. seen[<<e, i>>] \in Content /\ seen[<<e, i>>].kind \notin {"absent", "garbled"}
    BY <1>2, <2>1 DEF ModelOf, Usable
  <2>3. ws.ast[<<e, i>>] = AstAfter(seen[<<e, i>>])
    BY <1>6, <2>1, <2>2
  <2>4. QED
    BY <2>2, <2>3, AfterSame
<1>18. Placed(ws.ast, ws.key, ws.ecuModel[e], e)
  <2>1. ws.ecuModel[e] = LoadEcu(seen, e)
    BY <1>1, <1>2, <1>8
  <2>2. Placed(ws.ast, ws.key, LoadEcu(seen, e), e)
    <3> HIDE DEF e
    <3>1. QED
      BY <1>1, <1>2, <1>12, <1>13, <1>16, <1>17, LoadedIsPlaced
  <2>3. QED
    BY <2>1, <2>2
<1>19. ASSUME NEW x \in ECU, x # e PROVE Placed(ws.ast, ws.key, ws.ecuModel[x], x)
  <2>1. ws.ecuModel[x] = ecuModel[x]
    BY <1>2, <1>8, <1>19
  <2>2. \A i \in Item \cup {Meta} : <<x, i>> \in Doc /\ <<x, i>> \in Node
    BY NodeParts, SizeAssumption DEF Item, Meta
  <2>3. \A i \in Item \cup {Meta} : /\ ws.ast[<<x, i>>] = ast[<<x, i>>]
                                    /\ ws.key[<<x, i>>] = key[<<x, i>>]
    <3> TAKE i \in Item \cup {Meta}
    <3>1. <<x, i>>[1] # e
      BY <1>19
    <3>2. <<x, i>> \notin NodesOf(seen, e) /\ <<x, i>> \notin EcuNodes(e) /\ <<x, i>> # d
      BY <1>15, <2>2, <3>1
    <3>3. QED
      BY <1>6, <1>7, <1>10, <2>2, <3>2
  <2>4. Placed(ast, key, ecuModel[x], x)
    BY DEF Sound
  <2>5. Placed(ws.ast, ws.key, ecuModel[x], x)
    <3>1. \A i \in Item : ws.ast[<<x, i>>] = ast[<<x, i>>] /\ ws.key[<<x, i>>] = key[<<x, i>>]
      BY <2>3
    <3>2. ws.ast[<<x, Meta>>] = ast[<<x, Meta>>]
      BY <2>3
    <3> DEFINE wa == ws.ast
               wk == ws.key
    <3> HIDE DEF wa, wk
    <3>3. Placed(wa, wk, ecuModel[x], x)
      BY <2>4, <3>1, <3>2, PlacedElsewhere DEF wa, wk
    <3>4. QED
      BY <3>3 DEF wa, wk
  <2>6. QED
    BY <2>1, <2>5
<1>20. \A x \in ECU : ws.key[<<x, Dir>>] = key[<<x, Dir>>]
  <2> TAKE x \in ECU
  <2>1. <<x, Dir>> \in Node /\ <<e, Dir>> \in NodesOf(seen, e)
    BY NodeParts DEF NodesOf
  <2>2. <<x, Dir>> \in EcuNodes(e) => x = e
    BY DEF EcuNodes
  <2>3. <<x, Dir>> \in NodesOf(seen, e) => x = e
    BY DEF NodesOf
  <2>4. QED
    BY <1>7, <2>1, <2>2, <2>3
<1>21. ASSUME NEW c \in Doc
       PROVE  \/ disk[c] = Absent /\ ws.ast[c] = asts[c] /\ c # d
              \/ c[1] # e /\ ws.ast[c] = asts[c] /\ c # d
              \/ /\ c[1] = e /\ disk[c] # Absent
                 /\ seen[c].kind \in {"absent", "garbled"} /\ ws.ast[c] = asts[c] /\ c # d
              \/ /\ c[1] = e /\ disk[c] # Absent
                 /\ seen[c].kind \notin {"absent", "garbled"}
                 /\ ws.ast[c] = AstAfter(seen[c])
  <2>1. disk[d] # Absent /\ disk[d] \in Content
    BY <1>2 DEF Absent
  <2>2. seen[d].kind \notin {"absent", "garbled"}
    <3>1. asts[d] = AstAfter(disk[d])
      BY <1>2 DEF asts
    <3>2. asts[d].kind \notin {"absent", "garbled"}
      BY <2>1, <3>1, AfterSame
    <3>3. QED
      BY <1>5, <2>1, <3>2
  <2>3. CASE disk[c] = Absent
    <3>1. seen[c] = Absent
      BY <1>5, <2>3
    <3>2. QED
      BY <1>6, <2>1, <2>3, <3>1 DEF Absent
  <2>4. CASE c[1] # e
    BY <1>6, <1>15, <2>4
  <2>5. CASE c[1] = e /\ disk[c] # Absent /\ seen[c].kind \in {"absent", "garbled"}
    BY <1>6, <2>2, <2>5
  <2>6. CASE c[1] = e /\ disk[c] # Absent /\ seen[c].kind \notin {"absent", "garbled"}
    <3>1. c = <<e, c[2]>> /\ c[2] \in Item \cup {Meta}
      BY <2>6, NodeParts, SizeAssumption DEF Item, Meta
    <3>2. c[2] \in Present(seen, e) \cup {Meta}
      BY <2>6, <3>1 DEF Present
    <3>3. c \in NodesOf(seen, e)
      BY <1>14, <3>1, <3>2
    <3>4. QED
      BY <1>2, <1>6, <2>6, <3>3
  <2>7. QED
    BY <2>3, <2>4, <2>5, <2>6
<1>22. ASSUME NEW c \in Doc, c[1] = e, seen[c].kind \notin {"absent", "garbled"}
       PROVE  ws.diags[c] = DiagOf(seen[c])
  <2>1. c = <<e, c[2]>> /\ c[2] \in Item \cup {Meta} /\ c[2] # Dir /\ c \in Node
    BY <1>22, NodeParts, SizeAssumption DEF Item, Meta, Dir
  <2>2. c \in NodesOf(seen, e)
    BY <1>14, <1>22, <2>1 DEF Present
  <2>3. NodeDiag(seen, c) = DiagOf(seen[c])
    BY <1>22, <2>1 DEF NodeDiag
  <2>4. QED
    BY <1>9, <2>1, <2>2, <2>3
<1>23. \A c \in Doc : c[1] # e => ws.diags[c] = diags[c]
  BY <1>3, <1>9, <1>15, NodeParts
<1>24. ws.ecuModel \in [ECU -> EcuValue] /\ \A x \in ECU : x # e => ws.ecuModel[x] = ecuModel[x]
  <2>1. LoadEcu(seen, e) \in EcuValue
    BY <1>1, <1>2, LoadEcuType
  <2>2. QED
    BY <1>2, <1>8, <2>1
<1>25. QED
  BY <1>8, <1>18, <1>19, <1>20, <1>21, <1>22, <1>23, <1>24 DEF ws, asts, seen

-----------------------------------------------------------------------------
(* Every step keeps the workspace sound.                                   *)

LEMMA SoundInit == BrokenSwitches /\ Init => SoundInv
<1> SUFFICES ASSUME Init PROVE SoundInv
  OBVIOUS
<1>1. (\A d \in Doc : disk[d].kind \in {"clean", "absent"}) /\ pending = {}
  BY DEF Init
<1>2. disk \in [Doc -> Text]
  BY DEF Init, Text
<1>3. FilesAllowed /\ NothingGarbled(disk)
  BY <1>1 DEF Init, FilesAllowed, Loadable, NothingGarbled
<1>4. /\ SoundIn(FullLoad)
      /\ \A d \in Doc : FullLoad.ast[d] = IF disk[d] = Absent THEN Unopened ELSE AstAfter(disk[d])
  BY <1>2, <1>3, FullLoadSound
<1>5. /\ ast = FullLoad.ast /\ key = FullLoad.key
      /\ ecuModel = FullLoad.ecuModel /\ model = FullLoad.model
  BY DEF Init
<1>6. ASSUME NEW d \in Doc PROVE Settled(d)
  <2>1. disk[d] \in Content /\ disk[d].kind \in {"clean", "absent"}
    BY <1>1, <1>2, ContentType
  <2>2. AstAfter(disk[d]) = disk[d] /\ disk[d] # Unopened
    BY <2>1, AfterSame DEF Unopened
  <2>3. View[d] = disk[d]
    BY <1>4, <1>5, <2>2 DEF View
  <2>4. QED
    BY <2>1, <2>3 DEF Settled
<1>7. QED
  BY <1>3, <1>4, <1>5, <1>6 DEF SoundInv, Sound, SoundIn

LEMMA ResetSound ==
  ASSUME TypeInv, FilesAllowed, ResetAndReload, disk' = disk
  PROVE  SoundInv'
<1>1. FilesAllowed'
  BY DEF FilesAllowed
<1>2. CASE NothingGarbled(disk)
  <2>1. disk \in [Doc -> Text]
    BY DEF TypeInv, TypeOK
  <2>2. /\ SoundIn(FullLoad)
        /\ \A d \in Doc : FullLoad.ast[d] = IF disk[d] = Absent THEN Unopened ELSE AstAfter(disk[d])
    BY <1>2, <2>1, FullLoadSound
  <2>3. /\ ast' = FullLoad.ast /\ key' = FullLoad.key
        /\ ecuModel' = FullLoad.ecuModel /\ model' = FullLoad.model
    BY <1>2 DEF ResetAndReload, Become
  <2>4. ASSUME NEW d \in Doc PROVE Settled(d)'
    <3>1. disk[d] \in Content /\ disk[d].kind \notin {"garbled", "unopened"}
      BY <1>2, <2>1, ContentType DEF NothingGarbled, Text
    <3>2. View'[d] = IF ast'[d] = Unopened THEN Absent ELSE ast'[d]
      BY DEF View
    <3>3. CASE disk[d] = Absent
      <4>1. View'[d] = disk[d]
        BY <2>2, <2>3, <3>2, <3>3
      <4>2. QED
        BY <3>1, <4>1 DEF Settled
    <3>4. CASE disk[d] # Absent
      <4>1. AstAfter(disk[d]).kind # "unopened"
        BY <3>1, AfterSame
      <4>2. View'[d] = AstAfter(disk[d])
        BY <2>2, <2>3, <3>2, <3>4, <4>1 DEF Unopened
      <4>3. ModelOf(View'[d]) = ModelOf(disk[d]) /\ (NoneNested => View'[d] = disk[d])
        BY <3>1, <4>2, AfterSame DEF FilesAllowed
      <4>4. QED
        BY <3>1, <4>3 DEF Settled
    <3>5. QED
      BY <3>3, <3>4
  <2>5. QED
    BY <1>1, <2>2, <2>3, <2>4 DEF SoundInv, Sound, SoundIn
<1>3. CASE ~NothingGarbled(disk)
  <2>1. key' = FailedLoad.key
    BY <1>3 DEF ResetAndReload, Become
  <2>2. Dead'
    BY <1>3, <2>1 DEF FailedLoad, Dead
  <2>3. QED
    BY <1>1, <2>2 DEF SoundInv
<1>4. QED
  BY <1>2, <1>3

\* The root's list with the fresh model of one ECU.
LEMMA RootSound ==
  ASSUME model = ListOf(ECU, ecuModel), NEW ws, NEW e \in ECU,
         ws.model = model, ws.key[<<e, Dir>>] = Rank(ECU, e),
         ws.ecuModel[e] # NoModel,
         \A c \in ECU : c # e => ws.ecuModel[c] = ecuModel[c]
  PROVE  RootList(ws, e) = ListOf(ECU, ws.ecuModel)
<1> DEFINE g == ws.ecuModel
<1>1. ECU \in SUBSET Int /\ IsFiniteSet(ECU)
  BY SizeAssumption, FS_Interval DEF ECU
<1>2. \A c \in ECU : c # e => g[c] = ecuModel[c]
  OBVIOUS
<1>3. RootList(ws, e) = Splice(ListOf(ECU, ecuModel), Rank(ECU, e), g[e])
  BY DEF RootList
<1> HIDE DEF g
<1>4. Splice(ListOf(ECU, ecuModel), Rank(ECU, e), g[e]) = ListOf(ECU, g)
  BY <1>1, <1>2, SpliceListOf
<1>5. QED
  BY <1>3, <1>4 DEF g

LEMMA PartialSound ==
  ASSUME TypeInv, FilesAllowed, Sound, NEW d \in Doc, key[d] # NoNode,
         disk[d].kind \notin {"absent", "garbled"},
         Become([UpdateEcu(d) EXCEPT !.model = RootList(UpdateEcu(d), d[1])]),
         disk' = disk, pending' = pending \ {d}
  PROVE  Sound'
<1> DEFINE ws   == UpdateEcu(d)
           e    == d[1]
           asts == [ast EXCEPT ![d] = AstAfter(disk[d])]
           seen == Seen(asts)
<1>1. /\ ast' = ws.ast /\ key' = ws.key /\ ecuModel' = ws.ecuModel
      /\ model' = RootList(ws, e)
  <2>1. ws = [ast |-> ws.ast, key |-> ws.key, diags |-> ws.diags,
              ecuModel |-> ws.ecuModel, model |-> ws.model, returned |-> ws.returned]
    BY DEF UpdateEcu, ReloadEcu, ReloadDocument
  <2> HIDE DEF ws
  <2>2. QED
    BY <2>1 DEF Become, ws
<1>2. e \in ECU /\ d = <<e, d[2]>> /\ d \in Node
  BY NodeParts
<1>3. /\ ast \in [Doc -> Content] /\ disk \in [Doc -> Content]
      /\ ecuModel \in [ECU -> EcuValue]
      /\ \A c \in Doc : disk[c].kind # "unopened"
  BY ContentType DEF TypeInv, TypeOK, Text
<1>4. /\ \A c \in Doc : ast[c].kind # "garbled"
      /\ \A x \in ECU : key[<<x, Dir>>] = Rank(ECU, x)
      /\ model = ListOf(ECU, ecuModel)
      /\ \A c \in Doc \ pending : Settled(c)
  BY DEF Sound
<1>5. /\ \A x \in ECU : Placed(ws.ast, ws.key, ws.ecuModel[x], x)
      /\ ws.model = model
      /\ \A x \in ECU : ws.key[<<x, Dir>>] = key[<<x, Dir>>]
      /\ \A x \in ECU : x # e => ws.ecuModel[x] = ecuModel[x]
      /\ \A c \in Doc : \/ c # d /\ ws.ast[c] = ast[c]
                        \/ c = d /\ ws.ast[c] = AstAfter(disk[c])
                        \/ c = d /\ ws.ast[c] = AstAfter(AstAfter(disk[c]))
                        \/ /\ c # d /\ ast[c] = Unopened
                           /\ disk[c] # Absent /\ disk[c].kind # "garbled"
                           /\ ws.ast[c] = AstAfter(disk[c])
                        \/ c # d /\ ast[c] # Unopened /\ ws.ast[c] = AstAfter(ast[c])
  <2>1. CASE RebuildEcu(d) # NoModel
    <3>1. /\ \A x \in ECU : Placed(ws.ast, ws.key, ws.ecuModel[x], x)
          /\ ws.key = key /\ ws.model = model
          /\ ws.ast = [ast EXCEPT ![d] = AstAfter(disk[d])]
          /\ ws.ecuModel = [ecuModel EXCEPT ![d[1]] = RebuildEcu(d)]
      BY <2>1, RebuiltSound
    <3> HIDE DEF ws
    <3>2. QED
      BY <1>2, <1>3, <3>1
  <2>2. CASE RebuildEcu(d) = NoModel
    <3>1. /\ \A x \in ECU : Placed(ws.ast, ws.key, ws.ecuModel[x], x)
          /\ ws.model = model
          /\ \A x \in ECU : ws.key[<<x, Dir>>] = key[<<x, Dir>>]
          /\ \A x \in ECU : x # e => ws.ecuModel[x] = ecuModel[x]
          /\ \A c \in Doc : \/ ws.ast[c] = asts[c] /\ c # d
                            \/ /\ disk[c] # Absent /\ seen[c].kind \notin {"absent", "garbled"}
                               /\ ws.ast[c] = AstAfter(seen[c])
      BY <2>2, ReloadedSound
    <3>2. \A c \in Doc : /\ asts[c] = IF c = d THEN AstAfter(disk[d]) ELSE ast[c]
                         /\ seen[c] = IF disk[c] = Absent THEN Absent
                                      ELSE IF asts[c] = Unopened THEN disk[c] ELSE asts[c]
      BY <1>3 DEF Seen
    <3> HIDE DEF ws, asts, seen
    <3>3. QED
      BY <3>1, <3>2
  <2>3. QED
    BY <2>1, <2>2
<1> HIDE DEF ws, asts, seen
<1>6. \A x \in ECU : key'[<<x, Dir>>] = Rank(ECU, x) /\ Placed(ast', key', ecuModel'[x], x)
  BY <1>1, <1>4, <1>5
<1>7. model' = ListOf(ECU, ecuModel')
  <2>1. ws.ecuModel[e] # NoModel
    BY <1>2, <1>5, NoneAssumption DEF Placed
  <2>2. RootList(ws, e) = ListOf(ECU, ws.ecuModel)
    <3> HIDE DEF e
    <3>1. QED
      BY <1>2, <1>4, <1>5, <2>1, RootSound
  <2>3. QED
    BY <1>1, <2>2
<1>8. \A c \in Doc : /\ ModelOf(AstAfter(disk[c])) = ModelOf(disk[c])
                     /\ ModelOf(AstAfter(AstAfter(disk[c]))) = ModelOf(disk[c])
                     /\ ModelOf(AstAfter(ast[c])) = ModelOf(ast[c])
                     /\ disk[c].kind # "garbled" =>
                          /\ AstAfter(disk[c]).kind # "garbled"
                          /\ AstAfter(AstAfter(disk[c])).kind # "garbled"
                     /\ ast[c].kind # "garbled" => AstAfter(ast[c]).kind # "garbled"
                     /\ AstAfter(disk[c]) # Unopened /\ AstAfter(AstAfter(disk[c])) # Unopened
                     /\ ast[c] # Unopened => AstAfter(ast[c]) # Unopened
                     /\ disk[c].kind # "nested" =>
                          AstAfter(disk[c]) = disk[c] /\ AstAfter(AstAfter(disk[c])) = disk[c]
                     /\ ast[c].kind # "nested" => AstAfter(ast[c]) = ast[c]
  <2> TAKE c \in Doc
  <2>1. disk[c] \in Content /\ disk[c].kind # "unopened" /\ ast[c] \in Content
    BY <1>3
  <2>2. ASSUME NEW x \in Content
        PROVE  /\ AstAfter(x) \in Content /\ ModelOf(AstAfter(x)) = ModelOf(x)
               /\ x.kind # "garbled" => AstAfter(x).kind # "garbled"
               /\ x.kind # "unopened" => AstAfter(x).kind # "unopened"
               /\ x.kind # "nested" => AstAfter(x) = x
               /\ x.kind = "unopened" <=> x = Unopened
    BY AfterSame, Kinds
  <2>3. QED
    BY <2>1, <2>2
<1>9. \A c \in Doc : ast'[c].kind # "garbled"
  BY <1>1, <1>4, <1>5, <1>8
<1>10. ASSUME NEW c \in Doc \ pending' PROVE Settled(c)'
  <2>1. View'[c] = (IF ast'[c] = Unopened THEN Absent ELSE ast'[c])
        /\ View[c] = (IF ast[c] = Unopened THEN Absent ELSE ast[c])
    BY DEF View
  <2>2. NoneNested => disk[c].kind # "nested"
    BY DEF FilesAllowed
  <2>3. c # d => /\ ModelOf(View[c]) = ModelOf(disk[c]) /\ disk[c].kind # "garbled"
                 /\ NoneNested => View[c] = disk[c]
    BY <1>4 DEF Settled
  <2>4. ModelOf(Absent) = NoModel
    BY DEF ModelOf, Usable, Absent
  <2>5. /\ ModelOf(View'[c]) = ModelOf(disk[c]) /\ disk[c].kind # "garbled"
        /\ NoneNested => View'[c] = disk[c]
    <3>1. CASE c # d /\ ws.ast[c] = ast[c]
      BY <1>1, <2>1, <2>3, <3>1
    <3>2. CASE c = d /\ ws.ast[c] \in {AstAfter(disk[c]), AstAfter(AstAfter(disk[c]))}
      BY <1>1, <1>8, <2>1, <2>2, <3>2
    <3>3. CASE /\ c # d /\ ast[c] = Unopened /\ disk[c] # Absent
               /\ ws.ast[c] = AstAfter(disk[c])
      BY <1>1, <1>8, <2>1, <2>2, <2>3, <3>3
    <3>4. CASE c # d /\ ast[c] # Unopened /\ ws.ast[c] = AstAfter(ast[c])
      BY <1>1, <1>8, <2>1, <2>2, <2>3, <3>4
    <3>5. QED
      BY <1>5, <3>1, <3>2, <3>3, <3>4
  <2>6. QED
    BY <2>5 DEF Settled
<1>11. QED
  BY <1>6, <1>7, <1>9, <1>10 DEF Sound

LEMMA AllowedEdit ==
  ASSUME BrokenSwitches, TypeInv, FilesAllowed, NEW d \in Doc, EditFile(d)
  PROVE  FilesAllowed'
<1>1. PICK c \in Writable(d) : disk' = [disk EXCEPT ![d] = c]
  BY DEF EditFile
<1>2. \A b \in Doc : disk'[b] = IF b = d THEN c ELSE disk[b]
  BY <1>1 DEF TypeInv, TypeOK
<1>3. /\ c.kind = "garbled" => d[2] = Meta
      /\ NoneNested => c.kind # "nested"
      /\ d[2] = Meta => c.kind \in Loadable \cup {"garbled"}
  BY DEF Writable, BrokenSwitches, NoneNested
<1>4. \A e \in ECU : <<e, Meta>> \in Doc /\ <<e, Meta>>[2] = Meta
  BY NodeParts, SizeAssumption DEF Meta
<1>5. QED
  BY <1>2, <1>3, <1>4 DEF FilesAllowed

LEMMA SoundStep == BrokenSwitches /\ TypeInv /\ SoundInv /\ [Next]_vars => SoundInv'
<1> SUFFICES ASSUME BrokenSwitches, TypeInv, SoundInv, [Next]_vars PROVE SoundInv'
  OBVIOUS
<1>1. FilesAllowed
  BY DEF SoundInv
<1>2. ASSUME NEW d \in Doc, EditFile(d) PROVE SoundInv'
  <2>1. FilesAllowed'
    BY <1>1, <1>2, AllowedEdit
  <2>2. /\ UNCHANGED wsVars /\ pending' = pending \cup {d}
        /\ \A b \in Doc \ pending' : b \in Doc \ pending /\ disk'[b] = disk[b]
    BY <1>2 DEF EditFile, TypeInv, TypeOK
  <2>3. Dead => Dead'
    BY <2>2 DEF Dead, wsVars
  <2>4. ASSUME Sound PROVE Sound'
    <3>1. /\ ast' = ast /\ key' = key /\ ecuModel' = ecuModel /\ model' = model
          /\ View' = View
      BY <2>2 DEF wsVars, View
    <3>2. \A b \in Doc \ pending' : Settled(b)'
      BY <2>2, <2>4, <3>1 DEF Sound, Settled
    <3>3. QED
      BY <2>4, <3>1, <3>2 DEF Sound
  <2>5. QED
    BY <2>1, <2>3, <2>4 DEF SoundInv
<1>3. ASSUME NEW d \in Doc, UpdateDocument(d) PROVE SoundInv'
  <2>1. disk' = disk /\ pending' = pending \ {d}
    BY <1>3 DEF UpdateDocument
  <2>2. CASE ResetAndReload
    BY <1>1, <2>1, <2>2, ResetSound
  <2>3. CASE ~ResetAndReload
    <3>1. /\ key[d] # NoNode /\ disk[d].kind \notin {"absent", "garbled"}
          /\ Become([UpdateEcu(d) EXCEPT !.model = RootList(UpdateEcu(d), d[1])])
      BY <1>3, <2>3 DEF UpdateDocument, PartialReload
    <3>2. Sound
      BY <3>1, NodeParts DEF SoundInv, Dead
    <3>3. Sound'
      BY <1>1, <2>1, <3>1, <3>2, PartialSound
    <3>4. FilesAllowed'
      BY <1>1, <2>1 DEF FilesAllowed
    <3>5. QED
      BY <3>3, <3>4 DEF SoundInv
  <2>4. QED
    BY <2>2, <2>3
<1>4. CASE UNCHANGED vars
  <2>1. /\ UNCHANGED <<disk, pending, ast, key, ecuModel, model>> /\ View' = View
    BY <1>4 DEF vars, View
  <2>2. FilesAllowed' /\ (Dead => Dead')
    BY <1>1, <2>1 DEF FilesAllowed, Dead
  <2>3. Sound => Sound'
    BY <2>1 DEF Sound, Settled
  <2>4. QED
    BY <2>2, <2>3 DEF SoundInv
<1>5. QED
  BY <1>2, <1>3, <1>4 DEF Next

\* However switch files break and get mended, as long as they stay YAML and the
\* metadata of the ECUs loads: once every change was reported, the model shows
\* no ECU and no file twice, and of every document it shows what the file says
\* now.  (Some of them may be missing from it: see InSync.)
THEOREM ModelStaysSound == BrokenSwitches => (Spec => []ModelSound)
<1> SUFFICES ASSUME BrokenSwitches PROVE Spec => []ModelSound
  OBVIOUS
<1>1. Init => TypeInv /\ SoundInv
  BY TypeInit, SoundInit
<1>2. TypeInv /\ SoundInv /\ [Next]_vars => (TypeInv /\ SoundInv)'
  BY TypeStep, SoundStep
<1>3. TypeInv /\ SoundInv => ModelSound
  BY SoundImpliesModelSound
<1>4. QED
  BY <1>1, <1>2, <1>3, PTL DEF Spec

-----------------------------------------------------------------------------
(* Diagnostics of broken workspaces.                                       *)

LEMMA ErrorsPartial ==
  ASSUME TypeInv, FilesAllowed, Sound, ErrorsListed, NoneNested,
         NEW d \in Doc, key[d] # NoNode, disk[d].kind \notin {"absent", "garbled"},
         Become([UpdateEcu(d) EXCEPT !.model = RootList(UpdateEcu(d), d[1])]),
         disk' = disk, pending' = pending \ {d}
  PROVE  ErrorsListed'
<1> DEFINE ws   == UpdateEcu(d)
           asts == [ast EXCEPT ![d] = AstAfter(disk[d])]
           seen == Seen(asts)
<1>1. diags' = ws.diags
  <2>1. ws = [ast |-> ws.ast, key |-> ws.key, diags |-> ws.diags,
              ecuModel |-> ws.ecuModel, model |-> ws.model, returned |-> ws.returned]
    BY DEF UpdateEcu, ReloadEcu, ReloadDocument
  <2> HIDE DEF ws
  <2>2. QED
    BY <2>1 DEF Become, ws
<1>2. d \in Node /\ <<d[1], Dir>> \notin Doc /\ Doc \subseteq Node
  BY NodeParts, SizeAssumption DEF Dir, Doc, Node
<1>3. /\ ast \in [Doc -> Content] /\ disk \in [Doc -> Content]
      /\ diags \in [Node -> {"absent", "clean", "error"}]
      /\ \A c \in Doc : disk[c].kind # "unopened"
  BY ContentType DEF TypeInv, TypeOK, Text
<1>4. \A c \in Doc \ pending : DiagOf(disk[c]) = "error" => diags[c] = "error"
  BY <1>2 DEF ErrorsListed, Dead
<1>5. \A c \in Doc \ pending : disk[c] = IF ast[c] = Unopened THEN Absent ELSE ast[c]
  BY DEF Sound, Settled, View
<1>6. AstAfter(disk[d]) = disk[d]
  BY <1>3, AfterSame DEF FilesAllowed
<1>7. SUFFICES ASSUME NEW c \in Doc \ pending', DiagOf(disk[c]) = "error"
               PROVE  ws.diags[c] = "error"
  BY <1>1 DEF ErrorsListed
<1>8. CASE RebuildEcu(d) # NoModel
  <2>1. ws.diags = [diags EXCEPT ![d] = DiagOf(disk[d]), ![<<d[1], Dir>>] = "clean"]
    BY <1>8 DEF UpdateEcu, ReloadDocument
  <2> HIDE DEF ws
  <2>2. ws.diags[c] = IF c = d THEN DiagOf(disk[d]) ELSE diags[c]
    BY <1>2, <1>3, <2>1
  <2>3. QED
    BY <1>4, <1>7, <2>2
<1>9. CASE RebuildEcu(d) = NoModel
  <2>1. /\ \A b \in Doc : b[1] = d[1] /\ seen[b].kind \notin {"absent", "garbled"}
                          => ws.diags[b] = DiagOf(seen[b])
        /\ \A b \in Doc : b[1] # d[1] => ws.diags[b] = diags[b]
    BY <1>9, ReloadedSound
  <2>2. disk[c].kind \notin {"absent", "garbled", "unopened"}
    BY <1>7 DEF DiagOf
  <2>3. CASE c[1] # d[1]
    <3>1. c # d
      BY <2>3
    <3>2. QED
      BY <1>4, <1>7, <2>1, <2>3, <3>1
  <2>4. CASE c[1] = d[1]
    <3>1. seen[c] = disk[c]
      <4>1. disk[c] # Absent /\ disk[c] # Unopened
        BY <2>2 DEF Absent, Unopened
      <4>2. asts[c] = disk[c]
        BY <1>3, <1>5, <1>6, <1>7, <4>1
      <4>3. QED
        BY <4>1, <4>2 DEF Seen
    <3>2. QED
      BY <1>7, <2>1, <2>2, <2>4, <3>1
  <2>5. QED
    BY <2>3, <2>4
<1>10. QED
  BY <1>8, <1>9

LEMMA ErrorsBrokenStep ==
  ASSUME NoneNested, TypeInv, SoundInv, ErrorsListed, [Next]_vars
  PROVE  ErrorsListed'
<1>1. ASSUME NEW d \in Doc, EditFile(d) PROVE ErrorsListed'
  <2>1. /\ \A b \in Doc \ pending' : b \in Doc \ pending /\ disk'[b] = disk[b]
        /\ pending' = pending \cup {d} /\ diags' = diags /\ key' = key
    BY <1>1 DEF EditFile, wsVars, TypeInv, TypeOK
  <2>2. QED
    BY <2>1 DEF ErrorsListed, Dead
<1>2. ASSUME NEW d \in Doc, UpdateDocument(d) PROVE ErrorsListed'
  <2>1. disk' = disk /\ pending' = pending \ {d}
    BY <1>2 DEF UpdateDocument
  <2>2. CASE ResetAndReload /\ NothingGarbled(disk)
    <3>1. diags' = FullLoad.diags
      BY <2>2 DEF ResetAndReload, Become
    <3>2. \A b \in Doc : DiagOf(disk[b]) = "error" => diags'[b] = "error"
      BY <2>2, <3>1, FullLoadDiags
    <3>3. QED
      BY <2>1, <3>2 DEF ErrorsListed
  <2>3. CASE ResetAndReload /\ ~NothingGarbled(disk)
    <3>1. \A n \in Node : key'[n] = NoNode
      BY <2>3 DEF ResetAndReload, Become, FailedLoad
    <3>2. QED
      BY <2>1, <2>3, <3>1 DEF ErrorsListed, Dead
  <2>4. CASE ~ResetAndReload
    <3>1. /\ key[d] # NoNode /\ disk[d].kind \notin {"absent", "garbled"}
          /\ Become([UpdateEcu(d) EXCEPT !.model = RootList(UpdateEcu(d), d[1])])
      BY <1>2, <2>4 DEF UpdateDocument, PartialReload
    <3>2. Sound /\ FilesAllowed
      BY <3>1, NodeParts DEF SoundInv, Dead
    <3>3. QED
      BY <2>1, <3>1, <3>2, ErrorsPartial
  <2>5. QED
    BY <2>2, <2>3, <2>4
<1>3. CASE UNCHANGED vars
  BY <1>3 DEF vars, ErrorsListed, Dead
<1>4. QED
  BY <1>1, <1>2, <1>3 DEF Next

\* Nor does an error get lost among broken switch files: a reload of the whole
\* directory lists again what is wrong with its documents, although it does
\* not read them again.  (It forgets the errors that lie below the top level
\* of a document: those are pruned from the cached AST.)
THEOREM BrokenErrorsStayReported == BrokenSwitches /\ NoneNested => (Spec => []ErrorsReported)
<1> SUFFICES ASSUME BrokenSwitches, NoneNested PROVE Spec => []ErrorsReported
  OBVIOUS
<1>1. Init => TypeInv /\ SoundInv /\ ErrorsListed
  BY TypeInit, SoundInit, ErrorsInit
<1>2. TypeInv /\ SoundInv /\ ErrorsListed /\ [Next]_vars => (TypeInv /\ SoundInv /\ ErrorsListed)'
  BY TypeStep, SoundStep, ErrorsBrokenStep
<1>3. ErrorsListed => ErrorsReported
  BY DEF ErrorsListed, ErrorsReported, Dead
<1>4. QED
  BY <1>1, <1>2, <1>3, PTL DEF Spec

-----------------------------------------------------------------------------
(* The object map: whatever the model shows is found under its ids, in     *)
(* workspaces with broken files.                                           *)
(*                                                                         *)
(* The ids of two places have no common element and no document is above   *)
(* another place, so what a reload purges, registers and remaps is what it *)
(* is about and nothing else.  That holds as long as no name is a number:  *)
(* a file that is named 0 would take an id of the first one.               *)

\* No directory and no file has a position for a name.
NamesAreNoPositions ==
  \A k \in 0..(NE + NS) : /\ \A e \in ECU : EcuName[e] # ToString(k)
                          /\ \A i \in Item : FileName[i] # ToString(k)

Segment   == STRING \cup {"ecus", "switches", "ecu_metadata"}
Id        == Seq(Segment)
MapValues == ValueModel \cup EcuModel \cup {NoModel} \cup Seq(ItemModel) \cup Seq(EcuModel)
Maps      == UNION {[D -> MapValues] : D \in SUBSET Id}
Entries   == [ids : Seq(Id), value : MapValues]

Leads(map, ids, value) == \A id \in ToSet(ids) : id \in DOMAIN map /\ map[id] = value

\* The ids of an entry are all in a map, with its value, or none is.
Registered(map, x)   == Leads(map, x.ids, x.value)
Unregistered(map, x) == \A id \in ToSet(x.ids) : id \notin DOMAIN map
Whole(map, F)        == \A x \in F : Registered(map, x) \/ Unregistered(map, x)

NoneShared(F) == \A x, y \in F : x = y \/ ToSet(x.ids) \cap ToSet(y.ids) = {}

Extends(new, map) == \A id \in DOMAIN map : id \in DOMAIN new /\ new[id] = map[id]

LEMMA LeadsOf ==
  ASSUME NEW ids \in Seq(Id), NEW value
  PROVE  LeadsTo(ids, value) <=> Leads(objects, ids, value)
BY DEF LeadsTo, Leads, ToSet

LEMMA MapIs ==
  /\ \A map \in Maps : map \in [DOMAIN map -> MapValues] /\ DOMAIN map \subseteq Id
  /\ \A map : map = [id \in DOMAIN map |-> map[id]] /\ DOMAIN map \subseteq Id
              /\ (\A id \in DOMAIN map : map[id] \in MapValues) => map \in Maps
<1>1. ASSUME NEW map \in Maps PROVE map \in [DOMAIN map -> MapValues] /\ DOMAIN map \subseteq Id
  BY DEF Maps
<1>2. ASSUME NEW map, map = [id \in DOMAIN map |-> map[id]], DOMAIN map \subseteq Id,
             \A id \in DOMAIN map : map[id] \in MapValues
      PROVE  map \in Maps
  <2>1. map \in [DOMAIN map -> MapValues]
    BY <1>2
  <2>2. QED
    BY <1>2, <2>1 DEF Maps
<1>3. QED
  BY <1>1, <1>2

\* The ids that are registered.
LEMMA RegisterIs ==
  ASSUME NEW map \in Maps, NEW x \in Entries
  PROVE  LET new == Register(map, x.ids, x.value) IN
         /\ new \in Maps
         /\ Extends(new, map)
         /\ \A id \in DOMAIN new \ DOMAIN map : id \in ToSet(x.ids) /\ new[id] = x.value
         /\ Unregistered(map, x) => ToSet(x.ids) \subseteq DOMAIN new
         /\ Registered(map, x) => new = map
<1> DEFINE ids == x.ids
           v == x.value
           K == {k \in DOMAIN ids : \A j \in 1..k : ids[j] \notin DOMAIN map}
           D == {ids[k] : k \in K}
           new == [id \in D \cup DOMAIN map |-> IF id \in D THEN v ELSE map[id]]
<1>1. Register(map, ids, v) = new
  BY DEF Register
<1>2. ids \in Seq(Id) /\ v \in MapValues
  BY DEF Entries
<1>3. DOMAIN ids = 1..Len(ids) /\ Len(ids) \in Nat /\ \A k \in DOMAIN ids : ids[k] \in Id
  BY <1>2
<1>4. \A k \in K : k \in DOMAIN ids /\ ids[k] \notin DOMAIN map
  BY <1>3
<1>5. D \cap DOMAIN map = {} /\ D \subseteq ToSet(ids) /\ D \subseteq Id
  BY <1>3, <1>4 DEF ToSet
<1>6. ASSUME Unregistered(map, x) PROVE ToSet(ids) \subseteq D
  <2>1. \A k \in DOMAIN ids : ids[k] \notin DOMAIN map
    BY <1>6 DEF Unregistered, ToSet
  <2>2. \A k \in DOMAIN ids : \A j \in 1..k : j \in DOMAIN ids
    BY <1>3
  <2>3. \A k \in DOMAIN ids : k \in K
    BY <2>1, <2>2
  <2>4. QED
    BY <2>3 DEF ToSet
<1>7. ASSUME Registered(map, x) PROVE D = {}
  <2>1. \A k \in DOMAIN ids : ids[k] \in DOMAIN map
    BY <1>7 DEF Registered, Leads, ToSet
  <2>2. QED
    BY <1>4, <2>1
<1>8. map \in [DOMAIN map -> MapValues] /\ DOMAIN map \subseteq Id
  BY MapIs
<1> HIDE DEF D, K
<1>9. /\ DOMAIN new = D \cup DOMAIN map
      /\ \A id \in D : new[id] = v
      /\ \A id \in DOMAIN map : new[id] = map[id]
      /\ new = [id \in DOMAIN new |-> new[id]]
  BY <1>5
<1>10. D = {} => new = map
  BY <1>8
<1> HIDE DEF new
<1>11. new \in Maps
  <2>1. \A id \in DOMAIN new : new[id] \in MapValues
    BY <1>2, <1>8, <1>9
  <2>2. QED
    BY <1>5, <1>8, <1>9, <2>1, MapIs
<1>12. Register(map, x.ids, x.value) = new
  BY <1>1
<1> HIDE DEF ids, v
<1>13. QED
  BY <1>5, <1>6, <1>7, <1>9, <1>10, <1>11, <1>12 DEF Extends, ids, v

\* An entry of a family of which no two share ids.
LEMMA RegisterWhole ==
  ASSUME NEW F, F \subseteq Entries, NoneShared(F), NEW map \in Maps, Whole(map, F), NEW x \in F
  PROVE  LET new == Register(map, x.ids, x.value) IN
         new \in Maps /\ Whole(new, F) /\ Registered(new, x) /\ Extends(new, map)
<1> DEFINE new == Register(map, x.ids, x.value)
<1>1. /\ new \in Maps /\ Extends(new, map)
      /\ \A id \in DOMAIN new \ DOMAIN map : id \in ToSet(x.ids) /\ new[id] = x.value
      /\ Unregistered(map, x) => ToSet(x.ids) \subseteq DOMAIN new
      /\ Registered(map, x) => new = map
  BY RegisterIs
<1> HIDE DEF new
<1>2. Registered(new, x)
  <2>1. CASE Registered(map, x)
    BY <1>1, <2>1 DEF Registered, Leads, Extends
  <2>2. CASE Unregistered(map, x)
    BY <1>1, <2>2 DEF Registered, Leads, Unregistered
  <2>3. QED
    BY <2>1, <2>2 DEF Whole
<1>3. ASSUME NEW y \in F, y # x PROVE Registered(new, y) \/ Unregistered(new, y)
  <2>1. ToSet(x.ids) \cap ToSet(y.ids) = {}
    BY <1>3 DEF NoneShared
  <2>2. CASE Registered(map, y)
    BY <1>1, <2>2 DEF Registered, Leads, Extends
  <2>3. CASE Unregistered(map, y)
    BY <1>1, <2>1, <2>3 DEF Unregistered
  <2>4. QED
    BY <2>2, <2>3 DEF Whole
<1>4. QED
  BY <1>1, <1>2, <1>3 DEF Whole, new

LEMMA RegisterAllUnfolds ==
  ASSUME NEW map \in Maps, NEW entries \in Seq(Entries)
  PROVE  \E after \in [0..Len(entries) -> Maps] :
           /\ after[0] = map
           /\ \A k \in 1..Len(entries) :
                after[k] = Register(after[k - 1], entries[k].ids, entries[k].value)
           /\ RegisterAll(map, entries) = after[Len(entries)]
<1> DEFINE n == Len(entries)
           step == [p \in (1..n) \X Maps |-> Register(p[2], entries[p[1]].ids, entries[p[1]].value)]
           Rec(b) == b = [k \in 0..n |-> IF k = 0 THEN map
                                         ELSE Register(b[k - 1], entries[k].ids, entries[k].value)]
           after == CHOOSE b : Rec(b)
<1>1. n \in Nat /\ \A k \in 1..n : entries[k] \in Entries
  BY ElementOfSeq
<1> HIDE DEF n
<1>2. step \in Steps(Maps, n)
  <2>1. \A p \in (1..n) \X Maps : Register(p[2], entries[p[1]].ids, entries[p[1]].value) \in Maps
    BY <1>1, RegisterIs
  <2>2. QED
    BY <2>1 DEF Steps
<1>3. PICK f : IsRun(f, Maps, n, map, step)
  <2> HIDE DEF step
  <2>1. QED
    BY <1>1, <1>2, Recursion
<1>4. f \in [0..n -> Maps] /\ f[0] = map
  BY <1>3 DEF IsRun
<1>5. \A k \in 1..n : f[k] = Register(f[k - 1], entries[k].ids, entries[k].value)
  <2>1. TAKE k \in 1..n
  <2>2. k - 1 \in 0..n
    BY <1>1
  <2>3. <<k, f[k - 1]>> \in (1..n) \X Maps
    BY <1>4, <2>2
  <2>4. step[<<k, f[k - 1]>>] = Register(f[k - 1], entries[k].ids, entries[k].value)
    BY <2>3
  <2>5. QED
    BY <1>3, <2>4 DEF IsRun
<1>6. Rec(f)
  <2>1. \A k \in 0..n : f[k] = IF k = 0 THEN map ELSE Register(f[k - 1], entries[k].ids, entries[k].value)
    <3>1. \A k \in 0..n : k # 0 => k \in 1..n
      BY <1>1
    <3>2. QED
      BY <1>4, <1>5, <3>1
  <2>2. QED
    BY <1>4, <2>1
<1>7. Rec(after)
  <2> HIDE DEF Rec
  <2>1. QED
    BY <1>6
<1>8. RegisterAll(map, entries) = after[n]
  BY DEF RegisterAll, n
<1> HIDE DEF after, step
<1>9. ASSUME NEW k \in 0..n, k # 0 PROVE k \in 1..n /\ k - 1 \in 0..n
  BY <1>1, <1>9
<1>10. after[0] = map /\ \A k \in 1..n : after[k] = Register(after[k - 1], entries[k].ids, entries[k].value)
  BY <1>1, <1>7
<1>11. after \in [0..n -> Maps]
  <2> DEFINE T == {k \in 0..n : after[k] = f[k]}
  <2>1. 0 \in T
    BY <1>1, <1>4, <1>10
  <2>2. \A k \in 1..n : k - 1 \in T => k \in T
    BY <1>1, <1>5, <1>10
  <2> HIDE DEF T
  <2>3. 0..n \subseteq T
    BY <1>1, <2>1, <2>2, UpTo
  <2>4. \A k \in 0..n : after[k] \in Maps
    BY <1>4, <2>3 DEF T
  <2>5. after = [k \in 0..n |-> after[k]]
    <3> DEFINE h == [k \in 0..n |-> IF k = 0 THEN map
                                    ELSE Register(after[k - 1], entries[k].ids, entries[k].value)]
    <3>1. after = h
      BY <1>7
    <3>2. h = [k \in 0..n |-> h[k]]
      OBVIOUS
    <3>3. QED
      BY <3>1, <3>2
  <2>6. QED
    BY <2>4, <2>5
<1>12. QED
  BY <1>8, <1>10, <1>11 DEF n

LEMMA RegisterAllWhole ==
  ASSUME NEW F, F \subseteq Entries, NoneShared(F), NEW map \in Maps, Whole(map, F), NEW entries \in Seq(F)
  PROVE  LET new == RegisterAll(map, entries) IN
         /\ new \in Maps /\ Extends(new, map)
         /\ \A x \in ToSet(entries) : Registered(new, x)
<1> DEFINE n == Len(entries)
           Good(k, m) == /\ Whole(m, F) /\ Extends(m, map)
                         /\ \A j \in 1..k : Registered(m, entries[j])
<1>1. entries \in Seq(Entries) /\ n \in Nat /\ \A k \in 1..n : entries[k] \in F
  BY SeqInto, ElementOfSeq
<1>2. PICK after \in [0..n -> Maps] :
           /\ after[0] = map
           /\ \A k \in 1..n : after[k] = Register(after[k - 1], entries[k].ids, entries[k].value)
           /\ RegisterAll(map, entries) = after[n]
  BY <1>1, RegisterAllUnfolds
<1> DEFINE T == {k \in 0..n : Good(k, after[k])}
<1>3. 0 \in T
  BY <1>1, <1>2 DEF Extends
<1>4. ASSUME NEW k \in 1..n, k - 1 \in T PROVE k \in T
  <2> DEFINE m == after[k - 1]
             new == after[k]
             x == entries[k]
  <2>1. /\ Good(k - 1, m) /\ m \in Maps /\ x \in F /\ k \in 0..n
        /\ new = Register(m, x.ids, x.value)
    BY <1>1, <1>2, <1>4
  <2> HIDE DEF m, new, x
  <2>2. new \in Maps /\ Whole(new, F) /\ Registered(new, x) /\ Extends(new, m)
    BY <2>1, RegisterWhole
  <2>3. Extends(new, map)
    BY <2>1, <2>2 DEF Extends
  <2>4. \A j \in 1..k : Registered(new, entries[j])
    <3>1. TAKE j \in 1..k
    <3>2. CASE j = k
      BY <2>2, <3>2 DEF x
    <3>3. CASE j # k
      <4>1. j \in 1..(k - 1)
        BY <3>3
      <4>2. Registered(m, entries[j])
        BY <2>1, <4>1
      <4>3. QED
        BY <2>2, <4>2 DEF Extends, Registered, Leads
    <3>4. QED
      BY <3>2, <3>3
  <2>5. QED
    BY <2>1, <2>2, <2>3, <2>4 DEF new
<1>5. n \in T
  <2> HIDE DEF T
  <2>1. 0..n \subseteq T
    BY <1>1, <1>3, <1>4, UpTo
  <2>2. QED
    BY <1>1, <2>1
<1>6. \A x \in ToSet(entries) : \E k \in 1..n : x = entries[k]
  BY <1>1 DEF ToSet
<1>7. QED
  BY <1>1, <1>2, <1>5, <1>6

-----------------------------------------------------------------------------
(* Ids.                                                                    *)

LEMMA AppendIs ==
  ASSUME NEW S, NEW s \in Seq(S), NEW c \in S
  PROVE  /\ Append(s, c) \in Seq(S) /\ Len(Append(s, c)) = Len(s) + 1
         /\ \A i \in 1..Len(s) : Append(s, c)[i] = s[i]
         /\ Append(s, c)[Len(s) + 1] = c
BY AppendProperties

LEMMA AppendTo ==
  ASSUME NEW S, NEW s \in Seq(S), NEW t \in Seq(S), NEW c \in S, Len(t) = Len(s) + 1,
         \A i \in 1..Len(s) : t[i] = s[i], t[Len(t)] = c
  PROVE  Append(s, c) = t
<1>1. Len(Append(s, c)) = Len(t) /\ Append(s, c) \in Seq(S) /\ Len(s) \in Nat
  BY AppendIs
<1>2. \A i \in 1..Len(t) : Append(s, c)[i] = t[i]
  <2> TAKE i \in 1..Len(t)
  <2>1. CASE i = Len(s) + 1
    BY AppendIs, <2>1
  <2>2. CASE i # Len(s) + 1
    <3>1. i \in 1..Len(s)
      BY <1>1, <2>2
    <3>2. QED
      BY AppendIs, <3>1
  <2>3. QED
    BY <2>1, <2>2
<1>3. QED
  BY <1>1, <1>2, SeqEqual

LEMMA AppendShort ==
  ASSUME NEW S, NEW a \in S, NEW b \in S, NEW c \in S
  PROVE  /\ Append(<<a>>, b) = <<a, b>>
         /\ Append(<<a, b>>, c) = <<a, b, c>>
<1> DEFINE s == <<a>>
           t == <<a, b>>
           u == <<a, b, c>>
<1>1. s \in Seq(S) /\ t \in Seq(S) /\ u \in Seq(S)
  OBVIOUS
<1>2. Len(s) = 1 /\ Len(t) = 2 /\ Len(u) = 3
  OBVIOUS
<1>3. /\ s[1] = a
      /\ t[1] = a /\ t[2] = b
      /\ u[1] = a /\ u[2] = b /\ u[3] = c
  OBVIOUS
<1> HIDE DEF s, t, u
<1>4. (\A i \in 1..Len(s) : t[i] = s[i]) /\ (\A i \in 1..Len(t) : u[i] = t[i])
  BY <1>2, <1>3
<1>5. t[Len(t)] = b /\ u[Len(u)] = c
  BY <1>2, <1>3
<1>6. Len(t) = Len(s) + 1 /\ Len(u) = Len(t) + 1
  BY <1>2
<1>7. Append(s, b) = t /\ Append(t, c) = u
  BY <1>1, <1>4, <1>5, <1>6, AppendTo
<1>8. QED
  BY <1>7 DEF s, t, u

LEMMA PrefixIs ==
  ASSUME NEW p \in Id, NEW id \in Id
  PROVE  IsPrefix(p, id) <=> Len(p) <= Len(id) /\ \A k \in 1..Len(p) : p[k] = id[k]
<1>1. Len(p) \in Nat /\ Len(id) \in Nat
  BY DEF Id
<1>2. SubSeq(p, 1, Len(p)) = [k \in 1..Len(p) |-> p[k]]
  <2>1. SubSeq(p, 1, Len(p)) = p /\ p = [k \in 1..Len(p) |-> p[k]]
    BY DEF Id
  <2>2. QED
    BY <2>1
<1>3. ASSUME Len(p) <= Len(id) PROVE SubSeq(id, 1, Len(p)) = [k \in 1..Len(p) |-> id[k]]
  <2> DEFINE m == Len(p)
             q == SubSeq(id, 1, m)
  <2>1. /\ id \in Seq(Segment) /\ m \in Nat /\ m <= Len(id)
        /\ \A k \in 1..m : id[k] \in Segment
    BY <1>1, <1>3 DEF Id
  <2> HIDE DEF m
  <2>2. q \in Seq(Segment) /\ Len(q) = m /\ \A k \in 1..m : q[k] = id[k]
    BY <2>1, SubSeqProperties
  <2> HIDE DEF q
  <2>3. q = [k \in 1..m |-> q[k]]
    BY <2>2
  <2>4. QED
    BY <2>2, <2>3 DEF q, m
<1>4. QED
  BY <1>1, <1>2, <1>3 DEF IsPrefix

LEMMA Segments ==
  /\ \A a, b \in Segment : Append(<<a>>, b) = <<a, b>>
  /\ \A a, b, c \in Segment : Append(<<a, b>>, c) = <<a, b, c>>
  /\ \A a, b, c, d \in Segment : Append(<<a, b, c>>, d) = <<a, b, c, d>>
<1> HIDE DEF Segment
<1>1. ASSUME NEW a \in Segment, NEW b \in Segment PROVE Append(<<a>>, b) = <<a, b>>
  BY AppendShort
<1>2. ASSUME NEW a \in Segment, NEW b \in Segment, NEW c \in Segment
      PROVE  Append(<<a, b>>, c) = <<a, b, c>>
  BY AppendShort
<1>3. ASSUME NEW a \in Segment, NEW b \in Segment, NEW c \in Segment, NEW d \in Segment
      PROVE  Append(<<a, b, c>>, d) = <<a, b, c, d>>
  <2> DEFINE s == <<a, b, c>>
             t == <<a, b, c, d>>
  <2>1. s \in Seq(Segment) /\ t \in Seq(Segment)
    OBVIOUS
  <2>2. Len(s) = 3 /\ Len(t) = 4 /\ s[1] = a /\ s[2] = b /\ s[3] = c
    OBVIOUS
  <2>3. t[1] = a /\ t[2] = b /\ t[3] = c /\ t[4] = d
    OBVIOUS
  <2> HIDE DEF s, t
  <2>4. Len(t) = Len(s) + 1 /\ (\A i \in 1..Len(s) : t[i] = s[i]) /\ t[Len(t)] = d
    BY <2>2, <2>3
  <2>5. Append(s, d) = t
    BY <2>1, <2>4, AppendTo
  <2>6. QED
    BY <2>5 DEF s, t
<1>4. QED
  BY <1>1, <1>2, <1>3

LEMMA ExtendedIs ==
  ASSUME NEW ids \in Seq(Id), NEW segment \in Segment
  PROVE  /\ Extended(ids, segment) \in Seq(Id)
         /\ ids # << >> => Extended(ids, segment) # << >>
         /\ \A id : id \in ToSet(Extended(ids, segment)) <=> \E p \in ToSet(ids) : id = Append(p, segment)
<1> DEFINE n == Len(ids)
           s == [k \in 1..n |-> Append(ids[k], segment)]
<1>1. n \in Nat /\ DOMAIN ids = 1..n /\ \A k \in 1..n : ids[k] \in Id
  BY ElementOfSeq
<1>2. Extended(ids, segment) = s
  BY <1>1 DEF Extended
<1>3. \A k \in 1..n : Append(ids[k], segment) \in Id
  BY <1>1, AppendIs DEF Id
<1>4. s \in Seq(Id) /\ Len(s) = n /\ DOMAIN s = 1..n
  <2> HIDE DEF n
  <2>1. s \in [1..n -> Id]
    BY <1>3
  <2> HIDE DEF s
  <2>2. QED
    BY <1>1, <2>1
<1>5. ids # << >> => n # 0
  BY EmptySeq
<1>6. \A id : id \in ToSet(s) <=> \E p \in ToSet(ids) : id = Append(p, segment)
  BY <1>1, <1>4 DEF ToSet
<1>7. n # 0 => s # << >>
  BY <1>4
<1>8. QED
  BY <1>2, <1>4, <1>5, <1>6, <1>7

LEMMA ItemPathsIs ==
  ASSUME NEW ids \in Seq(Id), ids # << >>, NEW mark \in Segment, NEW name \in Segment
  PROVE  LET both == Extended(ids, mark) \o Extended(ids, name) IN
         /\ both \in Seq(Id) /\ both # << >>
         /\ \A id : id \in ToSet(both) <=> \E p \in ToSet(ids) : id = Append(p, mark) \/ id = Append(p, name)
<1> DEFINE a == Extended(ids, mark)
           b == Extended(ids, name)
<1>1. /\ a \in Seq(Id) /\ a # << >>
      /\ \A id : id \in ToSet(a) <=> \E p \in ToSet(ids) : id = Append(p, mark)
      /\ b \in Seq(Id)
      /\ \A id : id \in ToSet(b) <=> \E p \in ToSet(ids) : id = Append(p, name)
  BY ExtendedIs
<1> HIDE DEF a, b
<1>3. a \o b \in Seq(Id) /\ ToSet(a \o b) = ToSet(a) \cup ToSet(b)
  BY <1>1, ConcatSet
<1>4. a \o b # << >>
  <2>1. Len(a) # 0 /\ Len(a) \in Nat /\ Len(b) \in Nat
    BY <1>1, EmptySeq
  <2>2. Len(a \o b) = Len(a) + Len(b)
    BY <1>1
  <2>3. Len(a \o b) # 0
    BY <2>1, <2>2
  <2>4. QED
    BY <2>3
<1>5. \A id : id \in ToSet(a \o b) <=>
                \E p \in ToSet(ids) : id = Append(p, mark) \/ id = Append(p, name)
  BY <1>1, <1>3
<1>6. QED
  BY <1>3, <1>4, <1>5 DEF a, b

\* What the loader registers for an ECU: for its documents, for the list of its
\* switches and for itself.
List      == NS + 2
Segs(e)   == {ToString(e - 1), EcuName[e]}
Marks(S, i) == {ToString(Rank(S, i)), FileName[i]}

PlaceIds(e, S, n) ==
  IF n = Dir THEN {<<"ecus", s>> : s \in Segs(e)}
  ELSE IF n = List THEN {<<"ecus", s, "switches">> : s \in Segs(e)}
  ELSE IF n = Meta THEN {<<"ecus", s, "ecu_metadata">> : s \in Segs(e)}
  ELSE IF n \in S THEN {<<"ecus", st[1], "switches", st[2]>> : st \in Segs(e) \X Marks(S, n)}
  ELSE {}

LEMMA PlaceIdsAre ==
  ASSUME NEW e, NEW S
  PROVE  /\ \A id : id \in PlaceIds(e, S, Dir) <=> \E s \in Segs(e) : id = <<"ecus", s>>
         /\ \A id : id \in PlaceIds(e, S, List) <=> \E s \in Segs(e) : id = <<"ecus", s, "switches">>
         /\ \A id : id \in PlaceIds(e, S, Meta) <=> \E s \in Segs(e) : id = <<"ecus", s, "ecu_metadata">>
         /\ \A n \in Item \cap S : \A id : id \in PlaceIds(e, S, n) <=>
              \E s \in Segs(e), t \in Marks(S, n) : id = <<"ecus", s, "switches", t>>
         /\ \A n \in Item \ S : PlaceIds(e, S, n) = {}
<1>1. Dir # List /\ Dir # Meta /\ List # Meta /\ \A n \in Item : n # Dir /\ n # List /\ n # Meta
  BY SizeAssumption DEF Dir, List, Meta, Item
<1>2. /\ PlaceIds(e, S, Dir) = {<<"ecus", s>> : s \in Segs(e)}
      /\ PlaceIds(e, S, List) = {<<"ecus", s, "switches">> : s \in Segs(e)}
      /\ PlaceIds(e, S, Meta) = {<<"ecus", s, "ecu_metadata">> : s \in Segs(e)}
  BY <1>1 DEF PlaceIds
<1>3. ASSUME NEW n \in Item \cap S, NEW id
      PROVE  id \in PlaceIds(e, S, n) <=>
               \E s \in Segs(e), t \in Marks(S, n) : id = <<"ecus", s, "switches", t>>
  <2>1. PlaceIds(e, S, n) = {<<"ecus", st[1], "switches", st[2]>> : st \in Segs(e) \X Marks(S, n)}
    BY <1>1 DEF PlaceIds
  <2>2. ASSUME id \in PlaceIds(e, S, n)
        PROVE  \E s \in Segs(e), t \in Marks(S, n) : id = <<"ecus", s, "switches", t>>
    BY <2>1, <2>2
  <2>3. ASSUME NEW s \in Segs(e), NEW t \in Marks(S, n), id = <<"ecus", s, "switches", t>>
        PROVE  id \in PlaceIds(e, S, n)
    <3>1. <<s, t>> \in Segs(e) \X Marks(S, n) /\ <<s, t>>[1] = s /\ <<s, t>>[2] = t
      OBVIOUS
    <3>2. id = <<"ecus", <<s, t>>[1], "switches", <<s, t>>[2]>>
      BY <2>3
    <3>3. QED
      BY <2>1, <3>1, <3>2
  <2>4. QED
    BY <2>2, <2>3
<1>4. \A n \in Item \ S : PlaceIds(e, S, n) = {}
  BY <1>1 DEF PlaceIds
<1>5. QED
  BY <1>2, <1>3, <1>4

LEMMA SegsAre ==
  ASSUME NEW e \in ECU
  PROVE  /\ ToString(e - 1) \in Segment /\ EcuName[e] \in Segment
         /\ Segs(e) \subseteq Segment
         /\ "ecus" \in Segment /\ "switches" \in Segment /\ "ecu_metadata" \in Segment
<1>1. e - 1 \in 0..(NE + NS)
  BY SizeAssumption DEF ECU
<1>2. ToString(e - 1) \in Segment /\ EcuName[e] \in Segment
  BY <1>1, PositionAssumption, NameAssumption DEF Segment
<1>3. "ecus" \in Segment /\ "switches" \in Segment /\ "ecu_metadata" \in Segment
  BY DEF Segment
<1>4. QED
  BY <1>2, <1>3 DEF Segs

LEMMA EcuPathsAre ==
  ASSUME NEW e \in ECU
  PROVE  /\ EcuPaths(e) \in Seq(Id) /\ EcuPaths(e) # << >>
         /\ \A id : id \in ToSet(EcuPaths(e)) <=> \E s \in Segs(e) : id = <<"ecus", s>>
         /\ \A S : ToSet(EcuPaths(e)) = PlaceIds(e, S, Dir)
<1> HIDE DEF Segment
<1> DEFINE root == << <<"ecus">> >>
<1>1. root \in Seq(Id) /\ root # << >> /\ ToSet(root) = {<<"ecus">>}
  BY SegsAre DEF Id, ToSet
<1> DEFINE mark == ToString(e - 1)
           name == EcuName[e]
           both == Extended(root, mark) \o Extended(root, name)
<1>2. EcuPaths(e) = both
  BY DEF EcuPaths, ItemPaths
<1>3. mark \in Segment /\ name \in Segment /\ Segs(e) = {mark, name}
  BY SegsAre DEF Segs
<1> HIDE DEF root, mark, name
<1>4. /\ both \in Seq(Id) /\ both # << >>
      /\ \A id : id \in ToSet(both) <=> \E p \in ToSet(root) : id = Append(p, mark) \/ id = Append(p, name)
  BY <1>1, <1>3, ItemPathsIs
<1>5. \A s \in Segs(e) : Append(<<"ecus">>, s) = <<"ecus", s>>
  BY SegsAre, Segments
<1> HIDE DEF both
<1>6. \A id : id \in ToSet(EcuPaths(e)) <=> \E s \in Segs(e) : id = <<"ecus", s>>
  BY <1>1, <1>2, <1>3, <1>4, <1>5
<1>7. \A S : ToSet(EcuPaths(e)) = PlaceIds(e, S, Dir)
  <2> TAKE S
  <2>1. \A id : id \in ToSet(EcuPaths(e)) <=> id \in PlaceIds(e, S, Dir)
    BY <1>6, PlaceIdsAre
  <2>2. QED
    BY <2>1
<1>8. QED
  BY <1>2, <1>4, <1>6, <1>7

LEMMA ListPathsAre ==
  ASSUME NEW e \in ECU
  PROVE  /\ Extended(EcuPaths(e), "switches") \in Seq(Id)
         /\ Extended(EcuPaths(e), "switches") # << >>
         /\ \A id : id \in ToSet(Extended(EcuPaths(e), "switches")) <=>
                      \E s \in Segs(e) : id = <<"ecus", s, "switches">>
         /\ \A S : ToSet(Extended(EcuPaths(e), "switches")) = PlaceIds(e, S, List)
<1> DEFINE ids == Extended(EcuPaths(e), "switches")
<1>1. /\ EcuPaths(e) \in Seq(Id) /\ EcuPaths(e) # << >>
      /\ \A id : id \in ToSet(EcuPaths(e)) <=> \E s \in Segs(e) : id = <<"ecus", s>>
  BY EcuPathsAre
<1>2. /\ ids \in Seq(Id) /\ ids # << >>
      /\ \A id : id \in ToSet(ids) <=> \E p \in ToSet(EcuPaths(e)) : id = Append(p, "switches")
  BY <1>1, ExtendedIs, SegsAre
<1>3. \A s \in Segs(e) : Append(<<"ecus", s>>, "switches") = <<"ecus", s, "switches">>
  BY SegsAre, Segments
<1> HIDE DEF ids
<1>4. \A id : id \in ToSet(ids) <=> \E s \in Segs(e) : id = <<"ecus", s, "switches">>
  <2>1. ASSUME NEW id, id \in ToSet(ids) PROVE \E s \in Segs(e) : id = <<"ecus", s, "switches">>
    <3>1. PICK p \in ToSet(EcuPaths(e)) : id = Append(p, "switches")
      BY <1>2, <2>1
    <3>2. PICK s \in Segs(e) : p = <<"ecus", s>>
      BY <1>1, <3>1
    <3>3. QED
      BY <1>3, <3>1, <3>2
  <2>2. ASSUME NEW s \in Segs(e) PROVE <<"ecus", s, "switches">> \in ToSet(ids)
    <3>1. <<"ecus", s>> \in ToSet(EcuPaths(e))
      BY <1>1
    <3>2. QED
      BY <1>2, <1>3, <3>1
  <2>3. QED
    BY <2>1, <2>2
<1>5. \A S : ToSet(ids) = PlaceIds(e, S, List)
  <2> TAKE S
  <2>1. \A id : id \in ToSet(ids) <=> id \in PlaceIds(e, S, List)
    BY <1>4, PlaceIdsAre
  <2>2. QED
    BY <2>1
<1>6. QED
  BY <1>2, <1>4, <1>5 DEF ids

LEMMA PresentFinite ==
  ASSUME NEW S \in SUBSET Item
  PROVE  /\ S \in SUBSET Int /\ IsFiniteSet(S)
         /\ \A i \in Item : Rank(S, i) \in 0..(NE + NS)
<1>1. IsFiniteSet(Item) /\ Cardinality(Item) = NS
  BY SizeAssumption, FS_Interval DEF Item
<1>2. S \in SUBSET Int /\ IsFiniteSet(S) /\ Cardinality(S) <= NS
  <2>1. S \in SUBSET Item
    OBVIOUS
  <2>2. IsFiniteSet(S) /\ Cardinality(S) <= NS
    BY <1>1, <2>1, FS_Subset, Zenon
  <2>3. QED
    BY <2>2 DEF Item
<1>3. ASSUME NEW i \in Item PROVE Rank(S, i) \in 0..(NE + NS)
  <2>1. Rank(S, i) \in Nat /\ Rank(S, i) <= Cardinality(S) /\ Cardinality(S) \in Nat
    BY <1>2, RankType, FS_CardinalityType DEF Item
  <2>2. QED
    BY <1>2, <2>1, SizeAssumption
<1>4. QED
  BY <1>2, <1>3

LEMMA DocPathsAre ==
  ASSUME NEW seen, NEW e \in ECU, NEW i \in 0..NS, Raising(seen, e) = {}
  PROVE  LET ids == DocPaths(seen, <<e, i>>)
             S   == Present(seen, e)
         IN /\ ids \in Seq(Id)
            /\ ToSet(ids) = PlaceIds(e, S, i)
            /\ i \in S \cup {Meta} => ids # << >>
<1> HIDE DEF Segment
<1> DEFINE ids == DocPaths(seen, <<e, i>>)
           S   == Present(seen, e)
           E   == EcuPaths(e)
           W   == Extended(E, "switches")
<1>1. E \in Seq(Id) /\ E # << >> /\ \A id : id \in ToSet(E) <=> \E s \in Segs(e) : id = <<"ecus", s>>
  BY EcuPathsAre
<1>2. S = Visited(seen, e) /\ S \subseteq Item
  BY DEF Visited, Present
<1>3. Meta \notin Item /\ (i # Meta => i \in Item)
  BY SizeAssumption DEF Item, Meta
<1>4. W \in Seq(Id) /\ W # << >> /\ \A id : id \in ToSet(W) <=> \E s \in Segs(e) : id = <<"ecus", s, "switches">>
  BY ListPathsAre
<1> HIDE DEF S, E, W
<1>5. CASE i = Meta
  <2>1. ids = Extended(E, "ecu_metadata")
    BY <1>2, <1>3, <1>5 DEF DocPaths, E
  <2>2. /\ ids \in Seq(Id) /\ ids # << >>
        /\ \A id : id \in ToSet(ids) <=> \E p \in ToSet(E) : id = Append(p, "ecu_metadata")
    BY <1>1, <2>1, ExtendedIs, SegsAre
  <2>3. \A s \in Segs(e) : Append(<<"ecus", s>>, "ecu_metadata") = <<"ecus", s, "ecu_metadata">>
    BY SegsAre, Segments
  <2> HIDE DEF ids
  <2>4. \A id : id \in PlaceIds(e, S, i) <=> \E s \in Segs(e) : id = <<"ecus", s, "ecu_metadata">>
    BY <1>5, PlaceIdsAre
  <2>5. ToSet(ids) = PlaceIds(e, S, i)
    <3>1. ASSUME NEW id, id \in ToSet(ids) PROVE id \in PlaceIds(e, S, i)
      <4>1. PICK p \in ToSet(E) : id = Append(p, "ecu_metadata")
        BY <2>2, <3>1
      <4>2. PICK s \in Segs(e) : p = <<"ecus", s>>
        BY <1>1, <4>1
      <4>3. QED
        BY <2>3, <2>4, <4>1, <4>2
    <3>2. ASSUME NEW id, id \in PlaceIds(e, S, i) PROVE id \in ToSet(ids)
      <4>1. PICK s \in Segs(e) : id = <<"ecus", s, "ecu_metadata">>
        BY <2>4, <3>2
      <4>2. <<"ecus", s>> \in ToSet(E)
        BY <1>1, <4>1
      <4>3. QED
        BY <2>2, <2>3, <4>1, <4>2
    <3>3. QED
      BY <3>1, <3>2
  <2>6. QED
    BY <2>2, <2>5 DEF S, ids
<1>6. CASE i # Meta /\ i \in S
  <2> DEFINE mark == ToString(Rank(S, i))
             name == FileName[i]
             both == Extended(W, mark) \o Extended(W, name)
  <2>1. ids = both
    BY <1>2, <1>6 DEF DocPaths, ItemPaths, E, S, W
  <2>2. mark \in Segment /\ name \in Segment
    <3>1. Rank(S, i) \in 0..(NE + NS) /\ i \in Item
      BY <1>2, <1>6, PresentFinite
    <3>2. QED
      BY <3>1, PositionAssumption, NameAssumption DEF Segment
  <2>3. Marks(S, i) = {mark, name}
    BY DEF Marks
  <2> HIDE DEF mark, name
  <2>4. /\ both \in Seq(Id) /\ both # << >>
        /\ \A id : id \in ToSet(both) <=> \E p \in ToSet(W) : id = Append(p, mark) \/ id = Append(p, name)
    BY <1>4, <2>2, ItemPathsIs
  <2> HIDE DEF both, ids
  <2>5. \A s \in Segs(e) :
          /\ Append(<<"ecus", s, "switches">>, mark) = <<"ecus", s, "switches", mark>>
          /\ Append(<<"ecus", s, "switches">>, name) = <<"ecus", s, "switches", name>>
    BY <2>2, SegsAre, Segments
  <2>6. \A id : id \in ToSet(ids) <=> \E s \in Segs(e), t \in Marks(S, i) : id = <<"ecus", s, "switches", t>>
    <3>1. ASSUME NEW id, id \in ToSet(ids)
          PROVE  \E s \in Segs(e), t \in Marks(S, i) : id = <<"ecus", s, "switches", t>>
      <4>1. PICK p \in ToSet(W) : id = Append(p, mark) \/ id = Append(p, name)
        BY <2>1, <2>4, <3>1
      <4>2. PICK s \in Segs(e) : p = <<"ecus", s, "switches">>
        BY <1>4, <4>1
      <4>3. QED
        BY <2>3, <2>5, <4>1, <4>2
    <3>2. ASSUME NEW s \in Segs(e), NEW t \in Marks(S, i)
          PROVE  <<"ecus", s, "switches", t>> \in ToSet(ids)
      <4>1. <<"ecus", s, "switches">> \in ToSet(W)
        BY <1>4
      <4>2. <<"ecus", s, "switches", t>> = Append(<<"ecus", s, "switches">>, t)
        BY <2>3, <2>5
      <4>3. t = mark \/ t = name
        BY <2>3
      <4>4. QED
        BY <2>1, <2>4, <4>1, <4>2, <4>3
    <3>3. QED
      BY <3>1, <3>2
  <2>7. \A id : id \in ToSet(ids) <=> id \in PlaceIds(e, S, i)
    BY <1>2, <1>6, <2>6, PlaceIdsAre
  <2>8. ToSet(ids) = PlaceIds(e, S, i)
    BY <2>7
  <2>9. QED
    BY <2>1, <2>4, <2>8 DEF S, ids
<1>7. CASE i # Meta /\ i \notin S
  <2>1. ids = << >>
    BY <1>2, <1>7 DEF DocPaths, S
  <2>2. PlaceIds(e, S, i) = {}
    BY <1>3, <1>7, PlaceIdsAre
  <2>3. ids \in Seq(Id) /\ ToSet(ids) = {}
    BY <2>1 DEF ToSet
  <2>4. QED
    BY <1>7, <2>2, <2>3 DEF S
<1>8. QED
  BY <1>5, <1>6, <1>7

LEMMA MarksAre ==
  ASSUME NEW S \in SUBSET Item, NEW i \in S
  PROVE  Marks(S, i) \subseteq Segment
<1>1. Rank(S, i) \in 0..(NE + NS) /\ i \in Item
  BY PresentFinite
<1>2. QED
  BY <1>1, PositionAssumption, NameAssumption DEF Marks, Segment

\* Under different names.
LEMMA SegsApart ==
  ASSUME NamesAreNoPositions, NEW e \in ECU, NEW x \in ECU, e # x
  PROVE  Segs(e) \cap Segs(x) = {}
<1>1. /\ e - 1 \in 0..(NE + NS) /\ x - 1 \in 0..(NE + NS) /\ e - 1 # x - 1
  BY SizeAssumption DEF ECU
<1>2. ToString(e - 1) # ToString(x - 1)
  BY <1>1, PositionAssumption
<1>3. EcuName[e] # EcuName[x]
  BY NameAssumption DEF IsInjective
<1>4. EcuName[e] # ToString(x - 1) /\ EcuName[x] # ToString(e - 1)
  BY <1>1 DEF NamesAreNoPositions
<1>5. QED
  BY <1>2, <1>3, <1>4 DEF Segs

LEMMA MarksApart ==
  ASSUME NamesAreNoPositions, NEW S \in SUBSET Item, NEW i \in S, NEW j \in S, i # j
  PROVE  Marks(S, i) \cap Marks(S, j) = {}
<1>1. S \in SUBSET Int /\ IsFiniteSet(S) /\ Rank(S, i) \in 0..(NE + NS) /\ Rank(S, j) \in 0..(NE + NS)
  BY PresentFinite
<1>2. Rank(S, i) # Rank(S, j)
  <2>1. CASE i < j
    <3>1. Rank(S, i) < Rank(S, j)
      BY <1>1, <2>1, RankInjective
    <3>2. QED
      BY <1>1, <3>1
  <2>2. CASE j < i
    <3>1. Rank(S, j) < Rank(S, i)
      BY <1>1, <2>2, RankInjective
    <3>2. QED
      BY <1>1, <3>1
  <2>3. QED
    BY <1>1, <2>1, <2>2
<1>3. ToString(Rank(S, i)) # ToString(Rank(S, j))
  BY <1>1, <1>2, PositionAssumption
<1>4. FileName[i] # FileName[j]
  BY NameAssumption DEF IsInjective
<1>5. FileName[i] # ToString(Rank(S, j)) /\ FileName[j] # ToString(Rank(S, i))
  BY <1>1 DEF NamesAreNoPositions
<1>6. QED
  BY <1>3, <1>4, <1>5 DEF Marks

-----------------------------------------------------------------------------
(* No two places share ids, and no document is above another place.        *)

Place == (0..NS) \cup {Dir, List}

LEMMA PlaceShape ==
  ASSUME NEW e \in ECU, NEW S \in SUBSET Item, NEW n \in Place, NEW id \in PlaceIds(e, S, n)
  PROVE  /\ id \in Id /\ id[1] = "ecus" /\ id[2] \in Segs(e)
         /\ n = Dir  => Len(id) = 2
         /\ n = List => Len(id) = 3 /\ id[3] = "switches"
         /\ n = Meta => Len(id) = 3 /\ id[3] = "ecu_metadata"
         /\ n \in Item => n \in S /\ Len(id) = 4 /\ id[3] = "switches" /\ id[4] \in Marks(S, n)
<1> HIDE DEF Segment
<1>1. n \in Item \/ n = Dir \/ n = List \/ n = Meta
  BY SizeAssumption DEF Place, Item, Meta
<1>2. Dir # List /\ Dir # Meta /\ List # Meta /\ Dir \notin Item /\ List \notin Item /\ Meta \notin Item
  BY SizeAssumption DEF Dir, List, Meta, Item
<1>3. Segs(e) \subseteq Segment /\ "ecus" \in Segment /\ "switches" \in Segment /\ "ecu_metadata" \in Segment
  BY SegsAre
<1>4. CASE n = Dir
  <2>1. PICK s \in Segs(e) : id = <<"ecus", s>>
    BY <1>4, PlaceIdsAre
  <2>2. QED
    BY <1>2, <1>3, <1>4, <2>1 DEF Id
<1>5. CASE n = List
  <2>1. PICK s \in Segs(e) : id = <<"ecus", s, "switches">>
    BY <1>5, PlaceIdsAre
  <2>2. QED
    BY <1>2, <1>3, <1>5, <2>1 DEF Id
<1>6. CASE n = Meta
  <2>1. PICK s \in Segs(e) : id = <<"ecus", s, "ecu_metadata">>
    BY <1>6, PlaceIdsAre
  <2>2. QED
    BY <1>2, <1>3, <1>6, <2>1 DEF Id
<1>7. CASE n \in Item
  <2>1. n \in S
    BY <1>7, PlaceIdsAre
  <2>2. PICK s \in Segs(e), t \in Marks(S, n) : id = <<"ecus", s, "switches", t>>
    BY <1>7, <2>1, PlaceIdsAre
  <2>3. t \in Segment
    BY <1>7, <2>1, MarksAre
  <2>4. QED
    BY <1>2, <1>3, <1>7, <2>1, <2>2, <2>3 DEF Id
<1>8. QED
  BY <1>1, <1>4, <1>5, <1>6, <1>7

LEMMA PlacesApart ==
  ASSUME NamesAreNoPositions, NEW e \in ECU, NEW x \in ECU,
         NEW S \in SUBSET Item, NEW T \in SUBSET Item, NEW n \in Place, NEW m \in Place,
         e # x \/ (S = T /\ n # m)
  PROVE  PlaceIds(e, S, n) \cap PlaceIds(x, T, m) = {}
<1>1. SUFFICES ASSUME NEW id \in PlaceIds(e, S, n), id \in PlaceIds(x, T, m) PROVE FALSE
  OBVIOUS
<1>2. n \in Item \/ n = Dir \/ n = List \/ n = Meta
  BY SizeAssumption DEF Place, Item, Meta
<1>3. m \in Item \/ m = Dir \/ m = List \/ m = Meta
  BY SizeAssumption DEF Place, Item, Meta
<1>4. id[2] \in Segs(e) \cap Segs(x)
  BY <1>1, PlaceShape
<1>5. e = x /\ S = T /\ n # m
  BY <1>4, SegsApart
<1>6. /\ n = Dir  => Len(id) = 2
      /\ n = List => Len(id) = 3 /\ id[3] = "switches"
      /\ n = Meta => Len(id) = 3 /\ id[3] = "ecu_metadata"
      /\ n \in Item => n \in S /\ Len(id) = 4 /\ id[4] \in Marks(S, n)
  BY PlaceShape
<1>7. /\ m = Dir  => Len(id) = 2
      /\ m = List => Len(id) = 3 /\ id[3] = "switches"
      /\ m = Meta => Len(id) = 3 /\ id[3] = "ecu_metadata"
      /\ m \in Item => m \in S /\ Len(id) = 4 /\ id[4] \in Marks(S, m)
  BY <1>1, <1>5, PlaceShape
<1>8. CASE n \in Item /\ m \in Item
  BY <1>5, <1>6, <1>7, <1>8, MarksApart
<1>9. CASE ~(n \in Item /\ m \in Item)
  BY <1>2, <1>3, <1>5, <1>6, <1>7, <1>9
<1>10. QED
  BY <1>8, <1>9

\* What is purged with a document.
LEMMA NotUnderDoc ==
  ASSUME NamesAreNoPositions, NEW e \in ECU, NEW x \in ECU,
         NEW S \in SUBSET Item, NEW T \in SUBSET Item, NEW n \in 0..NS, NEW m \in (0..NS) \cup {Dir},
         e # x \/ (S = T /\ n # m),
         NEW p \in PlaceIds(e, S, n), NEW id \in PlaceIds(x, T, m)
  PROVE  ~IsPrefix(p, id)
<1>1. SUFFICES ASSUME IsPrefix(p, id) PROVE FALSE
  OBVIOUS
<1>2. n \in Place /\ m \in Place /\ (n = Meta \/ n \in Item) /\ (m = Dir \/ m = Meta \/ m \in Item)
  BY SizeAssumption DEF Place, Item, Meta
<1>3. /\ p \in Id /\ p[2] \in Segs(e)
      /\ n = Meta => Len(p) = 3 /\ p[3] = "ecu_metadata"
      /\ n \in Item => n \in S /\ Len(p) = 4 /\ p[3] = "switches" /\ p[4] \in Marks(S, n)
  BY <1>2, PlaceShape
<1>4. /\ id \in Id /\ id[2] \in Segs(x)
      /\ m = Dir  => Len(id) = 2
      /\ m = Meta => Len(id) = 3 /\ id[3] = "ecu_metadata"
      /\ m \in Item => m \in T /\ Len(id) = 4 /\ id[3] = "switches" /\ id[4] \in Marks(T, m)
  BY <1>2, PlaceShape
<1>5. Len(p) <= Len(id) /\ \A k \in 1..Len(p) : p[k] = id[k]
  BY <1>1, <1>3, <1>4, PrefixIs
<1>6. Len(p) \in {3, 4}
  BY <1>2, <1>3
<1>7. p[2] = id[2] /\ p[3] = id[3] /\ (Len(p) = 4 => p[4] = id[4])
  BY <1>5, <1>6
<1>8. e = x /\ S = T /\ n # m
  BY <1>3, <1>4, <1>7, SegsApart
<1>9. n \in Item /\ m \in Item
  BY <1>2, <1>3, <1>4, <1>5, <1>6, <1>7, <1>8
<1>10. Marks(S, n) \cap Marks(S, m) = {}
  BY <1>3, <1>4, <1>8, <1>9, MarksApart
<1>11. QED
  BY <1>3, <1>4, <1>7, <1>8, <1>9, <1>10

\* What is purged with an ECU: all of its places, none of another one's.
LEMMA UnderEcu ==
  ASSUME NEW e \in ECU, NEW S \in SUBSET Item, NEW n \in Place, NEW id \in PlaceIds(e, S, n)
  PROVE  \E p \in ToSet(EcuPaths(e)) : IsPrefix(p, id)
<1> HIDE DEF Segment
<1>1. id \in Id /\ id[1] = "ecus" /\ id[2] \in Segs(e) /\ Len(id) \in {2, 3, 4}
  <2>1. n \in Item \/ n = Dir \/ n = List \/ n = Meta
    BY SizeAssumption DEF Place, Item, Meta
  <2>2. QED
    BY <2>1, PlaceShape
<1> DEFINE p == <<"ecus", id[2]>>
<1>2. p \in ToSet(EcuPaths(e))
  BY <1>1, EcuPathsAre
<1>3. p \in Id /\ Len(p) = 2 /\ p[1] = "ecus" /\ p[2] = id[2]
  BY <1>1, SegsAre DEF Id
<1> HIDE DEF p
<1>4. Len(p) <= Len(id) /\ \A k \in 1..Len(p) : p[k] = id[k]
  BY <1>1, <1>3
<1>5. IsPrefix(p, id)
  BY <1>1, <1>3, <1>4, PrefixIs
<1>6. QED
  BY <1>2, <1>5

LEMMA NotUnderEcu ==
  ASSUME NamesAreNoPositions, NEW e \in ECU, NEW x \in ECU, e # x,
         NEW T \in SUBSET Item, NEW m \in Place,
         NEW p \in ToSet(EcuPaths(e)), NEW id \in PlaceIds(x, T, m)
  PROVE  ~IsPrefix(p, id)
<1>1. SUFFICES ASSUME IsPrefix(p, id) PROVE FALSE
  OBVIOUS
<1>2. p \in PlaceIds(e, T, Dir) /\ Dir \in Place
  BY EcuPathsAre DEF Place
<1>3. p \in Id /\ p[2] \in Segs(e) /\ Len(p) = 2 /\ id \in Id /\ id[2] \in Segs(x)
  BY <1>2, PlaceShape
<1>4. \A k \in 1..Len(p) : p[k] = id[k]
  BY <1>1, <1>3, PrefixIs
<1>5. p[2] = id[2]
  BY <1>3, <1>4
<1>6. QED
  BY <1>3, <1>5, SegsApart

\* The root is under nothing.
LEMMA RootApart ==
  ASSUME NEW e \in ECU, NEW S \in SUBSET Item, NEW n \in Place, NEW p \in PlaceIds(e, S, n)
  PROVE  p # << >> /\ ~IsPrefix(p, << >>) /\ p # <<"ecus">>
<1>1. p \in Id /\ Len(p) \in {2, 3, 4}
  <2>1. n \in Item \/ n = Dir \/ n = List \/ n = Meta
    BY SizeAssumption DEF Place, Item, Meta
  <2>2. QED
    BY <2>1, PlaceShape
<1>2. << >> \in Id /\ Len(<< >>) = 0 /\ Len(<<"ecus">>) = 1
  BY DEF Id
<1>3. IsPrefix(p, << >>) => Len(p) <= 0
  BY <1>1, <1>2, PrefixIs
<1>4. QED
  BY <1>1, <1>2, <1>3

-----------------------------------------------------------------------------
(* What loading registers.                                                 *)

EcuEntry(seen, e)  == Entry(EcuPaths(e), LoadEcu(seen, e))
ListEntry(seen, e) == Entry(Extended(EcuPaths(e), "switches"),
                            IF Raising(seen, e) = {} THEN Switches(seen, e) ELSE NoModel)
FileEntry(seen, d) == Entry(DocPaths(seen, d), ModelOf(seen[d]))
TopEntries(seen)   == {Entry(<< <<"ecus">> >>, LoadModel(seen)), Entry(<< << >> >>, LoadModel(seen))}

EntryAt(seen, e, n) ==
  IF n = Dir THEN EcuEntry(seen, e) ELSE IF n = List THEN ListEntry(seen, e) ELSE FileEntry(seen, <<e, n>>)

EntriesOf(seen, e) == {EntryAt(seen, e, n) : n \in Place}
Unparsable(seen, e) == Raising(seen, e) # {}

LEMMA EntryAtIs ==
  ASSUME NEW seen \in [Doc -> Content], NEW e \in ECU, ~Unparsable(seen, e), NEW n \in Place
  PROVE  LET x == EntryAt(seen, e, n) IN
         x \in Entries /\ ToSet(x.ids) = PlaceIds(e, Present(seen, e), n)
<1> HIDE DEF Segment
<1>1. n = Dir \/ n = List \/ n \in 0..NS
  BY DEF Place
<1>2. Dir # List /\ Dir \notin 0..NS /\ List \notin 0..NS
  BY SizeAssumption DEF Dir, List
<1>3. CASE n = Dir
  <2>1. EntryAt(seen, e, n) = [ids |-> EcuPaths(e), value |-> LoadEcu(seen, e)]
    BY <1>3 DEF EntryAt, EcuEntry, Entry
  <2>2. LoadEcu(seen, e) \in MapValues
    BY LoadEcuType DEF EcuValue, MapValues
  <2>3. EcuPaths(e) \in Seq(Id) /\ ToSet(EcuPaths(e)) = PlaceIds(e, Present(seen, e), n)
    BY <1>3, EcuPathsAre
  <2>4. QED
    BY <2>1, <2>2, <2>3 DEF Entries
<1>4. CASE n = List
  <2> DEFINE ids == Extended(EcuPaths(e), "switches")
             v   == Switches(seen, e)
  <2>1. EntryAt(seen, e, n) = [ids |-> ids, value |-> v]
    BY <1>2, <1>4 DEF EntryAt, ListEntry, Entry, Unparsable
  <2>2. v \in MapValues
    BY LoadEcuType DEF MapValues
  <2>3. ids \in Seq(Id) /\ ToSet(ids) = PlaceIds(e, Present(seen, e), n)
    BY <1>4, ListPathsAre
  <2> HIDE DEF ids, v
  <2>4. QED
    BY <2>1, <2>2, <2>3 DEF Entries
<1>5. CASE n \in 0..NS
  <2> DEFINE ids == DocPaths(seen, <<e, n>>)
             v   == ModelOf(seen[<<e, n>>])
  <2>1. EntryAt(seen, e, n) = [ids |-> ids, value |-> v]
    BY <1>2, <1>5 DEF EntryAt, FileEntry, Entry
  <2>2. v \in MapValues
    <3>1. seen[<<e, n>>] \in Content
      BY <1>5, NodeParts
    <3>2. QED
      BY <3>1, ModelOfType DEF MapValues
  <2>3. ids \in Seq(Id) /\ ToSet(ids) = PlaceIds(e, Present(seen, e), n)
    BY <1>5, DocPathsAre DEF Unparsable
  <2> HIDE DEF ids, v
  <2>4. QED
    BY <2>1, <2>2, <2>3 DEF Entries
<1>6. QED
  BY <1>1, <1>3, <1>4, <1>5

\* No two share ids.
LEMMA EntriesApart ==
  ASSUME NamesAreNoPositions, NEW seen \in [Doc -> Content], NEW E \in SUBSET ECU,
         \A e \in E : ~Unparsable(seen, e)
  PROVE  LET F == UNION {EntriesOf(seen, e) : e \in E} IN F \subseteq Entries /\ NoneShared(F)
<1> DEFINE F == UNION {EntriesOf(seen, e) : e \in E}
<1>1. \A x \in F : \E e \in E, n \in Place : x = EntryAt(seen, e, n)
  BY DEF EntriesOf
<1>2. F \subseteq Entries
  BY <1>1, EntryAtIs
<1>3. ASSUME NEW x \in F, NEW y \in F, x # y PROVE ToSet(x.ids) \cap ToSet(y.ids) = {}
  <2>1. PICK e \in E, n \in Place : x = EntryAt(seen, e, n)
    BY <1>1
  <2>2. PICK f \in E, m \in Place : y = EntryAt(seen, f, m)
    BY <1>1
  <2>3. e # f \/ (e = f /\ n # m)
    BY <1>3, <2>1, <2>2
  <2>4. /\ ToSet(x.ids) = PlaceIds(e, Present(seen, e), n)
        /\ ToSet(y.ids) = PlaceIds(f, Present(seen, f), m)
    BY <2>1, <2>2, EntryAtIs
  <2>5. Present(seen, e) \in SUBSET Item /\ Present(seen, f) \in SUBSET Item
    BY DEF Present
  <2>6. PlaceIds(e, Present(seen, e), n) \cap PlaceIds(f, Present(seen, f), m) = {}
    BY <2>3, <2>5, PlacesApart
  <2>7. QED
    BY <2>4, <2>6
<1>4. QED
  BY <1>2, <1>3 DEF NoneShared

\* The documents that are registered, and the others.
LEMMA DocEntryIs ==
  ASSUME NEW seen \in [Doc -> Content], NEW e \in ECU, ~Unparsable(seen, e), NEW i \in 0..NS
  PROVE  /\ DocEntry(seen, <<e, i>>) \in Seq({FileEntry(seen, <<e, i>>)})
         /\ ModelOf(seen[<<e, i>>]) # NoModel =>
              ToSet(DocEntry(seen, <<e, i>>)) = {FileEntry(seen, <<e, i>>)}
<1> DEFINE x == FileEntry(seen, <<e, i>>)
           c == seen[<<e, i>>]
<1>1. DocEntry(seen, <<e, i>>) = IF c.kind \in {"absent", "empty", "garbled"} THEN << >> ELSE <<x>>
  BY DEF DocEntry, FileEntry
<1>2. c \in Content
  BY NodeParts
<1>3. ModelOf(c) # NoModel => c.kind \notin {"absent", "empty", "garbled"}
  BY <1>2, Kinds DEF Usable
<1> HIDE DEF x, c
<1>4. <<x>> \in Seq({x}) /\ << >> \in Seq({x}) /\ ToSet(<<x>>) = {x}
  BY DEF ToSet
<1>5. QED
  BY <1>1, <1>3, <1>4 DEF x, c

LEMMA PlaceOfFile ==
  /\ \A seen, e : \A i \in 0..NS : FileEntry(seen, <<e, i>>) = EntryAt(seen, e, i)
  /\ \A seen, e : EcuEntry(seen, e) = EntryAt(seen, e, Dir)
  /\ \A seen, e : ListEntry(seen, e) = EntryAt(seen, e, List)
BY SizeAssumption DEF EntryAt, Dir, List

LEMMA EcuEntriesAre ==
  ASSUME NEW seen \in [Doc -> Content], NEW e \in ECU, ~Unparsable(seen, e)
  PROVE  /\ EcuEntries(seen, e) \in Seq(EntriesOf(seen, e))
         /\ EcuEntry(seen, e) \in ToSet(EcuEntries(seen, e))
         /\ \A i \in 0..NS : ModelOf(seen[<<e, i>>]) # NoModel =>
              FileEntry(seen, <<e, i>>) \in ToSet(EcuEntries(seen, e))
<1> DEFINE F == EntriesOf(seen, e)
           V == Visited(seen, e)
           f == [i \in Item |-> DocEntry(seen, <<e, i>>)]
           s == ListOf(V, f)
           a == FlattenSeq(s)
           b == <<ListEntry(seen, e)>>
           c == DocEntry(seen, <<e, Meta>>)
           z == <<EcuEntry(seen, e)>>
<1>1. V = Present(seen, e) /\ V \in SUBSET Item /\ V \in SUBSET Int /\ IsFiniteSet(V)
  <2>1. V = Present(seen, e) /\ V \in SUBSET Item
    BY DEF Visited, Present, Unparsable
  <2>2. QED
    BY <2>1, PresentFinite
<1>2. \A i \in 0..NS : /\ DocEntry(seen, <<e, i>>) \in Seq(F)
                       /\ ModelOf(seen[<<e, i>>]) # NoModel =>
                            FileEntry(seen, <<e, i>>) \in ToSet(DocEntry(seen, <<e, i>>))
  <2> TAKE i \in 0..NS
  <2> DEFINE y == FileEntry(seen, <<e, i>>)
             t == DocEntry(seen, <<e, i>>)
  <2>1. y \in F
    BY PlaceOfFile DEF EntriesOf, Place
  <2>2. t \in Seq({y}) /\ (ModelOf(seen[<<e, i>>]) # NoModel => ToSet(t) = {y})
    BY DocEntryIs
  <2> HIDE DEF y, t, F
  <2>3. \A k \in 1..Len(t) : t[k] \in F
    BY <2>1, <2>2, ElementOfSeq
  <2>4. t \in Seq(F)
    BY <2>2, <2>3, SeqInto
  <2>5. QED
    BY <2>2, <2>4 DEF y, t
<1>3. Meta \in 0..NS /\ Item \subseteq 0..NS /\ (\A i \in 0..NS : i = Meta \/ i \in Item)
  BY SizeAssumption DEF Meta, Item
<1>4. \A i \in V : f[i] = DocEntry(seen, <<e, i>>) /\ f[i] \in Seq(F)
  BY <1>1, <1>2, <1>3
<1>5. /\ s \in Seq(Seq(F)) /\ Len(s) = Cardinality(V)
      /\ \A k \in 1..Cardinality(V) : s[k] = f[At(V, k)]
  <2> DEFINE T == Seq(F)
  <2>1. V \in SUBSET Int /\ IsFiniteSet(V) /\ \A i \in V : f[i] \in T
    BY <1>1, <1>4
  <2> HIDE DEF V, f, T
  <2>2. /\ ListOf(V, f) \in Seq(T) /\ Len(ListOf(V, f)) = Cardinality(V)
        /\ \A k \in 1..Cardinality(V) : ListOf(V, f)[k] = f[At(V, k)]
    BY <2>1, ListOfType
  <2>3. QED
    BY <2>2 DEF T
<1>6. a \in Seq(F) /\ \A x : x \in ToSet(a) <=> \E k \in 1..Len(s) : x \in ToSet(s[k])
  <2> HIDE DEF s, F
  <2>1. QED
    BY <1>5, FlattenPlaces, FlattenElements
<1>7. \A i \in V : \A x \in ToSet(f[i]) : x \in ToSet(a)
  <2> TAKE i \in V
  <2>1. Rank(V, i) + 1 \in 1..Cardinality(V) /\ At(V, Rank(V, i) + 1) = i
    BY <1>1, AtProperties
  <2>2. s[Rank(V, i) + 1] = f[i]
    BY <1>5, <2>1
  <2>3. QED
    BY <1>5, <1>6, <2>1, <2>2
<1>8. b \in Seq(F) /\ z \in Seq(F) /\ c \in Seq(F) /\ EcuEntry(seen, e) \in ToSet(z)
  <2>1. ListEntry(seen, e) \in F /\ EcuEntry(seen, e) \in F
    BY PlaceOfFile DEF EntriesOf, Place
  <2> HIDE DEF F
  <2>2. b \in Seq(F) /\ z \in Seq(F) /\ ToSet(z) = {EcuEntry(seen, e)}
    BY <2>1 DEF ToSet
  <2>3. QED
    BY <1>2, <1>3, <2>2
<1>9. EcuEntries(seen, e) = a \o b \o c \o z
  BY DEF EcuEntries, ListEntry, EcuEntry
<1>10. /\ EcuEntries(seen, e) \in Seq(F)
       /\ ToSet(EcuEntries(seen, e)) = ((ToSet(a) \cup ToSet(b)) \cup ToSet(c)) \cup ToSet(z)
  <2> HIDE DEF a, b, c, z, F
  <2>1. a \o b \in Seq(F) /\ ToSet(a \o b) = ToSet(a) \cup ToSet(b)
    BY <1>6, <1>8, ConcatSet
  <2> DEFINE ab == a \o b
             abc == ab \o c
  <2> HIDE DEF ab
  <2>2. ab \in Seq(F) /\ c \in Seq(F)
    BY <1>8, <2>1 DEF ab
  <2>3. abc \in Seq(F) /\ ToSet(abc) = ToSet(ab) \cup ToSet(c)
    BY <2>2, ConcatSet
  <2> HIDE DEF abc
  <2>4. abc \o z \in Seq(F) /\ ToSet(abc \o z) = ToSet(abc) \cup ToSet(z)
    BY <1>8, <2>3, ConcatSet
  <2>5. EcuEntries(seen, e) = abc \o z
    BY <1>9 DEF ab, abc
  <2>6. QED
    BY <2>1, <2>3, <2>4, <2>5 DEF ab
<1>11. ASSUME NEW i \in 0..NS, ModelOf(seen[<<e, i>>]) # NoModel
       PROVE  FileEntry(seen, <<e, i>>) \in ToSet(EcuEntries(seen, e))
  <2>1. FileEntry(seen, <<e, i>>) \in ToSet(DocEntry(seen, <<e, i>>))
    BY <1>2, <1>11
  <2>2. CASE i = Meta
    BY <1>10, <2>1, <2>2
  <2>3. CASE i \in Item
    <3>1. seen[<<e, i>>] \in Content
      BY NodeParts
    <3>2. seen[<<e, i>>].kind # "absent"
      BY <1>11, <3>1, Kinds DEF Usable
    <3>3. i \in V
      BY <1>1, <2>3, <3>2 DEF Present
    <3>4. FileEntry(seen, <<e, i>>) \in ToSet(a)
      BY <1>4, <1>7, <2>1, <3>3
    <3>5. QED
      BY <1>10, <3>4
  <2>4. QED
    BY <1>3, <2>2, <2>3
<1>12. QED
  BY <1>8, <1>10, <1>11

LEMMA EmptyMap == << >> \in Maps
<1> DEFINE map == << >>
<1>1. map = [id \in DOMAIN map |-> map[id]] /\ DOMAIN map = {}
  OBVIOUS
<1> HIDE DEF map
<1>2. map \in Maps
  BY <1>1, MapIs
<1>3. QED
  BY <1>2 DEF map

\* Everything is found after a full load.
LEMMA FullMapIs ==
  ASSUME NamesAreNoPositions, NEW seen \in [Doc -> Content], \A e \in ECU : ~Unparsable(seen, e)
  PROVE  /\ FullMap(seen) \in Maps
         /\ Leads(FullMap(seen), << << >> >>, LoadModel(seen))
         /\ \A e \in ECU : Leads(FullMap(seen), EcuPaths(e), LoadEcu(seen, e))
         /\ \A e \in ECU : \A i \in 0..NS : ModelOf(seen[<<e, i>>]) # NoModel =>
              Leads(FullMap(seen), DocPaths(seen, <<e, i>>), ModelOf(seen[<<e, i>>]))
<1> DEFINE v  == LoadModel(seen)
           A  == Entry(<< <<"ecus">> >>, v)
           B  == Entry(<< << >> >>, v)
           G  == UNION {EntriesOf(seen, e) : e \in ECU}
           F  == G \cup {A, B}
           s  == [e \in ECU |-> EcuEntries(seen, e)]
           ab == <<A, B>>
           all == FlattenSeq(s) \o ab
           map == FullMap(seen)
<1>1. G \subseteq Entries /\ NoneShared(G)
  BY EntriesApart
<1>2. A \in Entries /\ B \in Entries /\ ToSet(A.ids) = {<<"ecus">>} /\ ToSet(B.ids) = {<< >>}
      /\ A = [ids |-> << <<"ecus">> >>, value |-> v] /\ B = [ids |-> << << >> >>, value |-> v]
  <2>1. v \in MapValues
    BY LoadModelType DEF MapValues
  <2>2. << <<"ecus">> >> \in Seq(Id) /\ << << >> >> \in Seq(Id)
    <3>1. "ecus" \in Segment
      BY DEF Segment
    <3>2. QED
      BY <3>1 DEF Id
  <2> HIDE DEF v
  <2>3. QED
    BY <2>1, <2>2 DEF Entries, Entry, ToSet
<1>3. \A x \in G : ToSet(x.ids) \cap {<< >>, <<"ecus">>} = {}
  <2> TAKE x \in G
  <2>1. PICK e \in ECU, n \in Place : x = EntryAt(seen, e, n)
    BY DEF EntriesOf
  <2>2. ToSet(x.ids) = PlaceIds(e, Present(seen, e), n) /\ Present(seen, e) \in SUBSET Item
    BY <2>1, EntryAtIs DEF Present
  <2>3. QED
    BY <2>2, RootApart
<1>4. F \subseteq Entries /\ NoneShared(F)
  <2> HIDE DEF G, A, B
  <2>1. <<"ecus">> # << >>
    OBVIOUS
  <2>2. ASSUME NEW x \in F, NEW y \in F, x # y PROVE ToSet(x.ids) \cap ToSet(y.ids) = {}
    <3>1. (x \in G \/ x = A \/ x = B) /\ (y \in G \/ y = A \/ y = B)
      OBVIOUS
    <3>2. CASE x \in G /\ y \in G
      BY <1>1, <2>2, <3>2 DEF NoneShared
    <3>3. CASE x \in G /\ y \notin G
      BY <1>2, <1>3, <3>1, <3>3
    <3>4. CASE x \notin G /\ y \in G
      BY <1>2, <1>3, <3>1, <3>4
    <3>5. CASE x \notin G /\ y \notin G
      BY <1>2, <2>1, <2>2, <3>1, <3>5
    <3>6. QED
      BY <3>2, <3>3, <3>4, <3>5
  <2>3. QED
    BY <1>1, <1>2, <2>2 DEF NoneShared
<1>5. /\ FlattenSeq(s) \in Seq(F)
      /\ \A x : x \in ToSet(FlattenSeq(s)) <=> \E e \in ECU : x \in ToSet(s[e])
  <2>1. ASSUME NEW e \in ECU PROVE s[e] \in Seq(F)
    <3>1. s[e] \in Seq(EntriesOf(seen, e))
      BY EcuEntriesAre
    <3>2. \A k \in 1..Len(s[e]) : s[e][k] \in EntriesOf(seen, e)
      BY <3>1, ElementOfSeq
    <3>3. \A k \in 1..Len(s[e]) : s[e][k] \in F
      BY <3>2
    <3> HIDE DEF s, F
    <3>4. QED
      BY <3>1, <3>3, SeqInto
  <2>2. s = [e \in 1..NE |-> s[e]] /\ NE \in Nat /\ ECU = 1..NE
    BY SizeAssumption DEF ECU
  <2> HIDE DEF s, F
  <2>3. QED
    BY <2>1, <2>2, KeptOf
<1>6. ab \in Seq(F) /\ ToSet(ab) = {A, B}
  <2> HIDE DEF A, B, G
  <2>1. QED
    BY DEF ToSet
<1>7. all \in Seq(F) /\ ToSet(all) = ToSet(FlattenSeq(s)) \cup {A, B}
  <2> HIDE DEF s, ab, F
  <2>1. QED
    BY <1>5, <1>6, ConcatSet
<1>8. map = RegisterAll(<< >>, all)
  BY DEF FullMap
<1>9. << >> \in Maps /\ Whole(<< >>, F)
  BY EmptyMap DEF Whole, Unregistered
<1>10. map \in Maps /\ \A x \in ToSet(all) : Registered(map, x)
  <2> HIDE DEF F, all, map
  <2>1. QED
    BY <1>4, <1>7, <1>8, <1>9, RegisterAllWhole
<1> HIDE DEF map, all, A, B, s
<1>11. Leads(map, << << >> >>, v)
  <2>1. Registered(map, B)
    BY <1>7, <1>10
  <2>2. QED
    BY <1>2, <2>1 DEF Registered
<1>12. ASSUME NEW e \in ECU PROVE Leads(map, EcuPaths(e), LoadEcu(seen, e))
  <2>1. EcuEntry(seen, e) \in ToSet(s[e])
    BY EcuEntriesAre DEF s
  <2>2. Registered(map, EcuEntry(seen, e))
    BY <1>5, <1>7, <1>10, <2>1
  <2>3. QED
    BY <2>2 DEF Registered, EcuEntry, Entry
<1>13. ASSUME NEW e \in ECU, NEW i \in 0..NS, ModelOf(seen[<<e, i>>]) # NoModel
       PROVE  Leads(map, DocPaths(seen, <<e, i>>), ModelOf(seen[<<e, i>>]))
  <2>1. FileEntry(seen, <<e, i>>) \in ToSet(s[e])
    BY <1>13, EcuEntriesAre DEF s
  <2>2. Registered(map, FileEntry(seen, <<e, i>>))
    BY <1>5, <1>7, <1>10, <2>1
  <2>3. QED
    BY <2>2 DEF Registered, FileEntry, Entry
<1>14. QED
  BY <1>10, <1>11, <1>12, <1>13 DEF map

-----------------------------------------------------------------------------
(* The steps of a reload.                                                  *)

Unpurged(ids, others) == \A p \in ToSet(ids), id \in ToSet(others) : ~IsPrefix(p, id)

LEMMA PurgeIs ==
  ASSUME NEW map \in Maps, NEW ids
  PROVE  LET new == Purge(map, ids) IN
         /\ new \in Maps
         /\ \A id \in DOMAIN new : \A p \in ToSet(ids) : ~IsPrefix(p, id)
         /\ \A others, v : Leads(map, others, v) /\ Unpurged(ids, others) => Leads(new, others, v)
<1> DEFINE D   == {id \in DOMAIN map : \A p \in ToSet(ids) : ~IsPrefix(p, id)}
           new == [id \in D |-> map[id]]
<1>1. Purge(map, ids) = new
  BY DEF Purge
<1>2. map \in [DOMAIN map -> MapValues] /\ DOMAIN map \subseteq Id
  BY MapIs
<1>3. DOMAIN new = D /\ new = [id \in DOMAIN new |-> new[id]] /\ \A id \in D : new[id] = map[id]
  OBVIOUS
<1>4. D \subseteq DOMAIN map
  OBVIOUS
<1>5. \A id \in D : \A p \in ToSet(ids) : ~IsPrefix(p, id)
  OBVIOUS
<1>6. \A id \in DOMAIN map : (\A p \in ToSet(ids) : ~IsPrefix(p, id)) => id \in D
  OBVIOUS
<1> HIDE DEF D, new
<1>7. new \in Maps
  BY <1>2, <1>3, <1>4, MapIs
<1>8. ASSUME NEW others, NEW v, Leads(map, others, v), Unpurged(ids, others) PROVE Leads(new, others, v)
  BY <1>3, <1>6, <1>8 DEF Leads, Unpurged
<1>9. QED
  BY <1>1, <1>3, <1>5, <1>7, <1>8

LEMMA RemapIs ==
  ASSUME NEW map \in Maps, NEW ids, NEW old, NEW v \in MapValues
  PROVE  LET new == Remap(map, ids, old, v) IN
         /\ new \in Maps
         /\ Leads(map, ids, old) => Leads(new, ids, v)
         /\ \A others, x : Leads(map, others, x) /\ ToSet(ids) \cap ToSet(others) = {} => Leads(new, others, x)
<1> DEFINE new == [id \in DOMAIN map |-> IF id \in ToSet(ids) /\ map[id] = old THEN v ELSE map[id]]
<1>1. Remap(map, ids, old, v) = new
  BY DEF Remap
<1>2. map \in [DOMAIN map -> MapValues] /\ DOMAIN map \subseteq Id
  BY MapIs
<1>3. /\ DOMAIN new = DOMAIN map /\ new = [id \in DOMAIN new |-> new[id]]
      /\ \A id \in DOMAIN map : new[id] = IF id \in ToSet(ids) /\ map[id] = old THEN v ELSE map[id]
  OBVIOUS
<1> HIDE DEF new
<1>4. new \in Maps
  BY <1>2, <1>3, MapIs
<1>5. Leads(map, ids, old) => Leads(new, ids, v)
  BY <1>3 DEF Leads
<1>6. ASSUME NEW others, NEW x, Leads(map, others, x), ToSet(ids) \cap ToSet(others) = {}
      PROVE  Leads(new, others, x)
  BY <1>3, <1>6 DEF Leads
<1>7. QED
  BY <1>1, <1>4, <1>5, <1>6

\* The document alone: found under its ids, whatever was below them is gone.
LEMMA DocumentMapIs ==
  ASSUME NEW d, objects \in Maps, paths[d] \in Seq(Id), ModelOf(disk[d]) \in MapValues
  PROVE  /\ DocumentMap(d) \in Maps
         /\ disk[d].kind # "empty" => Leads(DocumentMap(d), paths[d], ModelOf(disk[d]))
         /\ \A others, v : Leads(objects, others, v) /\ Unpurged(paths[d], others)
                           => Leads(DocumentMap(d), others, v)
<1> DEFINE ids == paths[d]
           v   == ModelOf(disk[d])
           purged == Purge(objects, ids)
           x   == Entry(ids, v)
           new == Register(purged, ids, v)
<1>1. /\ purged \in Maps
      /\ \A id \in DOMAIN purged : \A p \in ToSet(ids) : ~IsPrefix(p, id)
      /\ \A others, w : Leads(objects, others, w) /\ Unpurged(ids, others) => Leads(purged, others, w)
  BY PurgeIs
<1>2. DocumentMap(d) = IF disk[d].kind = "empty" THEN purged ELSE new
  BY DEF DocumentMap
<1>3. ids \in Seq(Id) /\ \A id \in ToSet(ids) : id \in Id
  BY MemberOfSeq
<1>4. x \in Entries /\ x = [ids |-> ids, value |-> v]
  BY DEF Entry, Entries
<1> HIDE DEF ids, v, purged, x
<1>5. Unregistered(purged, x)
  <2>1. \A id \in ToSet(ids) : IsPrefix(id, id)
    <3>1. TAKE id \in ToSet(ids)
    <3>2. id \in Id /\ Len(id) \in Nat
      BY <1>3, LenIsNat DEF Id
    <3>3. QED
      BY <3>2, PrefixIs
  <2>2. QED
    BY <1>1, <1>4, <2>1 DEF Unregistered
<1>6. new = Register(purged, x.ids, x.value)
  BY <1>4
<1> HIDE DEF new
<1>7. /\ new \in Maps /\ Extends(new, purged)
      /\ \A id \in DOMAIN new \ DOMAIN purged : id \in ToSet(x.ids) /\ new[id] = x.value
      /\ ToSet(x.ids) \subseteq DOMAIN new
  BY <1>1, <1>4, <1>5, <1>6, RegisterIs
<1>8. Leads(new, ids, v)
  BY <1>4, <1>5, <1>7 DEF Leads, Unregistered
<1>9. \A others, w : Leads(purged, others, w) => Leads(new, others, w)
  BY <1>7 DEF Leads, Extends
<1>10. QED
  BY <1>1, <1>2, <1>7, <1>8, <1>9 DEF ids, v

-----------------------------------------------------------------------------
(* The invariant.                                                          *)

Read(d) == (d[2] = Meta \/ key[d] # NoNode) /\ ModelOf(ast[d]) # NoModel

\* The files of a folder were found together: S are those that were there.
PathsIn(e, S) ==
  \A i \in 0..NS :
    /\ ToSet(paths[<<e, i>>]) = PlaceIds(e, S, i)
    /\ i = Meta \/ key[<<e, i>>] # NoNode => paths[<<e, i>>] # << >>

Mapped ==
  /\ objects \in Maps
  /\ paths \in [Doc -> Seq(Id)]
  /\ Leads(objects, << << >> >>, model)
  /\ \A e \in ECU : Leads(objects, EcuPaths(e), ecuModel[e])
  /\ \A e \in ECU : \E S \in SUBSET Item : PathsIn(e, S)
  /\ \A d \in Doc : Read(d) => Leads(objects, paths[d], ModelOf(ast[d]))

MapInv == ~Lost => Mapped

LEMMA AfterDocument ==
  ASSUME NamesAreNoPositions, TypeInv, Mapped, NEW d \in Doc
  PROVE  LET map == DocumentMap(d) IN
         /\ map \in Maps
         /\ Leads(map, << << >> >>, model)
         /\ \A e \in ECU : Leads(map, EcuPaths(e), ecuModel[e])
         /\ \A c \in Doc : c # d /\ Read(c) => Leads(map, paths[c], ModelOf(ast[c]))
         /\ disk[d].kind # "empty" => Leads(map, paths[d], ModelOf(disk[d]))
<1> DEFINE map == DocumentMap(d)
           e   == d[1]
           n   == d[2]
<1>1. e \in ECU /\ n \in 0..NS /\ d = <<e, n>> /\ paths[d] \in Seq(Id)
  BY NodeParts DEF Mapped
<1>2. ModelOf(disk[d]) \in MapValues
  BY ContentType, ModelOfType DEF TypeInv, TypeOK, MapValues
<1>3. /\ map \in Maps
      /\ disk[d].kind # "empty" => Leads(map, paths[d], ModelOf(disk[d]))
      /\ \A others, v : Leads(objects, others, v) /\ Unpurged(paths[d], others) => Leads(map, others, v)
  BY <1>1, <1>2, DocumentMapIs DEF Mapped
<1> HIDE DEF map
<1>4. PICK S \in SUBSET Item : PathsIn(e, S)
  BY <1>1 DEF Mapped
<1>5. ToSet(paths[d]) = PlaceIds(e, S, n)
  BY <1>1, <1>4 DEF PathsIn
<1> HIDE DEF e, n
<1>6. n \in Place
  BY <1>1 DEF Place
<1>7. Unpurged(paths[d], << << >> >>)
  <2>1. ToSet(<< << >> >>) = {<< >>}
    BY DEF ToSet
  <2>2. QED
    BY <1>1, <1>5, <1>6, <2>1, RootApart DEF Unpurged
<1>8. ASSUME NEW x \in ECU PROVE Unpurged(paths[d], EcuPaths(x))
  <2>1. ToSet(EcuPaths(x)) = PlaceIds(x, S, Dir)
    BY EcuPathsAre
  <2>2. n # Dir
    BY <1>1, SizeAssumption DEF Dir
  <2>3. \A p \in PlaceIds(e, S, n), id \in PlaceIds(x, S, Dir) : ~IsPrefix(p, id)
    BY <1>1, <2>2, NotUnderDoc
  <2>4. QED
    BY <1>5, <2>1, <2>3 DEF Unpurged
<1>9. ASSUME NEW c \in Doc, c # d PROVE Unpurged(paths[d], paths[c])
  <2>1. c[1] \in ECU /\ c[2] \in 0..NS /\ c = <<c[1], c[2]>>
    BY NodeParts
  <2>2. PICK T \in SUBSET Item : PathsIn(c[1], T)
    BY <2>1 DEF Mapped
  <2>3. ToSet(paths[c]) = PlaceIds(c[1], T, c[2])
    BY <2>1, <2>2 DEF PathsIn
  <2>4. CASE c[1] # e
    <3>1. \A p \in PlaceIds(e, S, n), id \in PlaceIds(c[1], T, c[2]) : ~IsPrefix(p, id)
      BY <1>1, <2>1, <2>4, NotUnderDoc
    <3>2. QED
      BY <1>5, <2>3, <3>1 DEF Unpurged
  <2>5. CASE c[1] = e
    <3>1. n # c[2]
      BY <1>1, <1>9, <2>1, <2>5
    <3>2. ToSet(paths[c]) = PlaceIds(e, S, c[2])
      BY <1>4, <2>1, <2>5 DEF PathsIn
    <3>3. \A p \in PlaceIds(e, S, n), id \in PlaceIds(e, S, c[2]) : ~IsPrefix(p, id)
      BY <1>1, <2>1, <3>1, NotUnderDoc
    <3>4. QED
      BY <1>5, <3>2, <3>3 DEF Unpurged
  <2>6. QED
    BY <2>4, <2>5
<1>10. Leads(map, << << >> >>, model)
  BY <1>3, <1>7 DEF Mapped
<1>11. \A x \in ECU : Leads(map, EcuPaths(x), ecuModel[x])
  BY <1>3, <1>8 DEF Mapped
<1>12. \A c \in Doc : c # d /\ Read(c) => Leads(map, paths[c], ModelOf(ast[c]))
  BY <1>3, <1>9 DEF Mapped
<1>13. QED
  BY <1>3, <1>10, <1>11, <1>12 DEF map

\* Ids that are not the root's.
LEMMA RootOnly ==
  /\ \A e \in ECU : ToSet(<< << >> >>) \cap ToSet(EcuPaths(e)) = {}
  /\ \A e \in ECU, S \in SUBSET Item, n \in Place : ToSet(<< << >> >>) \cap PlaceIds(e, S, n) = {}
<1>1. ToSet(<< << >> >>) = {<< >>}
  BY DEF ToSet
<1>2. ASSUME NEW e \in ECU, NEW S \in SUBSET Item, NEW n \in Place
      PROVE  << >> \notin PlaceIds(e, S, n)
  BY <1>2, RootApart
<1>3. ASSUME NEW e \in ECU PROVE ToSet(EcuPaths(e)) = PlaceIds(e, {}, Dir) /\ {} \in SUBSET Item /\ Dir \in Place
  BY EcuPathsAre DEF Place
<1>4. QED
  BY <1>1, <1>2, <1>3

LEMMA RebuiltMapped ==
  ASSUME NamesAreNoPositions, TypeInv, Sound, Mapped, NEW d \in Doc, key[d] # NoNode,
         disk[d].kind \notin {"absent", "garbled"}, RebuildEcu(d) # NoModel,
         Become([UpdateEcu(d) EXCEPT !.model = RootList(UpdateEcu(d), d[1])]), MapAfterReload(d)
  PROVE  Mapped'
<1> DEFINE e    == d[1]
           one  == DocumentMap(d)
           v    == RebuildEcu(d)
           two  == Remap(one, EcuPaths(e), ecuModel[e], v)
           root == RootList(UpdateEcu(d), e)
           three == Remap(two, << << >> >>, model, root)
<1>1. e \in ECU /\ d[2] \in 0..NS /\ d = <<e, d[2]>>
  BY NodeParts
<1>2. /\ UpdateEcu(d).key = key
      /\ UpdateEcu(d).ast = [ast EXCEPT ![d] = AstAfter(disk[d])]
      /\ UpdateEcu(d).ecuModel = [ecuModel EXCEPT ![e] = v]
  BY RebuiltSound
<1>3. /\ key' = key /\ ast' = [ast EXCEPT ![d] = AstAfter(disk[d])]
      /\ ecuModel' = [ecuModel EXCEPT ![e] = v] /\ model' = root
  <2> DEFINE ws == UpdateEcu(d)
  <2>1. ws = [ast |-> ws.ast, key |-> ws.key, diags |-> ws.diags, ecuModel |-> ws.ecuModel,
              model |-> ws.model, returned |-> ws.returned]
    BY DEF UpdateEcu, ReloadDocument
  <2> HIDE DEF ws
  <2>2. /\ key' = ws.key /\ ast' = ws.ast /\ ecuModel' = ws.ecuModel /\ model' = RootList(ws, e)
    BY <2>1 DEF Become, ws
  <2>3. QED
    BY <1>2, <2>2 DEF ws
<1>4. objects' = three /\ paths' = paths
  BY DEF MapAfterReload, EcuMap, EcuDocPaths
<1>5. /\ one \in Maps
      /\ Leads(one, << << >> >>, model)
      /\ \A x \in ECU : Leads(one, EcuPaths(x), ecuModel[x])
      /\ \A c \in Doc : c # d /\ Read(c) => Leads(one, paths[c], ModelOf(ast[c]))
      /\ disk[d].kind # "empty" => Leads(one, paths[d], ModelOf(disk[d]))
  BY AfterDocument
<1>6. disk[d].kind # "empty" /\ disk[d] \in Content
  <2>1. disk[d] \in Content
    BY ContentType DEF TypeInv, TypeOK
  <2>2. ModelOf(disk[d]) # NoModel
    BY DEF RebuildEcu, ItemValue
  <2>3. QED
    BY <2>1, <2>2, Kinds DEF Usable
<1>7. v \in MapValues /\ root \in MapValues
  <2>1. v \in EcuValue
    BY RebuildEcuType
  <2>2. root \in Seq(EcuModel)
    <3>1. WsOK([UpdateEcu(d) EXCEPT !.model = root])
      BY PartialReloadOK
    <3>2. [UpdateEcu(d) EXCEPT !.model = root].model = root
      BY DEF UpdateEcu, ReloadDocument
    <3> HIDE DEF root
    <3>3. QED
      BY <3>1, <3>2 DEF WsOK
  <2>3. QED
    BY <2>1, <2>2 DEF MapValues, EcuValue
<1> HIDE DEF one, v, root
<1>8. /\ two \in Maps
      /\ Leads(two, EcuPaths(e), v)
      /\ \A others, x : Leads(one, others, x) /\ ToSet(EcuPaths(e)) \cap ToSet(others) = {}
                        => Leads(two, others, x)
  BY <1>1, <1>5, <1>7, RemapIs
<1> HIDE DEF two
<1>9. Leads(two, << << >> >>, model)
  BY <1>1, <1>5, <1>8, RootOnly
<1>10. /\ three \in Maps
       /\ Leads(three, << << >> >>, root)
       /\ \A others, x : Leads(two, others, x) /\ ToSet(<< << >> >>) \cap ToSet(others) = {}
                         => Leads(three, others, x)
  BY <1>7, <1>8, <1>9, RemapIs
<1> HIDE DEF three
<1>11. ASSUME NEW x \in ECU PROVE Leads(three, EcuPaths(x), ecuModel'[x])
  <2>1. ecuModel'[x] = IF x = e THEN v ELSE ecuModel[x]
    BY <1>3 DEF TypeInv, TypeOK
  <2>2. CASE x = e
    BY <1>8, <1>10, <2>1, <2>2, RootOnly
  <2>3. CASE x # e
    <3>1. ToSet(EcuPaths(e)) = PlaceIds(e, {}, Dir) /\ ToSet(EcuPaths(x)) = PlaceIds(x, {}, Dir)
      BY <1>1, EcuPathsAre
    <3>2. {} \in SUBSET Item /\ Dir \in Place
      BY DEF Place
    <3>3. ToSet(EcuPaths(e)) \cap ToSet(EcuPaths(x)) = {}
      BY <1>1, <2>3, <3>1, <3>2, PlacesApart
    <3>4. Leads(two, EcuPaths(x), ecuModel[x])
      BY <1>5, <1>8, <3>3
    <3>5. QED
      BY <1>10, <2>1, <2>3, <3>4, RootOnly
  <2>4. QED
    BY <2>2, <2>3
<1>12. ASSUME NEW c \in Doc, Read(c)' PROVE Leads(three, paths[c], ModelOf(ast'[c]))
  <2>1. c[1] \in ECU /\ c[2] \in 0..NS /\ c = <<c[1], c[2]>> /\ c[2] \in Place
    BY NodeParts DEF Place
  <2>2. PICK T \in SUBSET Item : PathsIn(c[1], T)
    BY <2>1 DEF Mapped
  <2>3. ToSet(paths[c]) = PlaceIds(c[1], T, c[2])
    BY <2>1, <2>2 DEF PathsIn
  <2>4. ToSet(EcuPaths(e)) \cap ToSet(paths[c]) = {}
    <3>1. ToSet(EcuPaths(e)) = PlaceIds(e, T, Dir) /\ Dir \in Place /\ Dir # c[2]
      BY <1>1, <2>1, EcuPathsAre, SizeAssumption DEF Place, Dir
    <3>2. PlaceIds(e, T, Dir) \cap PlaceIds(c[1], T, c[2]) = {}
      BY <1>1, <2>1, <3>1, PlacesApart
    <3>3. QED
      BY <2>3, <3>1, <3>2
  <2>5. ToSet(<< << >> >>) \cap ToSet(paths[c]) = {}
    BY <2>1, <2>3, RootOnly
  <2>6. Leads(one, paths[c], ModelOf(ast'[c]))
    <3>1. ast'[c] = IF c = d THEN AstAfter(disk[d]) ELSE ast[c]
      BY <1>3 DEF TypeInv, TypeOK
    <3>2. CASE c = d
      <4>1. ModelOf(ast'[c]) = ModelOf(disk[d])
        BY <1>6, <3>1, <3>2, AfterSame
      <4>2. QED
        BY <1>5, <1>6, <3>2, <4>1
    <3>3. CASE c # d
      <4>1. Read(c)
        BY <1>3, <1>12, <3>1, <3>3 DEF Read
      <4>2. QED
        BY <1>5, <3>1, <3>3, <4>1
    <3>4. QED
      BY <3>2, <3>3
  <2>7. QED
    BY <1>8, <1>10, <2>4, <2>5, <2>6
<1>13. ASSUME NEW x \in ECU PROVE \E S \in SUBSET Item : PathsIn(x, S)'
  <2>1. PICK S \in SUBSET Item : PathsIn(x, S)
    BY DEF Mapped
  <2>2. PathsIn(x, S)'
    BY <1>3, <1>4, <2>1 DEF PathsIn
  <2>3. QED
    BY <2>2
<1>14. QED
  BY <1>3, <1>4, <1>10, <1>11, <1>12, <1>13 DEF Mapped

\* The directory of the ECU read again, for the object map.
LEMMA SeenAgain ==
  ASSUME TypeInv, FilesAllowed, Sound, NEW d \in Doc, key[d] # NoNode,
         disk[d].kind \notin {"absent", "garbled"}, RebuildEcu(d) = NoModel
  PROVE  LET ws   == UpdateEcu(d)
             seen == Seen(ReloadDocument(d).ast)
             e    == d[1]
         IN /\ seen \in [Doc -> Content] /\ ~Unparsable(seen, e)
            /\ ws.ecuModel = [ecuModel EXCEPT ![e] = LoadEcu(seen, e)]
            /\ \A c \in Doc : c[1] # e => ws.ast[c] = ast[c] /\ ws.key[c] = key[c]
            /\ \A i \in 0..NS : i = Meta \/ ws.key[<<e, i>>] # NoNode =>
                 /\ i \in Present(seen, e) \cup {Meta}
                 /\ ModelOf(ws.ast[<<e, i>>]) = ModelOf(seen[<<e, i>>])
<1> DEFINE ws   == UpdateEcu(d)
           one  == ReloadDocument(d)
           asts == one.ast
           seen == Seen(asts)
           e    == d[1]
<1>1. e \in ECU /\ d = <<e, d[2]>> /\ d[2] \in Item
  BY OnlySwitchesBreak, NodeParts
<1>2. /\ asts = [ast EXCEPT ![d] = AstAfter(disk[d])] /\ one.key = key /\ one.ecuModel = ecuModel
  BY DEF ReloadDocument
<1>3. /\ ast \in [Doc -> Content] /\ disk \in [Doc -> Content] /\ asts \in [Doc -> Content]
      /\ seen \in [Doc -> Content] /\ key \in [Node -> Nat \cup {NoNode}]
  <2>1. ast \in [Doc -> Content] /\ disk \in [Doc -> Content]
    BY ContentType DEF TypeInv, TypeOK
  <2>2. asts \in [Doc -> Content]
    BY <1>2, <2>1, ContentType
  <2>3. seen \in [Doc -> Content]
    BY <2>2, SeenType
  <2>4. QED
    BY <2>1, <2>2, <2>3 DEF TypeInv, TypeOK
<1>4. ws = ReloadEcu(one, e)
  BY DEF UpdateEcu
<1> HIDE DEF asts, one
<1>5. \A c \in Doc : seen[c] = IF disk[c] = Absent THEN Absent
                               ELSE IF asts[c] = Unopened THEN disk[c] ELSE asts[c]
  BY DEF Seen
<1>6. /\ \A c \in Doc : ws.ast[c] = IF c \in NodesOf(seen, e) /\ seen[c].kind \notin {"absent", "garbled"}
                                      THEN AstAfter(seen[c]) ELSE asts[c]
      /\ \A n \in Node : ws.key[n] = IF n \in NodesOf(seen, e)
                                       THEN IF n[2] = Dir THEN key[n] ELSE KeyOf(seen, n)
                                     ELSE IF n \in EcuNodes(e) THEN NoNode ELSE key[n]
      /\ ws.ecuModel = [ecuModel EXCEPT ![e] = LoadEcu(seen, e)]
  BY <1>2, <1>4 DEF ReloadEcu, asts
<1> HIDE DEF ws, seen
<1>7. \A c \in Doc : asts[c].kind # "garbled" /\ (c # d => asts[c] = ast[c])
  <2>1. AstAfter(disk[d]).kind # "garbled"
    BY <1>3, AfterSame
  <2>2. \A c \in Doc : ast[c].kind # "garbled"
    BY DEF Sound
  <2>3. QED
    BY <1>2, <1>3, <2>1, <2>2
<1>8. \A i \in Item : <<e, i>> \in Doc /\ i # Meta /\ i \in 0..NS
  BY <1>1, NodeParts, SizeAssumption DEF Item, Meta
<1>9. \A i \in Item : seen[<<e, i>>].kind # "garbled"
  <2> TAKE i \in Item
  <2>1. disk[<<e, i>>].kind # "garbled"
    BY <1>8 DEF FilesAllowed
  <2>2. QED
    BY <1>5, <1>7, <1>8, <2>1 DEF Absent
<1>10. Raising(seen, e) = {} /\ Visited(seen, e) = Present(seen, e) /\ Present(seen, e) \subseteq Item
  BY <1>9 DEF Raising, Visited, Present
<1>11. <<e, Meta>> \in Doc /\ <<e, Meta>> # d /\ Meta \in 0..NS /\ Meta # Dir
  BY <1>1, NodeParts, SizeAssumption DEF Item, Meta, Dir
<1>12. ModelOf(seen[<<e, Meta>>]) # NoModel
  <2>1. disk[<<e, Meta>>].kind \in Loadable \cup {"garbled"}
    BY <1>1 DEF FilesAllowed
  <2>2. disk[<<e, Meta>>] # Absent
    BY <2>1 DEF Absent, Loadable
  <2>3. ModelOf(ast[<<e, Meta>>]) \in ValueModel
    BY <1>1 DEF Sound, Placed, EcuModel
  <2>4. ast[<<e, Meta>>] # Unopened
    BY <2>3, NoneAssumption DEF Unopened, ModelOf, Usable
  <2>5. QED
    BY <1>5, <1>7, <1>11, <2>2, <2>3, <2>4, NoneAssumption
<1>13. ASSUME NEW i \in 0..NS, i = Meta \/ ws.key[<<e, i>>] # NoNode
       PROVE  /\ i \in Present(seen, e) \cup {Meta}
              /\ ModelOf(ws.ast[<<e, i>>]) = ModelOf(seen[<<e, i>>])
  <2>1. <<e, i>> \in Doc /\ <<e, i>> \in Node /\ <<e, i>> \in EcuNodes(e) /\ i # Dir
    BY <1>1, NodeParts, SizeAssumption DEF EcuNodes, Dir
  <2>2. <<e, i>> \in NodesOf(seen, e)
    <3>1. CASE i = Meta
      BY <3>1 DEF NodesOf
    <3>2. CASE ws.key[<<e, i>>] # NoNode
      BY <1>6, <2>1, <3>2
    <3>3. QED
      BY <1>13, <3>1, <3>2
  <2>3. i \in Present(seen, e) \cup {Meta}
    BY <1>10, <2>1, <2>2 DEF NodesOf
  <2>4. seen[<<e, i>>].kind \notin {"absent", "garbled"} /\ seen[<<e, i>>] \in Content
    <3>1. CASE i \in Present(seen, e)
      BY <1>3, <1>9, <1>10, <2>1, <3>1 DEF Present
    <3>2. CASE i = Meta
      BY <1>3, <1>11, <1>12, <3>2, Kinds DEF Usable
    <3>3. QED
      BY <2>3, <3>1, <3>2
  <2>5. QED
    BY <1>6, <2>1, <2>2, <2>3, <2>4, AfterSame
<1>14. ASSUME NEW c \in Doc, c[1] # e PROVE ws.ast[c] = ast[c] /\ ws.key[c] = key[c]
  <2>1. c \notin NodesOf(seen, e) /\ c \notin EcuNodes(e) /\ c # d /\ c \in Node
    BY <1>1, <1>14, NodeParts DEF NodesOf, EcuNodes
  <2>2. QED
    BY <1>6, <1>7, <2>1
<1>15. ~Unparsable(seen, e)
  BY <1>10 DEF Unparsable
<1>16. QED
  BY <1>3, <1>6, <1>13, <1>14, <1>15 DEF ws, seen, asts, one

\* What the loader registers for an ECU of which nothing is in the map.
LEMMA EcuEntriesFound ==
  ASSUME NamesAreNoPositions, NEW seen \in [Doc -> Content], NEW e \in ECU, ~Unparsable(seen, e),
         NEW map \in Maps, \A n \in Place : \A id \in PlaceIds(e, Present(seen, e), n) : id \notin DOMAIN map
  PROVE  LET new == RegisterAll(map, EcuEntries(seen, e)) IN
         /\ new \in Maps /\ Extends(new, map)
         /\ Leads(new, EcuPaths(e), LoadEcu(seen, e))
         /\ \A i \in 0..NS : ModelOf(seen[<<e, i>>]) # NoModel =>
              Leads(new, DocPaths(seen, <<e, i>>), ModelOf(seen[<<e, i>>]))
<1> DEFINE F   == EntriesOf(seen, e)
           all == EcuEntries(seen, e)
           new == RegisterAll(map, all)
<1>1. F \subseteq Entries /\ NoneShared(F)
  <2>1. UNION {EntriesOf(seen, x) : x \in {e}} = F
    OBVIOUS
  <2>2. {e} \in SUBSET ECU /\ \A x \in {e} : ~Unparsable(seen, x)
    OBVIOUS
  <2> HIDE DEF F
  <2>3. QED
    BY <2>1, <2>2, EntriesApart
<1>2. Whole(map, F)
  <2>1. ASSUME NEW x \in F PROVE Unregistered(map, x)
    <3>1. PICK n \in Place : x = EntryAt(seen, e, n)
      BY DEF EntriesOf
    <3>2. ToSet(x.ids) = PlaceIds(e, Present(seen, e), n)
      BY <3>1, EntryAtIs
    <3>3. QED
      BY <3>2 DEF Unregistered
  <2>2. QED
    BY <2>1 DEF Whole
<1>3. /\ all \in Seq(F) /\ EcuEntry(seen, e) \in ToSet(all)
      /\ \A i \in 0..NS : ModelOf(seen[<<e, i>>]) # NoModel => FileEntry(seen, <<e, i>>) \in ToSet(all)
  BY EcuEntriesAre
<1> HIDE DEF F, all
<1>4. new \in Maps /\ Extends(new, map) /\ \A x \in ToSet(all) : Registered(new, x)
  BY <1>1, <1>2, <1>3, RegisterAllWhole
<1> HIDE DEF new
<1>5. Leads(new, EcuPaths(e), LoadEcu(seen, e))
  BY <1>3, <1>4 DEF Registered, EcuEntry, Entry
<1>6. ASSUME NEW i \in 0..NS, ModelOf(seen[<<e, i>>]) # NoModel
      PROVE  Leads(new, DocPaths(seen, <<e, i>>), ModelOf(seen[<<e, i>>]))
  <2>1. Registered(new, FileEntry(seen, <<e, i>>))
    BY <1>3, <1>4, <1>6
  <2>2. QED
    BY <2>1 DEF Registered, FileEntry, Entry
<1>7. QED
  BY <1>4, <1>5, <1>6 DEF new, all

LEMMA ReadAgainMapped ==
  ASSUME NamesAreNoPositions, TypeInv, FilesAllowed, Sound, Mapped, NEW d \in Doc, key[d] # NoNode,
         disk[d].kind \notin {"absent", "garbled"}, RebuildEcu(d) = NoModel,
         Become([UpdateEcu(d) EXCEPT !.model = RootList(UpdateEcu(d), d[1])]), MapAfterReload(d)
  PROVE  Mapped'
<1> DEFINE e     == d[1]
           seen  == Seen(ReloadDocument(d).ast)
           ws    == UpdateEcu(d)
           one   == DocumentMap(d)
           two   == Purge(one, EcuPaths(e))
           three == RegisterAll(two, EcuEntries(seen, e))
           root  == RootList(ws, e)
           four  == Remap(three, << << >> >>, model, root)
           S     == Present(seen, e)
<1>1. e \in ECU /\ d[2] \in 0..NS /\ d = <<e, d[2]>> /\ S \in SUBSET Item
  BY NodeParts DEF Present
<1>2. /\ seen \in [Doc -> Content] /\ ~Unparsable(seen, e)
      /\ ws.ecuModel = [ecuModel EXCEPT ![e] = LoadEcu(seen, e)]
      /\ \A c \in Doc : c[1] # e => ws.ast[c] = ast[c] /\ ws.key[c] = key[c]
      /\ \A i \in 0..NS : i = Meta \/ ws.key[<<e, i>>] # NoNode =>
           /\ i \in S \cup {Meta}
           /\ ModelOf(ws.ast[<<e, i>>]) = ModelOf(seen[<<e, i>>])
  BY SeenAgain
<1>3. /\ key' = ws.key /\ ast' = ws.ast /\ ecuModel' = ws.ecuModel /\ model' = root
  <2>1. ws = [ast |-> ws.ast, key |-> ws.key, diags |-> ws.diags, ecuModel |-> ws.ecuModel,
              model |-> ws.model, returned |-> ws.returned]
    BY DEF UpdateEcu, ReloadEcu
  <2> HIDE DEF ws
  <2>2. QED
    BY <2>1 DEF Become, ws
<1>4. /\ objects' = four
      /\ paths' = [c \in Doc |-> IF c[1] = e THEN DocPaths(seen, c) ELSE paths[c]]
  BY DEF MapAfterReload, EcuMap, EcuDocPaths
<1>5. /\ one \in Maps
      /\ Leads(one, << << >> >>, model)
      /\ \A x \in ECU : Leads(one, EcuPaths(x), ecuModel[x])
      /\ \A c \in Doc : c # d /\ Read(c) => Leads(one, paths[c], ModelOf(ast[c]))
  BY AfterDocument
<1>6. root \in MapValues
  <2>1. WsOK([UpdateEcu(d) EXCEPT !.model = root])
    BY PartialReloadOK
  <2>2. [UpdateEcu(d) EXCEPT !.model = root].model = root
    BY DEF UpdateEcu, ReloadEcu
  <2> HIDE DEF root
  <2>3. QED
    BY <2>1, <2>2 DEF WsOK, MapValues
<1> HIDE DEF one, root, ws, seen, S
<1>7. /\ two \in Maps
      /\ \A id \in DOMAIN two : \A p \in ToSet(EcuPaths(e)) : ~IsPrefix(p, id)
      /\ \A others, v : Leads(one, others, v) /\ Unpurged(EcuPaths(e), others) => Leads(two, others, v)
  BY <1>5, PurgeIs
<1> HIDE DEF two
<1>8. \A n \in Place : \A id \in PlaceIds(e, S, n) : id \notin DOMAIN two
  BY <1>1, <1>7, UnderEcu
<1>9. /\ three \in Maps /\ Extends(three, two)
      /\ Leads(three, EcuPaths(e), LoadEcu(seen, e))
      /\ \A i \in 0..NS : ModelOf(seen[<<e, i>>]) # NoModel =>
           Leads(three, DocPaths(seen, <<e, i>>), ModelOf(seen[<<e, i>>]))
  BY <1>1, <1>2, <1>7, <1>8, EcuEntriesFound DEF S
<1>10. \A others, v : Leads(two, others, v) => Leads(three, others, v)
  BY <1>9 DEF Leads, Extends
<1> HIDE DEF three
<1>11. Leads(three, << << >> >>, model)
  <2>1. ToSet(<< << >> >>) = {<< >>}
    BY DEF ToSet
  <2>2. \A p \in ToSet(EcuPaths(e)) : ~IsPrefix(p, << >>)
    <3>1. ToSet(EcuPaths(e)) = PlaceIds(e, S, Dir) /\ Dir \in Place
      BY <1>1, EcuPathsAre DEF Place
    <3>2. QED
      BY <1>1, <3>1, RootApart
  <2>3. Unpurged(EcuPaths(e), << << >> >>)
    BY <2>1, <2>2 DEF Unpurged
  <2>4. QED
    BY <1>5, <1>7, <1>10, <2>3
<1>12. /\ four \in Maps
       /\ Leads(four, << << >> >>, root)
       /\ \A others, v : Leads(three, others, v) /\ ToSet(<< << >> >>) \cap ToSet(others) = {}
                         => Leads(four, others, v)
  BY <1>6, <1>9, <1>11, RemapIs
<1> HIDE DEF four
<1>13. ASSUME NEW x \in ECU PROVE Leads(four, EcuPaths(x), ecuModel'[x])
  <2>1. ecuModel'[x] = IF x = e THEN LoadEcu(seen, e) ELSE ecuModel[x]
    BY <1>2, <1>3 DEF TypeInv, TypeOK
  <2>2. CASE x = e
    BY <1>9, <1>12, <2>1, <2>2, RootOnly
  <2>3. CASE x # e
    <3>1. ToSet(EcuPaths(x)) = PlaceIds(x, {}, Dir) /\ {} \in SUBSET Item /\ Dir \in Place
      BY EcuPathsAre DEF Place
    <3>2. \A p \in ToSet(EcuPaths(e)), id \in PlaceIds(x, {}, Dir) : ~IsPrefix(p, id)
      BY <1>1, <2>3, <3>1, NotUnderEcu
    <3>3. Unpurged(EcuPaths(e), EcuPaths(x))
      BY <3>1, <3>2 DEF Unpurged
    <3>4. Leads(three, EcuPaths(x), ecuModel[x])
      BY <1>5, <1>7, <1>10, <3>3
    <3>5. QED
      BY <1>12, <2>1, <2>3, <3>4, RootOnly
  <2>4. QED
    BY <2>2, <2>3
<1>14. ASSUME NEW i \in 0..NS
       PROVE  /\ DocPaths(seen, <<e, i>>) \in Seq(Id)
              /\ ToSet(DocPaths(seen, <<e, i>>)) = PlaceIds(e, S, i)
              /\ i \in S \cup {Meta} => DocPaths(seen, <<e, i>>) # << >>
  BY <1>1, <1>2, DocPathsAre DEF Unparsable, S
<1>15. ASSUME NEW c \in Doc, Read(c)' PROVE Leads(four, paths'[c], ModelOf(ast'[c]))
  <2>1. c[1] \in ECU /\ c[2] \in 0..NS /\ c = <<c[1], c[2]>> /\ c[2] \in Place
    BY NodeParts DEF Place
  <2>2. CASE c[1] = e
    <3> DEFINE i == c[2]
    <3>1. c = <<e, i>> /\ paths'[c] = DocPaths(seen, <<e, i>>)
      BY <1>4, <2>1, <2>2
    <3>2. i = Meta \/ ws.key[<<e, i>>] # NoNode
      BY <1>3, <1>15, <3>1 DEF Read
    <3>3. ModelOf(ast'[c]) = ModelOf(seen[<<e, i>>])
      BY <1>2, <1>3, <2>1, <3>1, <3>2
    <3>4. ModelOf(seen[<<e, i>>]) # NoModel
      BY <1>15, <3>3 DEF Read
    <3>5. Leads(three, paths'[c], ModelOf(ast'[c]))
      BY <1>9, <2>1, <3>1, <3>3, <3>4
    <3>6. ToSet(paths'[c]) = PlaceIds(e, S, i)
      BY <1>14, <2>1, <3>1
    <3>7. ToSet(<< << >> >>) \cap ToSet(paths'[c]) = {}
      BY <1>1, <2>1, <3>6, RootOnly
    <3>8. QED
      BY <1>12, <3>5, <3>7
  <2>3. CASE c[1] # e
    <3>1. ast'[c] = ast[c] /\ key'[c] = key[c] /\ paths'[c] = paths[c]
      BY <1>2, <1>3, <1>4, <2>3
    <3>2. Read(c) /\ c # d
      BY <1>15, <2>3, <3>1 DEF Read
    <3>3. PICK T \in SUBSET Item : PathsIn(c[1], T)
      BY <2>1 DEF Mapped
    <3>4. ToSet(paths[c]) = PlaceIds(c[1], T, c[2])
      BY <2>1, <3>3 DEF PathsIn
    <3>5. \A p \in ToSet(EcuPaths(e)), id \in PlaceIds(c[1], T, c[2]) : ~IsPrefix(p, id)
      BY <1>1, <2>1, <2>3, NotUnderEcu
    <3>6. Unpurged(EcuPaths(e), paths[c])
      BY <3>4, <3>5 DEF Unpurged
    <3>7. Leads(three, paths[c], ModelOf(ast[c]))
      BY <1>5, <1>7, <1>10, <3>2, <3>6
    <3>8. ToSet(<< << >> >>) \cap ToSet(paths[c]) = {}
      BY <2>1, <3>4, RootOnly
    <3>9. QED
      BY <1>12, <3>1, <3>7, <3>8
  <2>4. QED
    BY <2>2, <2>3
<1>16. paths' \in [Doc -> Seq(Id)]
  <2>1. \A c \in Doc : (IF c[1] = e THEN DocPaths(seen, c) ELSE paths[c]) \in Seq(Id)
    <3> TAKE c \in Doc
    <3>1. c[2] \in 0..NS /\ c = <<c[1], c[2]>>
      BY NodeParts
    <3>2. c[1] = e => DocPaths(seen, c) \in Seq(Id)
      BY <1>14, <3>1
    <3>3. QED
      BY <3>2 DEF Mapped
  <2>2. QED
    BY <1>4, <2>1
<1>17. ASSUME NEW x \in ECU PROVE \E T \in SUBSET Item : PathsIn(x, T)'
  <2>1. \A i \in 0..NS : <<x, i>> \in Doc /\ <<x, i>>[1] = x
    BY NodeParts
  <2>2. CASE x = e
    <3>1. \A i \in 0..NS : paths'[<<e, i>>] = DocPaths(seen, <<e, i>>)
      BY <1>4, <2>1, <2>2
    <3>2. PICK T \in SUBSET Item : T = S
      BY <1>1
    <3>3. \A i \in 0..NS : /\ ToSet(paths'[<<x, i>>]) = PlaceIds(x, T, i)
                           /\ i = Meta \/ key'[<<x, i>>] # NoNode => paths'[<<x, i>>] # << >>
      BY <1>2, <1>3, <1>14, <2>2, <3>1, <3>2
    <3>4. PathsIn(x, T)'
      BY <3>3 DEF PathsIn
    <3>5. QED
      BY <3>4
  <2>3. CASE x # e
    <3>1. PICK T \in SUBSET Item : PathsIn(x, T)
      BY DEF Mapped
    <3>2. \A i \in 0..NS : paths'[<<x, i>>] = paths[<<x, i>>] /\ key'[<<x, i>>] = key[<<x, i>>]
      BY <1>2, <1>3, <1>4, <2>1, <2>3
    <3>3. PathsIn(x, T)'
      BY <3>1, <3>2 DEF PathsIn
    <3>4. QED
      BY <3>3
  <2>4. QED
    BY <2>2, <2>3
<1>18. QED
  BY <1>3, <1>4, <1>12, <1>13, <1>15, <1>16, <1>17 DEF Mapped

\* After a full load.
LEMMA LoadedMapped ==
  ASSUME NamesAreNoPositions, disk \in [Doc -> Text], NothingGarbled(disk), NEW map, NEW places,
         map = FullMap(disk), places = FullPaths(disk)
  PROVE  /\ map \in Maps /\ places \in [Doc -> Seq(Id)]
         /\ Leads(map, << << >> >>, FullLoad.model)
         /\ \A e \in ECU : Leads(map, EcuPaths(e), FullLoad.ecuModel[e])
         /\ \A e \in ECU : \E S \in SUBSET Item : \A i \in 0..NS :
              /\ ToSet(places[<<e, i>>]) = PlaceIds(e, S, i)
              /\ i = Meta \/ FullLoad.key[<<e, i>>] # NoNode => places[<<e, i>>] # << >>
         /\ \A d \in Doc : ModelOf(FullLoad.ast[d]) # NoModel =>
              Leads(map, places[d], ModelOf(FullLoad.ast[d]))
<1>1. disk \in [Doc -> Content]
  BY ContentType
<1>2. \A e \in ECU : Raising(disk, e) = {} /\ Visited(disk, e) = Present(disk, e) /\ ~Unparsable(disk, e)
  <2> TAKE e \in ECU
  <2>1. \A i \in Item : disk[<<e, i>>].kind # "garbled"
    BY NodeParts, SizeAssumption DEF NothingGarbled, Item
  <2>2. Raising(disk, e) = {}
    BY <2>1 DEF Raising, Present
  <2>3. QED
    BY <2>2 DEF Visited, Present, Unparsable
<1>3. /\ map \in Maps
      /\ Leads(map, << << >> >>, LoadModel(disk))
      /\ \A e \in ECU : Leads(map, EcuPaths(e), LoadEcu(disk, e))
      /\ \A e \in ECU : \A i \in 0..NS : ModelOf(disk[<<e, i>>]) # NoModel =>
           Leads(map, DocPaths(disk, <<e, i>>), ModelOf(disk[<<e, i>>]))
  BY <1>1, <1>2, FullMapIs
<1>4. /\ FullLoad.model = LoadModel(disk)
      /\ \A e \in ECU : FullLoad.ecuModel[e] = LoadEcu(disk, e)
      /\ \A n \in Node : FullLoad.key[n] # NoNode => n \in FullNodes(disk)
      /\ \A d \in Doc : FullLoad.ast[d] = IF disk[d] = Absent THEN Unopened ELSE AstAfter(disk[d])
  BY DEF FullLoad
<1>5. places = [d \in Doc |-> DocPaths(disk, d)]
  BY DEF FullPaths
<1>6. ASSUME NEW e \in ECU, NEW i \in 0..NS
      PROVE  /\ places[<<e, i>>] = DocPaths(disk, <<e, i>>)
             /\ DocPaths(disk, <<e, i>>) \in Seq(Id)
             /\ ToSet(DocPaths(disk, <<e, i>>)) = PlaceIds(e, Present(disk, e), i)
             /\ i = Meta \/ FullLoad.key[<<e, i>>] # NoNode => DocPaths(disk, <<e, i>>) # << >>
  <2>1. <<e, i>> \in Doc /\ <<e, i>> \in Node /\ i # Dir
    BY NodeParts, SizeAssumption DEF Dir
  <2>2. /\ DocPaths(disk, <<e, i>>) \in Seq(Id)
        /\ ToSet(DocPaths(disk, <<e, i>>)) = PlaceIds(e, Present(disk, e), i)
        /\ i \in Present(disk, e) \cup {Meta} => DocPaths(disk, <<e, i>>) # << >>
    BY <1>2, DocPathsAre
  <2>3. FullLoad.key[<<e, i>>] # NoNode => i \in Present(disk, e) \cup {Meta}
    <3>1. <<e, i>> \in FullNodes(disk) => i \in Visited(disk, e) \cup {Meta}
      BY <2>1 DEF FullNodes, NodesOf
    <3>2. QED
      BY <1>2, <1>4, <2>1, <3>1
  <2>4. QED
    BY <1>5, <2>1, <2>2, <2>3
<1>7. places \in [Doc -> Seq(Id)]
  <2>1. \A d \in Doc : DocPaths(disk, d) \in Seq(Id)
    BY <1>6, NodeParts
  <2>2. QED
    BY <1>5, <2>1
<1>8. ASSUME NEW e \in ECU
      PROVE  \E S \in SUBSET Item : \A i \in 0..NS :
               /\ ToSet(places[<<e, i>>]) = PlaceIds(e, S, i)
               /\ i = Meta \/ FullLoad.key[<<e, i>>] # NoNode => places[<<e, i>>] # << >>
  <2>1. Present(disk, e) \in SUBSET Item
    BY DEF Present
  <2>2. QED
    BY <1>6, <2>1
<1>9. ASSUME NEW d \in Doc, ModelOf(FullLoad.ast[d]) # NoModel
      PROVE  Leads(map, places[d], ModelOf(FullLoad.ast[d]))
  <2>1. d[1] \in ECU /\ d[2] \in 0..NS /\ d = <<d[1], d[2]>> /\ disk[d] \in Content
    BY <1>1, NodeParts
  <2>2. disk[d] # Absent
    BY <1>4, <1>9 DEF Unopened, ModelOf, Usable
  <2>3. ModelOf(FullLoad.ast[d]) = ModelOf(disk[d])
    BY <1>4, <2>1, <2>2, AfterSame
  <2>4. QED
    BY <1>3, <1>6, <1>9, <2>1, <2>3
<1>10. QED
  BY <1>3, <1>4, <1>7, <1>8, <1>9

LEMMA ResetMapped ==
  ASSUME NamesAreNoPositions, TypeInv, ECU # {}, ResetAndReload, MapAfterReset
  PROVE  MapInv'
<1>1. CASE ~NothingGarbled(disk)
  <2>1. key' = [n \in Node |-> NoNode]
    BY <1>1 DEF ResetAndReload, Become, FailedLoad
  <2>2. Lost'
    BY <2>1 DEF Lost
  <2>3. QED
    BY <2>2 DEF MapInv
<1>2. CASE NothingGarbled(disk)
  <2>1. objects' = FullMap(disk) /\ paths' = FullPaths(disk) /\ disk \in [Doc -> Text]
    BY <1>2 DEF MapAfterReset, TypeInv, TypeOK
  <2>2. /\ ast' = FullLoad.ast /\ key' = FullLoad.key
        /\ ecuModel' = FullLoad.ecuModel /\ model' = FullLoad.model
    BY <1>2 DEF ResetAndReload, Become
  <2> DEFINE map == FullMap(disk)
             places == FullPaths(disk)
  <2>3. /\ map \in Maps /\ places \in [Doc -> Seq(Id)]
        /\ Leads(map, << << >> >>, FullLoad.model)
        /\ \A e \in ECU : Leads(map, EcuPaths(e), FullLoad.ecuModel[e])
        /\ \A e \in ECU : \E S \in SUBSET Item : \A i \in 0..NS :
             /\ ToSet(places[<<e, i>>]) = PlaceIds(e, S, i)
             /\ i = Meta \/ FullLoad.key[<<e, i>>] # NoNode => places[<<e, i>>] # << >>
        /\ \A d \in Doc : ModelOf(FullLoad.ast[d]) # NoModel =>
             Leads(map, places[d], ModelOf(FullLoad.ast[d]))
    BY <1>2, <2>1, LoadedMapped
  <2> HIDE DEF map, places
  <2>4. objects' = map /\ paths' = places
    BY <2>1 DEF map, places
  <2>5. Mapped'
    BY <2>2, <2>3, <2>4 DEF Mapped, PathsIn, Read
  <2>6. QED
    BY <2>5 DEF MapInv
<1>3. QED
  BY <1>1, <1>2

LEMMA MapInit == NamesAreNoPositions /\ MappedInit => MapInv
<1> SUFFICES ASSUME NamesAreNoPositions, MappedInit PROVE Mapped
  BY DEF MapInv
<1>1. (\A d \in Doc : disk[d].kind \in {"clean", "absent"}) /\ disk \in [Doc -> Text]
  BY DEF MappedInit, Init, Text
<1>2. NothingGarbled(disk)
  BY <1>1 DEF NothingGarbled
<1>3. /\ ast = FullLoad.ast /\ key = FullLoad.key
      /\ ecuModel = FullLoad.ecuModel /\ model = FullLoad.model
      /\ objects = FullMap(disk) /\ paths = FullPaths(disk)
  BY DEF MappedInit, Init
<1>4. /\ objects \in Maps /\ paths \in [Doc -> Seq(Id)]
      /\ Leads(objects, << << >> >>, FullLoad.model)
      /\ \A e \in ECU : Leads(objects, EcuPaths(e), FullLoad.ecuModel[e])
      /\ \A e \in ECU : \E S \in SUBSET Item : \A i \in 0..NS :
           /\ ToSet(paths[<<e, i>>]) = PlaceIds(e, S, i)
           /\ i = Meta \/ FullLoad.key[<<e, i>>] # NoNode => paths[<<e, i>>] # << >>
      /\ \A d \in Doc : ModelOf(FullLoad.ast[d]) # NoModel =>
           Leads(objects, paths[d], ModelOf(FullLoad.ast[d]))
  BY <1>1, <1>2, <1>3, LoadedMapped
<1>5. QED
  BY <1>3, <1>4 DEF Mapped, PathsIn, Read

LEMMA ReloadMapped ==
  ASSUME NamesAreNoPositions, TypeInv, SoundInv, MapInv, NEW d \in Doc, MappedUpdate(d)
  PROVE  MapInv'
<1>1. ECU # {}
  BY NodeParts
<1>2. CASE StartsOver(d)
  <2>1. MapAfterReset
    BY <1>2 DEF MappedUpdate
  <2>2. ResetAndReload
    BY <1>2 DEF MappedUpdate, UpdateDocument, PartialReload, StartsOver
  <2>3. QED
    BY <1>1, <2>1, <2>2, ResetMapped
<1>3. CASE ~StartsOver(d)
  <2>1. /\ key[d] # NoNode /\ disk[d].kind \notin {"absent", "garbled"}
        /\ ~ReloadRaises(d) /\ UniqueEcus(RootList(UpdateEcu(d), d[1]))
    BY <1>3 DEF StartsOver
  <2>2. ~Dead
    BY <2>1, NodeParts DEF Dead
  <2>3. FilesAllowed /\ Sound
    BY <2>2 DEF SoundInv
  <2>4. Mapped
    BY <2>1, NodeParts DEF MapInv, Lost
  <2>5. Become([UpdateEcu(d) EXCEPT !.model = RootList(UpdateEcu(d), d[1])])
    BY <2>1 DEF MappedUpdate, UpdateDocument, PartialReload
  <2>6. MapAfterReload(d)
    BY <1>3 DEF MappedUpdate
  <2>7. Mapped'
    BY <2>1, <2>3, <2>4, <2>5, <2>6, RebuiltMapped, ReadAgainMapped
  <2>8. QED
    BY <2>7 DEF MapInv
<1>4. QED
  BY <1>2, <1>3

LEMMA MapStep ==
  NamesAreNoPositions /\ TypeInv /\ SoundInv /\ MapInv /\ [MappedNext]_<<vars, mapVars>> => MapInv'
<1> SUFFICES ASSUME NamesAreNoPositions, TypeInv, SoundInv, MapInv, [MappedNext]_<<vars, mapVars>>
             PROVE  MapInv'
  OBVIOUS
<1>1. ASSUME UNCHANGED mapVars, UNCHANGED wsVars PROVE MapInv'
  <2>1. /\ objects' = objects /\ paths' = paths /\ ast' = ast /\ key' = key
        /\ ecuModel' = ecuModel /\ model' = model
    BY <1>1 DEF mapVars, wsVars
  <2>2. QED
    BY <2>1 DEF MapInv, Mapped, Lost, PathsIn, Read
<1>2. ASSUME NEW d \in Doc, MappedEdit(d) PROVE MapInv'
  BY <1>1, <1>2 DEF MappedEdit, EditFile
<1>3. ASSUME NEW d \in Doc, MappedUpdate(d) PROVE MapInv'
  BY <1>3, ReloadMapped
<1>4. ASSUME UNCHANGED <<vars, mapVars>> PROVE MapInv'
  BY <1>1, <1>4 DEF vars, wsVars, mapVars
<1>5. QED
  BY <1>2, <1>3, <1>4 DEF MappedNext

\* What the model shows is what its documents lead to.
LEMMA MapShowsModel == TypeInv /\ SoundInv /\ MapInv => IdsFollowModel
<1> SUFFICES ASSUME TypeInv, SoundInv, MapInv, ~Lost PROVE
       /\ LeadsTo(<< << >> >>, model)
       /\ \A k \in DOMAIN model :
            LET v == model[k]
            IN /\ LeadsTo(EcuPaths(v.ecu), v)
               /\ LeadsTo(paths[<<v.ecu, Meta>>], v.meta)
               /\ \A s \in ToSet(v.switches) :
                    /\ paths[<<v.ecu, s.file>>] # << >>
                    /\ LeadsTo(paths[<<v.ecu, s.file>>], s.model)
  BY DEF IdsFollowModel
<1>1. Mapped
  BY DEF MapInv
<1>2. LeadsTo(<< << >> >>, model)
  BY <1>1 DEF Mapped, Leads, LeadsTo, ToSet
<1>3. ASSUME NEW k \in DOMAIN model
      PROVE  LET v == model[k]
             IN /\ LeadsTo(EcuPaths(v.ecu), v)
                /\ LeadsTo(paths[<<v.ecu, Meta>>], v.meta)
                /\ \A s \in ToSet(v.switches) :
                     /\ paths[<<v.ecu, s.file>>] # << >>
                     /\ LeadsTo(paths[<<v.ecu, s.file>>], s.model)
  <2> DEFINE v == model[k]
             e == v.ecu
  <2>1. model \in Seq(EcuModel) /\ k \in 1..Len(model) /\ v \in EcuModel
    BY ElementOfSeq DEF TypeInv, TypeOK
  <2>2. e \in ECU
    BY <2>1 DEF EcuModel
  <2>3. Sound
    BY <2>2 DEF SoundInv, Dead, Lost
  <2>4. v = ecuModel[e] /\ Placed(ast, key, v, e)
    <3>1. \A x \in ECU : ecuModel[x] \in EcuModel /\ ecuModel[x].ecu = x /\ Placed(ast, key, ecuModel[x], x)
      BY <2>3 DEF Sound, Placed
    <3>2. PICK x \in ECU : v = ecuModel[x]
      BY <2>1, <2>3, <3>1, RootNamesOnce DEF Sound
    <3>3. QED
      BY <3>1, <3>2
  <2>5. LeadsTo(EcuPaths(e), v)
    BY <1>1, <2>2, <2>4, EcuPathsAre, LeadsOf DEF Mapped
  <2> HIDE DEF v, e
  <2>6. LeadsTo(paths[<<e, Meta>>], v.meta)
    <3>1. <<e, Meta>> \in Doc /\ <<e, Meta>>[2] = Meta
      BY <2>2, NodeParts, SizeAssumption DEF Meta
    <3>2. v.meta = ModelOf(ast[<<e, Meta>>]) /\ v.meta # NoModel
      BY <2>4, NoneAssumption DEF Placed, EcuModel
    <3>3. Leads(objects, paths[<<e, Meta>>], v.meta) /\ paths[<<e, Meta>>] \in Seq(Id)
      BY <1>1, <3>1, <3>2 DEF Mapped, Read
    <3>4. QED
      BY <3>3, LeadsOf
  <2>7. ASSUME NEW s \in ToSet(v.switches)
        PROVE  /\ paths[<<e, s.file>>] # << >>
               /\ LeadsTo(paths[<<e, s.file>>], s.model)
    <3>1. v.switches \in Seq(ItemModel)
      BY <2>4 DEF Placed, EcuModel
    <3>2. PICK j \in 1..Len(v.switches) : s = v.switches[j]
      BY <3>1, IndexOf
    <3>3. s \in ItemModel /\ s.file \in Item /\ s.model \in ValueModel
      <4>1. s \in ItemModel
        BY <3>1, <3>2, ElementOfSeq
      <4>2. QED
        BY <4>1 DEF ItemModel
    <3> DEFINE d == <<e, s.file>>
               c == ast[d]
    <3>4. d \in Doc /\ s.file \in 0..NS /\ s.file # Meta
      BY <2>2, <3>3, NodeParts, SizeAssumption DEF Item, Meta
    <3>5. key[d] = j - 1 /\ s = ItemValue(s.file, c)
      BY <2>4, <3>2 DEF Placed
    <3>6. key[d] # NoNode
      BY <3>2, <3>5 DEF NoNode
    <3>7. s.model = ModelOf(c) /\ ModelOf(c) # NoModel
      <4>1. ModelOf(c) # NoModel
        <5>1. s # NoModel
          BY <3>3, NoneAssumption
        <5>2. QED
          BY <3>5, <5>1 DEF ItemValue
      <4>2. s = [file |-> s.file, model |-> ModelOf(c)]
        BY <3>5, <4>1 DEF ItemValue
      <4>3. QED
        BY <4>1, <4>2
    <3>8. Leads(objects, paths[d], s.model) /\ paths[d] \in Seq(Id)
      BY <1>1, <3>4, <3>6, <3>7 DEF Mapped, Read
    <3>9. paths[d] # << >>
      <4>1. PICK S \in SUBSET Item : PathsIn(e, S)
        BY <1>1, <2>2 DEF Mapped
      <4>2. QED
        BY <3>4, <3>6, <4>1 DEF PathsIn
    <3>10. QED
      BY <3>8, <3>9, LeadsOf
  <2>8. QED
    BY <2>5, <2>6, <2>7 DEF v, e
<1>4. QED
  BY <1>2, <1>3

\* The workspace goes its way with an object map or without.
LEMMA MappedIsWorkspace ==
  /\ MappedInit => Init
  /\ [MappedNext]_<<vars, mapVars>> => [Next]_vars
<1>1. MappedInit => Init
  BY DEF MappedInit
<1>2. [MappedNext]_<<vars, mapVars>> => [Next]_vars
  BY DEF MappedNext, MappedEdit, MappedUpdate, Next
<1>3. QED
  BY <1>1, <1>2

\* update_document purges, registers and remaps ids document by document: in
\* whatever order files change, break, vanish and are reported, the root, each
\* ECU and each document the model shows is found under the ids it was loaded
\* under, unless the last load failed.
THEOREM IdsStayWithModel ==
  BrokenSwitches /\ NamesAreNoPositions => (MappedSpec => []IdsFollowModel)
<1> SUFFICES ASSUME BrokenSwitches, NamesAreNoPositions PROVE MappedSpec => []IdsFollowModel
  OBVIOUS
<1>1. MappedInit => TypeInv /\ SoundInv /\ MapInv
  BY MappedIsWorkspace, TypeInit, SoundInit, MapInit
<1>2. TypeInv /\ SoundInv /\ MapInv /\ [MappedNext]_<<vars, mapVars>> => (TypeInv /\ SoundInv /\ MapInv)'
  BY MappedIsWorkspace, TypeStep, SoundStep, MapStep
<1>3. TypeInv /\ SoundInv /\ MapInv => IdsFollowModel
  BY MapShowsModel
<1>4. QED
  BY <1>1, <1>2, <1>3, PTL DEF MappedSpec
=============================================================================
