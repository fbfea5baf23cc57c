---------------------------- MODULE SavingProofs ----------------------------
(***************************************************************************)
(* A model of any size comes back from the files it is saved to, for every *)
(* schema whose types are well formed; and the graph of any schema has the *)
(* paths and parents of its models.                                        *)
(***************************************************************************)
EXTENDS Saving, ModelGraph, ListFacts, FiniteSetTheorems

-----------------------------------------------------------------------------
(* Paths, place by place.                                                  *)

\* The names of models and folders: the extension is no part of them.
Free(P) == Seq(P \ {Yaml})

\* A write relative to some path: that of a file has one part in its last name.
IsRel(P, rel) == rel \in Seq(Free(P)) /\ (rel # << >> => Len(rel[Len(rel)]) = 1)

LiesBelow(p, path) == Len(p) > Len(path) /\ \A i \in 1..Len(path) : p[i] = path[i]

IsFileOf(P, p, path, rel) ==
  /\ p \in Seq(Seq(P)) /\ Len(p) = Len(path) + Len(rel)
  /\ \A i \in 1..Len(path) : p[i] = path[i]
  /\ \A i \in 1..Len(rel) - 1 : p[Len(path) + i] = rel[i]
  /\ p[Len(path) + Len(rel)] = Append(rel[Len(rel)], Yaml)

LEMMA FreeNames ==
  ASSUME NEW P
  PROVE  Free(P) \subseteq Seq(P) /\ Seq(Free(P)) \subseteq Seq(Seq(P))
<1>1. Free(P) \subseteq Seq(P)
  BY DEF Free
<1>2. QED
  BY <1>1

LEMMA NoYamlInside ==
  ASSUME NEW P, NEW a \in Seq(P), NEW b \in Free(P)
  PROVE  Append(a, Yaml) # b
<1>1. SUFFICES ASSUME Append(a, Yaml) = b PROVE FALSE
  OBVIOUS
<1>2. Len(b) = Len(a) + 1 /\ Len(a) \in Nat /\ b[Len(a) + 1] = Yaml
  BY <1>1 DEF Free
<1>3. b[Len(a) + 1] \in P \ {Yaml}
  BY <1>2 DEF Free
<1>4. QED
  BY <1>2, <1>3

LEMMA AppendIsInjective ==
  ASSUME NEW P, NEW a \in Seq(P), NEW b \in Seq(P), Append(a, Yaml) = Append(b, Yaml)
  PROVE  a = b
<1>1. Len(a) = Len(b) /\ Len(a) \in Nat
  OBVIOUS
<1>2. \A i \in 1..Len(a) : a[i] = Append(a, Yaml)[i] /\ b[i] = Append(b, Yaml)[i]
  BY <1>1
<1>3. \A i \in 1..Len(a) : a[i] = b[i]
  BY <1>2
<1>4. QED
  BY <1>1, <1>3, SeqEqual

LEMMA YamlNamed == ASSUME NEW P, Yaml \in P PROVE \A n \in Seq(P) : Append(n, Yaml) \in Seq(P)
  OBVIOUS

LEMMA FileAtIs ==
  ASSUME NEW P, Yaml \in P, NEW p \in Seq(Seq(P)), p # << >>, Len(p[Len(p)]) = 1
  PROVE  /\ FileAt(p) \in Seq(Seq(P)) /\ Len(FileAt(p)) = Len(p)
         /\ \A i \in 1..Len(p) - 1 : FileAt(p)[i] = p[i]
         /\ FileAt(p)[Len(p)] = Append(p[Len(p)], Yaml)
<1>1. /\ Len(p) \in Nat \ {0} /\ Last(p) = p[Len(p)]
      /\ Front(p) \in Seq(Seq(P)) /\ Len(Front(p)) = Len(p) - 1
      /\ \A i \in 1..Len(p) - 1 : Front(p)[i] = p[i]
  BY FrontIs
<1>2. FileName(Last(p)) = Append(p[Len(p)], Yaml)
  <2>0. Len(Last(p)) = 1
    BY <1>1, Zenon
  <2>1. ~(Len(Last(p)) > 1)
    BY <2>0
  <2>2. FileName(Last(p)) = Append(Last(p), Yaml)
    BY <2>1, Zenon DEF FileName
  <2>3. QED
    BY <1>1, <2>2
<1>3. p[Len(p)] \in Seq(P) /\ Append(p[Len(p)], Yaml) \in Seq(P)
  <2>1. p[Len(p)] \in Seq(P)
    BY <1>1
  <2>2. \A n \in Seq(P) : Append(n, Yaml) \in Seq(P)
    BY YamlNamed
  <2>3. QED
    BY <2>1, <2>2
<1>4. QED
  BY <1>1, <1>2, <1>3 DEF FileAt

LEMMA FileBelow ==
  ASSUME NEW P, Yaml \in P, NEW path \in Seq(Seq(P)), NEW rel, IsRel(P, rel), rel # << >>
  PROVE  IsFileOf(P, FileAt(path \o rel), path, rel)
<1> DEFINE p == path \o rel
<1>1. rel \in Seq(Seq(P)) /\ Len(rel) \in Nat \ {0} /\ Len(rel[Len(rel)]) = 1
  BY FreeNames DEF IsRel
<1>2. /\ p \in Seq(Seq(P)) /\ Len(p) = Len(path) + Len(rel) /\ Len(path) \in Nat
      /\ \A i \in 1..Len(path) : p[i] = path[i]
      /\ \A i \in 1..Len(rel) : p[Len(path) + i] = rel[i]
  BY <1>1
<1>3. p # << >> /\ p[Len(p)] = rel[Len(rel)]
  BY <1>1, <1>2
<1> HIDE DEF p
<1>4. /\ FileAt(p) \in Seq(Seq(P)) /\ Len(FileAt(p)) = Len(p)
      /\ \A i \in 1..Len(p) - 1 : FileAt(p)[i] = p[i]
      /\ FileAt(p)[Len(p)] = Append(p[Len(p)], Yaml)
  BY <1>1, <1>2, <1>3, FileAtIs
<1>5. \A i \in 1..Len(path) : FileAt(p)[i] = path[i]
  <2>1. TAKE i \in 1..Len(path)
  <2>2. i \in 1..Len(p) - 1
    BY <1>1, <1>2
  <2>3. QED
    BY <1>2, <1>4, <2>2
<1>6. \A i \in 1..Len(rel) - 1 : FileAt(p)[Len(path) + i] = rel[i]
  <2>1. TAKE i \in 1..Len(rel) - 1
  <2>2. Len(path) + i \in 1..Len(p) - 1 /\ i \in 1..Len(rel)
    BY <1>1, <1>2
  <2>3. QED
    BY <1>2, <1>4, <2>2
<1>7. IsFileOf(P, FileAt(p), path, rel)
  BY <1>2, <1>3, <1>4, <1>5, <1>6 DEF IsFileOf
<1>8. QED
  BY <1>7 DEF p

\* The places make the path.
LEMMA FilesAgree ==
  ASSUME NEW P, Yaml \in P, NEW path \in Seq(Seq(P)), NEW rel, IsRel(P, rel), rel # << >>,
         NEW p, IsFileOf(P, p, path, rel), NEW q, IsFileOf(P, q, path, rel)
  PROVE  p = q
<1>1. Len(rel) \in Nat \ {0} /\ Len(path) \in Nat
  BY DEF IsRel
<1>2. p \in Seq(Seq(P)) /\ q \in Seq(Seq(P)) /\ Len(p) = Len(q) /\ Len(p) = Len(path) + Len(rel)
  BY DEF IsFileOf
<1>3. ASSUME NEW i \in 1..Len(p) PROVE p[i] = q[i]
  <2>1. CASE i \in 1..Len(path)
    BY <2>1 DEF IsFileOf
  <2>2. CASE i \in (Len(path) + 1)..(Len(p) - 1)
    <3>1. i - Len(path) \in 1..Len(rel) - 1 /\ i = Len(path) + (i - Len(path))
      BY <1>1, <1>2, <2>2
    <3>2. QED
      BY <3>1 DEF IsFileOf
  <2>3. CASE i = Len(p)
    BY <1>2, <2>3 DEF IsFileOf
  <2>4. QED
    BY <1>1, <1>2, <2>1, <2>2, <2>3
<1>4. QED
  BY <1>2, <1>3, SeqEqual

\* Different files have different relative paths.
LEMMA RelsAgree ==
  ASSUME NEW P, Yaml \in P, NEW path \in Seq(Seq(P)), NEW rel, IsRel(P, rel), rel # << >>, NEW other, IsRel(P, other), other # << >>,
         NEW p, IsFileOf(P, p, path, rel), IsFileOf(P, p, path, other)
  PROVE  rel = other
<1>1. /\ rel \in Seq(Free(P)) /\ other \in Seq(Free(P)) /\ Len(path) \in Nat
      /\ Len(rel) = Len(other) /\ Len(rel) \in Nat \ {0}
  BY DEF IsRel, IsFileOf
<1>2. ASSUME NEW i \in 1..Len(rel) PROVE rel[i] = other[i]
  <2>1. CASE i = Len(rel)
    <3>1. rel[i] \in Seq(P) /\ other[i] \in Seq(P)
      BY <1>1, FreeNames
    <3>2. Append(rel[i], Yaml) = Append(other[i], Yaml)
      BY <1>1, <2>1 DEF IsFileOf
    <3>3. QED
      BY <3>1, <3>2, AppendIsInjective
  <2>2. CASE i \in 1..Len(rel) - 1
    BY <1>1, <2>2 DEF IsFileOf
  <2>3. QED
    BY <1>1, <2>1, <2>2
<1>3. QED
  BY <1>1, <1>2, SeqEqual

LEMMA FolderIs ==
  ASSUME NEW P, NEW files, DOMAIN files \subseteq Seq(Seq(P)), NEW path \in Seq(Seq(P))
  PROVE  IsFolder(files, path) <=> \E p \in DOMAIN files : LiesBelow(p, path)
<1>1. ASSUME NEW p \in DOMAIN files
      PROVE  Len(p) > Len(path) /\ SubSeq(p, 1, Len(path)) = path <=> LiesBelow(p, path)
  <2>1. p \in Seq(Seq(P)) /\ Len(p) \in Nat /\ Len(path) \in Nat
    OBVIOUS
  <2>2. SUFFICES ASSUME Len(p) > Len(path)
                 PROVE  SubSeq(p, 1, Len(path)) = path <=> \A i \in 1..Len(path) : p[i] = path[i]
    BY DEF LiesBelow
  <2> DEFINE s == SubSeq(p, 1, Len(path))
  <2>3. s \in Seq(Seq(P)) /\ Len(s) = Len(path) /\ \A i \in 1..Len(path) : s[i] = p[i]
    BY <2>1, <2>2
  <2> HIDE DEF s
  <2>4. s = path <=> \A i \in 1..Len(path) : s[i] = path[i]
    BY <2>3, SeqEqual
  <2>5. QED
    BY <2>3, <2>4 DEF s
<1>2. QED
  BY <1>1 DEF IsFolder

-----------------------------------------------------------------------------
(* Writes and the files that hold them.                                    *)

AreWrites(P, S) == \A x \in S : x = [path |-> x.path, content |-> x.content] /\ IsRel(P, x.path)

PathsDiffer(S) == \A x, y \in S : x.path = y.path => x = y

MovedTo(pre, S) == {[path |-> pre \o y.path, content |-> y.content] : y \in S}

\* The writes of T are those of S below a path.
IsPart(S, pre, T) ==
  /\ MovedTo(pre, T) \subseteq S
  /\ \A x \in S : Len(x.path) > Len(pre) /\ (\A i \in 1..Len(pre) : x.path[i] = pre[i]) => x \in MovedTo(pre, T)

\* The files below a path are the writes.
Holds(files, path, S) ==
  /\ path \notin DOMAIN files
  /\ \A x \in S : FileAt(path \o x.path) \in DOMAIN files /\ files[FileAt(path \o x.path)] = x.content
  /\ \A p \in DOMAIN files : LiesBelow(p, path) => \E x \in S : x.path # << >> /\ p = FileAt(path \o x.path)

LEMMA FileFound ==
  ASSUME NEW P, Yaml \in P, NEW files, NEW path \in Seq(Seq(P)), NEW S, AreWrites(P, S), Holds(files, path, S),
         NEW p \in DOMAIN files, LiesBelow(p, path)
  PROVE  \E x \in S : x.path # << >> /\ IsFileOf(P, p, path, x.path) /\ files[p] = x.content
<1>1. PICK x \in S : x.path # << >> /\ p = FileAt(path \o x.path)
  BY DEF Holds
<1>2. IsRel(P, x.path)
  BY DEF AreWrites
<1>3. IsFileOf(P, p, path, x.path)
  BY <1>1, <1>2, FileBelow
<1>4. QED
  BY <1>1, <1>3 DEF Holds

LEMMA JoinedIs ==
  ASSUME NEW P, NEW path \in Seq(Seq(P)), NEW pre \in Seq(Free(P))
  PROVE  /\ path \o pre \in Seq(Seq(P)) /\ Len(path \o pre) = Len(path) + Len(pre)
         /\ Len(path) \in Nat /\ Len(pre) \in Nat
         /\ \A i \in 1..Len(path) : (path \o pre)[i] = path[i]
         /\ \A i \in 1..Len(pre) : (path \o pre)[Len(path) + i] = pre[i]
<1>1. pre \in Seq(Seq(P))
  BY FreeNames
<1> DEFINE Q == Seq(P)
<1>2. ASSUME NEW a \in Seq(Q), NEW b \in Seq(Q)
      PROVE  /\ a \o b \in Seq(Q) /\ Len(a \o b) = Len(a) + Len(b)
             /\ Len(a) \in Nat /\ Len(b) \in Nat
             /\ \A i \in 1..Len(a) : (a \o b)[i] = a[i]
             /\ \A i \in 1..Len(b) : (a \o b)[Len(a) + i] = b[i]
  <2> HIDE DEF Q
  <2>1. QED
    OBVIOUS
<1>3. QED
  BY <1>1, <1>2

\* No file has the path of a folder.
LEMMA FolderIsNoFile ==
  ASSUME NEW P, Yaml \in P, NEW files, NEW path \in Seq(Seq(P)), NEW S, AreWrites(P, S), Holds(files, path, S),
         NEW pre \in Seq(Free(P)), pre # << >>
  PROVE  path \o pre \notin DOMAIN files
<1>1. SUFFICES ASSUME path \o pre \in DOMAIN files PROVE FALSE
  OBVIOUS
<1>2. /\ path \o pre \in Seq(Seq(P)) /\ Len(path \o pre) = Len(path) + Len(pre)
      /\ Len(path) \in Nat /\ Len(pre) \in Nat
      /\ \A i \in 1..Len(path) : (path \o pre)[i] = path[i]
      /\ \A i \in 1..Len(pre) : (path \o pre)[Len(path) + i] = pre[i]
  BY JoinedIs
<1>3. Len(pre) # 0
  OBVIOUS
<1>4. LiesBelow(path \o pre, path)
  BY <1>2, <1>3 DEF LiesBelow
<1>5. PICK x \in S : x.path # << >> /\ IsFileOf(P, path \o pre, path, x.path)
  BY <1>1, <1>4, FileFound
<1>6. x.path \in Seq(Free(P)) /\ Len(x.path) = Len(pre)
  <2>1. x.path \in Seq(Free(P))
    BY DEF AreWrites, IsRel
  <2>2. Len(path \o pre) = Len(path) + Len(x.path)
    BY <1>5 DEF IsFileOf
  <2>3. QED
    BY <1>2, <2>1, <2>2
<1>7. pre[Len(pre)] = Append(x.path[Len(x.path)], Yaml)
  <2>1. (path \o pre)[Len(path) + Len(x.path)] = Append(x.path[Len(x.path)], Yaml)
    BY <1>5 DEF IsFileOf
  <2>2. Len(pre) \in 1..Len(pre)
    BY <1>2, <1>3
  <2>3. QED
    BY <1>2, <1>6, <2>1, <2>2
<1>8. pre[Len(pre)] \in Free(P) /\ x.path[Len(x.path)] \in Seq(P)
  <2>1. Len(pre) \in 1..Len(pre)
    BY <1>2, <1>3
  <2>2. pre[Len(pre)] \in Free(P) /\ x.path[Len(pre)] \in Free(P)
    BY <1>6, <2>1, ElementIn
  <2>3. QED
    BY <1>6, <2>2, FreeNames
<1>9. QED
  BY <1>7, <1>8, NoYamlInside

LEMMA Joins == ASSUME NEW Q PROVE \A a, b, c \in Seq(Q) : a \o (b \o c) = (a \o b) \o c
<1>1. SUFFICES ASSUME NEW a \in Seq(Q), NEW b \in Seq(Q), NEW c \in Seq(Q) PROVE a \o (b \o c) = (a \o b) \o c
  OBVIOUS
<1>2. QED
  BY ConcatAssociative

PathsAssociate(P) == \A a, b, c \in Seq(Seq(P)) : a \o (b \o c) = (a \o b) \o c

LEMMA PathsJoin ==
  ASSUME NEW P
  PROVE  PathsAssociate(P)
<1> DEFINE Q == Seq(P)
<1> HIDE DEF Q
<1>1. \A a, b, c \in Seq(Q) : a \o (b \o c) = (a \o b) \o c
  BY Joins
<1>2. QED
  BY <1>1 DEF Q, PathsAssociate

LEMMA PartHolds ==
  ASSUME NEW P, Yaml \in P, NEW files, DOMAIN files \subseteq Seq(Seq(P)), NEW path \in Seq(Seq(P)),
         NEW S, AreWrites(P, S), Holds(files, path, S),
         NEW pre \in Seq(Free(P)), pre # << >>, NEW T, AreWrites(P, T), IsPart(S, pre, T)
  PROVE  Holds(files, path \o pre, T)
<1>1. /\ path \o pre \in Seq(Seq(P)) /\ Len(path \o pre) = Len(path) + Len(pre)
      /\ Len(path) \in Nat /\ Len(pre) \in Nat
      /\ \A i \in 1..Len(path) : (path \o pre)[i] = path[i]
      /\ \A i \in 1..Len(pre) : (path \o pre)[Len(path) + i] = pre[i]
  BY JoinedIs
<1>2. ASSUME NEW rel, IsRel(P, rel) PROVE path \o (pre \o rel) = (path \o pre) \o rel
  <2>1. pre \in Seq(Seq(P)) /\ rel \in Seq(Seq(P))
    BY <1>2, FreeNames DEF IsRel
  <2> DEFINE Q == Seq(P)
  <2>2. \A a, b, c \in Seq(Q) : a \o (b \o c) = (a \o b) \o c
    <3> HIDE DEF Q
    <3>1. QED
      BY ConcatAssociative
  <2>3. QED
    BY <2>1, <2>2
<1>3. ASSUME NEW y \in T
      PROVE  /\ FileAt((path \o pre) \o y.path) \in DOMAIN files
             /\ files[FileAt((path \o pre) \o y.path)] = y.content
  <2> DEFINE x == [path |-> pre \o y.path, content |-> y.content]
  <2>1. x \in S
    BY DEF IsPart, MovedTo
  <2>2. FileAt(path \o x.path) \in DOMAIN files /\ files[FileAt(path \o x.path)] = x.content
    <3> HIDE DEF x
    <3>1. QED
      BY <2>1 DEF Holds
  <2>3. path \o (pre \o y.path) = (path \o pre) \o y.path
    BY <1>2 DEF AreWrites
  <2>4. x.path = pre \o y.path /\ x.content = y.content
    OBVIOUS
  <2> HIDE DEF x
  <2>5. QED
    BY <2>2, <2>3, <2>4
<1>4. ASSUME NEW p \in DOMAIN files, LiesBelow(p, path \o pre)
      PROVE  \E y \in T : y.path # << >> /\ p = FileAt((path \o pre) \o y.path)
  <2>1. LiesBelow(p, path)
    <3>1. Len(p) \in Nat /\ Len(p) > Len(path) + Len(pre)
      BY <1>1, <1>4 DEF LiesBelow
    <3>2. \A i \in 1..Len(path) : p[i] = path[i]
      <4>1. TAKE i \in 1..Len(path)
      <4>2. i \in 1..Len(path \o pre)
        BY <1>1
      <4>3. p[i] = (path \o pre)[i]
        BY <1>4, <4>2 DEF LiesBelow
      <4>4. QED
        BY <1>1, <4>3
    <3>3. Len(p) > Len(path)
      BY <1>1, <3>1
    <3>4. QED
      BY <3>2, <3>3 DEF LiesBelow
  <2>2. PICK x \in S : x.path # << >> /\ p = FileAt(path \o x.path)
    BY <2>1 DEF Holds
  <2>3. IsRel(P, x.path) /\ x.path \in Seq(Free(P)) /\ Len(x.path) \in Nat
    BY DEF AreWrites, IsRel
  <2>4. IsFileOf(P, p, path, x.path)
    BY <2>2, <2>3, FileBelow
  <2>5. Len(x.path) > Len(pre)
    BY <1>1, <1>4, <2>3, <2>4 DEF IsFileOf, LiesBelow
  <2>6. ASSUME NEW i \in 1..Len(pre) PROVE x.path[i] = pre[i]
    <3>1. i \in 1..Len(x.path) - 1 /\ Len(path) + i \in 1..Len(path \o pre)
      BY <1>1, <2>3, <2>5
    <3>2. p[Len(path) + i] = x.path[i] /\ p[Len(path) + i] = (path \o pre)[Len(path) + i]
      BY <1>4, <2>4, <3>1 DEF IsFileOf, LiesBelow
    <3>3. QED
      BY <1>1, <3>2
  <2>7. x \in MovedTo(pre, T)
    BY <2>5, <2>6 DEF IsPart
  <2>8. PICK y \in T : x = [path |-> pre \o y.path, content |-> y.content]
    BY <2>7 DEF MovedTo
  <2>9. x.path = pre \o y.path /\ IsRel(P, y.path)
    BY <2>8 DEF AreWrites
  <2>10. y.path # << >>
    <3>1. pre \o << >> = pre
      OBVIOUS
    <3>2. QED
      BY <1>1, <2>5, <2>9, <3>1
  <2>11. p = FileAt((path \o pre) \o y.path)
    BY <1>2, <2>2, <2>9
  <2>12. QED
    BY <2>10, <2>11
<1>5. path \o pre \notin DOMAIN files
  BY FolderIsNoFile
<1>6. QED
  BY <1>3, <1>4, <1>5 DEF Holds

-----------------------------------------------------------------------------
(* What is written for a field.                                            *)

IsList(s) == s \in Seq(ToSet(s))

LEMMA ListIs ==
  ASSUME NEW s, IsList(s)
  PROVE  /\ Len(s) \in Nat /\ DOMAIN s = 1..Len(s)
         /\ \A x : x \in ToSet(s) <=> \E k \in 1..Len(s) : x = s[k]
         /\ s # << >> <=> ToSet(s) # {}
<1> DEFINE S == ToSet(s)
<1>1. s \in Seq(S)
  BY DEF IsList
<1>2. \A x : x \in ToSet(s) <=> \E k \in 1..Len(s) : x = s[k]
  <2> HIDE DEF S
  <2>1. QED
    BY <1>1, PathSet
<1>3. Len(s) \in Nat /\ DOMAIN s = 1..Len(s) /\ (s # << >> <=> Len(s) # 0)
  <2> HIDE DEF S
  <2>1. QED
    BY <1>1
<1>4. QED
  BY <1>2, <1>3

LEMMA ListFrom ==
  ASSUME NEW n \in Nat, NEW s, s = [k \in 1..n |-> s[k]]
  PROVE  IsList(s) /\ Len(s) = n /\ DOMAIN s = 1..n
<1>1. \A k \in 1..n : s[k] \in ToSet(s)
  BY DEF ToSet
<1> DEFINE S == ToSet(s)
<1> HIDE DEF S
<1>2. s \in Seq(S) /\ Len(s) = n /\ DOMAIN s = 1..n
  BY <1>1, FunctionIsSeq DEF S
<1>3. QED
  BY <1>2 DEF S, IsList

LEMMA FlattenLists ==
  ASSUME NEW n \in Nat, NEW s, s = [k \in 1..n |-> s[k]], \A k \in 1..n : IsList(s[k])
  PROVE  /\ IsList(FlattenSeq(s))
         /\ \A x : x \in ToSet(FlattenSeq(s)) <=> \E k \in 1..n : x \in ToSet(s[k])
<1> DEFINE S == UNION {ToSet(s[k]) : k \in 1..n}
<1>1. ASSUME NEW k \in 1..n PROVE s[k] \in Seq(S)
  <2>1. ToSet(s[k]) \subseteq S
    OBVIOUS
  <2>2. s[k] \in Seq(ToSet(s[k]))
    BY DEF IsList
  <2> DEFINE T == ToSet(s[k])
  <2> HIDE DEF S, T
  <2>3. QED
    BY <2>1, <2>2 DEF T
<1> HIDE DEF S
<1>2. /\ FlattenSeq(s) \in Seq(S)
      /\ \A x : x \in ToSet(FlattenSeq(s)) <=> \E k \in 1..n : x \in ToSet(s[k])
  BY <1>1, KeptOf
<1>3. IsList(FlattenSeq(s))
  <2> DEFINE c == FlattenSeq(s)
  <2>1. c \in Seq(S)
    BY <1>2
  <2> HIDE DEF c
  <2>2. c = [k \in 1..Len(c) |-> c[k]] /\ Len(c) \in Nat
    BY <2>1
  <2>3. IsList(c)
    BY <2>2, ListFrom
  <2>4. QED
    BY <2>3 DEF c
<1>4. QED
  BY <1>2, <1>3

GoodWrites(P, s) == IsList(s) /\ s # << >> /\ AreWrites(P, ToSet(s)) /\ PathsDiffer(ToSet(s))

LEMMA UnderIs ==
  ASSUME NEW P, NEW pre, NEW s, IsList(s), AreWrites(P, ToSet(s))
  PROVE  IsList(Under(pre, s)) /\ ToSet(Under(pre, s)) = MovedTo(pre, ToSet(s))
<1>1. /\ Len(s) \in Nat /\ DOMAIN s = 1..Len(s)
      /\ \A x : x \in ToSet(s) <=> \E k \in 1..Len(s) : x = s[k]
  BY ListIs
<1> DEFINE u == Under(pre, s)
           m(y) == [path |-> pre \o y.path, content |-> y.content]
<1>2. u = [k \in 1..Len(s) |-> [s[k] EXCEPT !.path = pre \o @]]
  BY <1>1 DEF Under
<1>3. ASSUME NEW k \in 1..Len(s) PROVE u[k] = m(s[k])
  <2>1. s[k] = [path |-> s[k].path, content |-> s[k].content]
    BY <1>1 DEF AreWrites
  <2> DEFINE a == s[k].path
             b == s[k].content
  <2>2. \A y : y = [path |-> a, content |-> b] => [y EXCEPT !.path = pre \o @] = [path |-> pre \o a, content |-> b]
    <3> HIDE DEF a, b
    <3>1. TAKE y
    <3>2. HAVE y = [path |-> a, content |-> b]
    <3>3. y.path = a
      BY <3>2
    <3> DEFINE c == pre \o y.path
    <3>4. c = pre \o a
      BY <3>3
    <3>5. [y EXCEPT !.path = c] = [path |-> c, content |-> b]
      <4> HIDE DEF c
      <4>1. QED
        BY <3>2
    <3>6. QED
      BY <3>4, <3>5
  <2>3. [s[k] EXCEPT !.path = pre \o @] = m(s[k])
    BY <2>1, <2>2
  <2>4. QED
    BY <1>2, <2>3
<1> HIDE DEF u, m
<1>4. u = [k \in 1..Len(s) |-> u[k]]
  BY <1>2
<1>5. IsList(u) /\ Len(u) = Len(s) /\ DOMAIN u = 1..Len(s)
  BY <1>1, <1>4, ListFrom
<1>6. ToSet(u) = {m(y) : y \in ToSet(s)}
  <2>1. \A x : x \in ToSet(u) <=> \E k \in 1..Len(s) : x = u[k]
    BY <1>5, ListIs
  <2>2. ASSUME NEW x \in ToSet(u) PROVE x \in {m(y) : y \in ToSet(s)}
    BY <1>1, <1>3, <2>1
  <2>3. ASSUME NEW y \in ToSet(s) PROVE m(y) \in ToSet(u)
    BY <1>1, <1>3, <2>1
  <2>4. QED
    BY <2>2, <2>3
<1>7. MovedTo(pre, ToSet(s)) = {m(y) : y \in ToSet(s)}
  BY DEF MovedTo, m
<1>8. QED
  BY <1>5, <1>6, <1>7 DEF u

\* Moving keeps writes apart.
LEMMA MovedIs ==
  ASSUME NEW P, NEW pre \in Seq(Free(P)), pre # << >>, NEW S, AreWrites(P, S),
         (\A y \in S : y.path # << >>) \/ Len(pre[Len(pre)]) = 1
  PROVE  /\ AreWrites(P, MovedTo(pre, S))
         /\ \A x \in MovedTo(pre, S) : Len(x.path) \in Nat /\ Len(x.path) >= Len(pre) /\ \A i \in 1..Len(pre) : x.path[i] = pre[i]
         /\ \A x \in MovedTo(pre, S) : \E y \in S : x.path = pre \o y.path /\ x.content = y.content
         /\ PathsDiffer(S) => PathsDiffer(MovedTo(pre, S))
<1> DEFINE Q == Free(P)
<1>1. /\ pre \in Seq(Q) /\ Len(pre) \in Nat \ {0}
  <2> HIDE DEF Q
  <2>1. pre \in Seq(Q)
    BY DEF Q
  <2>2. QED
    BY <2>1
<1>2. ASSUME NEW a \in Seq(Q)
      PROVE  /\ pre \o a \in Seq(Q) /\ Len(pre \o a) = Len(pre) + Len(a) /\ Len(a) \in Nat
             /\ \A i \in 1..Len(pre) : (pre \o a)[i] = pre[i]
             /\ \A i \in 1..Len(a) : (pre \o a)[Len(pre) + i] = a[i]
  <2> HIDE DEF Q
  <2>1. QED
    BY <1>1
<1>3. \A y \in S : y.path \in Seq(Q) /\ (y.path # << >> => Len(y.path[Len(y.path)]) = 1)
  BY DEF AreWrites, IsRel
<1>4. ASSUME NEW x \in MovedTo(pre, S)
      PROVE  \E y \in S : x = [path |-> pre \o y.path, content |-> y.content]
  BY <1>4 DEF MovedTo
<1>5. ASSUME NEW x \in MovedTo(pre, S)
      PROVE  x = [path |-> x.path, content |-> x.content] /\ IsRel(P, x.path)
  <2>1. PICK y \in S : x = [path |-> pre \o y.path, content |-> y.content]
    BY <1>4
  <2>2. x.path = pre \o y.path /\ x.content = y.content
    BY <2>1
  <2> DEFINE a == y.path
  <2>3. a \in Seq(Q) /\ (a # << >> => Len(a[Len(a)]) = 1)
    BY <1>3
  <2>4. /\ pre \o a \in Seq(Q) /\ Len(pre \o a) = Len(pre) + Len(a) /\ Len(a) \in Nat
        /\ \A i \in 1..Len(pre) : (pre \o a)[i] = pre[i]
        /\ \A i \in 1..Len(a) : (pre \o a)[Len(pre) + i] = a[i]
    BY <1>2, <2>3
  <2>5. Len((pre \o a)[Len(pre \o a)]) = 1
    <3>1. CASE a = << >>
      <4>1. Len(pre[Len(pre)]) = 1 /\ Len(a) = 0
        BY <3>1
      <4>2. Len(pre \o a) = Len(pre) /\ Len(pre) \in 1..Len(pre)
        BY <1>1, <2>4, <4>1
      <4>3. (pre \o a)[Len(pre \o a)] = pre[Len(pre)]
        BY <2>4, <4>2
      <4>4. QED
        BY <4>1, <4>3
    <3>2. CASE a # << >>
      <4> HIDE DEF a, Q
      <4>1. Len(a) \in 1..Len(a)
        BY <2>3, <3>2
      <4>2. (pre \o a)[Len(pre \o a)] = a[Len(a)]
        BY <2>4, <4>1
      <4>3. QED
        BY <2>3, <3>2, <4>2
    <3>3. QED
      BY <3>1, <3>2
  <2>6. QED
    BY <2>1, <2>2, <2>4, <2>5 DEF IsRel
<1>6. ASSUME NEW x \in MovedTo(pre, S)
      PROVE  Len(x.path) \in Nat /\ Len(x.path) >= Len(pre) /\ \A i \in 1..Len(pre) : x.path[i] = pre[i]
  <2>1. PICK y \in S : x = [path |-> pre \o y.path, content |-> y.content]
    BY <1>4
  <2>2. x.path = pre \o y.path /\ y.path \in Seq(Q)
    BY <1>3, <2>1
  <2> HIDE DEF Q
  <2>3. QED
    BY <1>1, <1>2, <2>2
<1>7. ASSUME NEW x \in MovedTo(pre, S)
      PROVE  \E y \in S : x.path = pre \o y.path /\ x.content = y.content
  BY <1>4
<1>8. ASSUME PathsDiffer(S), NEW x \in MovedTo(pre, S), NEW z \in MovedTo(pre, S), x.path = z.path
      PROVE  x = z
  <2>1. PICK y \in S : x = [path |-> pre \o y.path, content |-> y.content]
    BY <1>4
  <2>2. PICK t \in S : z = [path |-> pre \o t.path, content |-> t.content]
    BY <1>4
  <2> DEFINE a == y.path
             b == t.path
  <2>3. a \in Seq(Q) /\ b \in Seq(Q) /\ pre \o a = pre \o b
    BY <1>3, <1>8, <2>1, <2>2
  <2>4. a = b
    <3> HIDE DEF a, b
    <3>1. /\ Len(pre \o a) = Len(pre) + Len(a) /\ Len(a) \in Nat
          /\ \A i \in 1..Len(a) : (pre \o a)[Len(pre) + i] = a[i]
      BY <1>2, <2>3
    <3>2. /\ Len(pre \o b) = Len(pre) + Len(b) /\ Len(b) \in Nat
          /\ \A i \in 1..Len(b) : (pre \o b)[Len(pre) + i] = b[i]
      BY <1>2, <2>3
    <3>3. Len(a) = Len(b)
      BY <1>1, <2>3, <3>1, <3>2
    <3>4. \A i \in 1..Len(a) : a[i] = b[i]
      BY <2>3, <3>1, <3>2, <3>3
    <3> HIDE DEF Q
    <3>5. QED
      BY <2>3, <3>3, <3>4, SeqEqual
  <2>5. y = t
    BY <1>8, <2>4 DEF PathsDiffer
  <2>6. QED
    BY <2>1, <2>2, <2>5
<1>9. QED
  BY <1>5, <1>6, <1>7, <1>8 DEF AreWrites, PathsDiffer

\* Everything that is written for a field is below the field's own path.
FieldGood(P, f, s) ==
  /\ IsList(s) /\ AreWrites(P, ToSet(s)) /\ PathsDiffer(ToSet(s))
  /\ \A x \in ToSet(s) : x.path # << >> /\ x.path[1] = <<f.path>>

\* A file that a field has for itself.
RootFile(schema, f, values) ==
  [path |-> <<<<f.path>>>>, content |-> [root |-> f.name, items |-> [j \in DOMAIN values |-> Facts(schema, values[j])]]]

\* What is written for a field of a model is good, and the parts of it are the
\* writes of its values.
FieldKept(schema, f, values, saved, s) ==
  /\ values = << >> <=> s = << >>
  /\ f.style = "folder" /\ f.list /\ values # << >> =>
       /\ \A j \in 1..Len(values) : IsPart(ToSet(s), Append(<<<<f.path>>>>, values[j].name), ToSet(saved[values[j]]))
       /\ \A x \in ToSet(s) : \E j \in 1..Len(values) : x \in MovedTo(Append(<<<<f.path>>>>, values[j].name), ToSet(saved[values[j]]))
  /\ f.style = "named" /\ values # << >> => ToSet(s) = {RootFile(schema, f, values)}
  /\ f.style # "named" /\ ~f.list /\ values # << >> => ToSet(s) = MovedTo(<<<<f.path>>>>, ToSet(saved[values[1]]))

FieldDone(P, schema, f, values, saved) ==
  LET s == FieldWrites(schema, f, values, saved) IN FieldGood(P, f, s) /\ FieldKept(schema, f, values, saved, s)

LEMMA FieldPathIs ==
  ASSUME NEW P, NEW q \in P \ {Yaml}
  PROVE  /\ <<q>> \in Free(P) /\ Len(<<q>>) = 1 /\ <<<<q>>>> \in Seq(Free(P)) /\ <<<<q>>>> # << >>
         /\ Len(<<<<q>>>>) = 1 /\ <<<<q>>>>[1] = <<q>>
<1>1. <<q>> \in Free(P) /\ Len(<<q>>) = 1
  BY DEF Free
<1>2. \A n \in Free(P) : <<n>> \in Seq(Free(P)) /\ <<n>> # << >> /\ Len(<<n>>) = 1 /\ <<n>>[1] = n
  OBVIOUS
<1>3. QED
  BY <1>1, <1>2

LEMMA ItemPathIs ==
  ASSUME NEW P, NEW q \in P \ {Yaml}, NEW n \in Free(P)
  PROVE  /\ Append(<<<<q>>>>, n) \in Seq(Free(P)) /\ Append(<<<<q>>>>, n) # << >> /\ Len(Append(<<<<q>>>>, n)) = 2
         /\ Append(<<<<q>>>>, n)[1] = <<q>> /\ Append(<<<<q>>>>, n)[2] = n
<1> DEFINE F == Free(P)
<1>1. <<q>> \in F
  BY FieldPathIs
<1>2. \A a, b \in F : /\ Append(<<a>>, b) \in Seq(F) /\ Append(<<a>>, b) # << >> /\ Len(Append(<<a>>, b)) = 2
                      /\ Append(<<a>>, b)[1] = a /\ Append(<<a>>, b)[2] = b
  <2> HIDE DEF F
  <2>1. QED
    OBVIOUS
<1>3. QED
  BY <1>1, <1>2

LEMMA FolderWritten ==
  ASSUME NEW P, NEW schema, NEW f, f.path \in P \ {Yaml}, f.style = "folder", f.list = TRUE,
         NEW saved, NEW values, IsList(values), values # << >>,
         \A j \in 1..Len(values) : values[j].name \in Free(P),
         \A i, j \in 1..Len(values) : values[i].name = values[j].name => i = j,
         \A j \in 1..Len(values) : GoodWrites(P, saved[values[j]]),
         \A j \in 1..Len(values) : Len(values[j].name) = 1 \/ \A y \in ToSet(saved[values[j]]) : y.path # << >>
  PROVE  FieldDone(P, schema, f, values, saved)
<1> DEFINE n == Len(values)
           pre(j) == Append(<<<<f.path>>>>, values[j].name)
           W(j) == ToSet(saved[values[j]])
           u == [j \in 1..n |-> Under(pre(j), saved[values[j]])]
           s == FieldWrites(schema, f, values, saved)
<1>1. n \in Nat /\ DOMAIN values = 1..n /\ n # 0
  <2>1. n \in Nat /\ DOMAIN values = 1..n /\ (values # << >> <=> ToSet(values) # {}) /\ \A x : x \in ToSet(values) <=> \E k \in 1..n : x = values[k]
    BY ListIs
  <2>2. QED
    BY <2>1
<1>2. s = FlattenSeq(u)
  BY <1>1 DEF FieldWrites
<1>3. ASSUME NEW j \in 1..n
      PROVE  /\ pre(j) \in Seq(Free(P)) /\ pre(j) # << >> /\ Len(pre(j)) = 2
             /\ pre(j)[1] = <<f.path>> /\ pre(j)[2] = values[j].name
  BY ItemPathIs
<1>4. ASSUME NEW j \in 1..n
      PROVE  IsList(u[j]) /\ ToSet(u[j]) = MovedTo(pre(j), W(j))
  <2>1. IsList(saved[values[j]]) /\ AreWrites(P, ToSet(saved[values[j]]))
    BY DEF GoodWrites
  <2>2. IsList(Under(pre(j), saved[values[j]])) /\ ToSet(Under(pre(j), saved[values[j]])) = MovedTo(pre(j), ToSet(saved[values[j]]))
    <3> HIDE DEF pre
    <3>1. QED
      BY <2>1, UnderIs
  <2>3. u[j] = Under(pre(j), saved[values[j]])
    OBVIOUS
  <2>4. QED
    BY <2>2, <2>3
<1>5. u = [j \in 1..n |-> u[j]]
  OBVIOUS
<1>6. ASSUME NEW j \in 1..n
      PROVE  /\ AreWrites(P, MovedTo(pre(j), W(j))) /\ PathsDiffer(MovedTo(pre(j), W(j)))
             /\ \A x \in MovedTo(pre(j), W(j)) : Len(x.path) \in Nat /\ Len(x.path) >= 2 /\ x.path[1] = <<f.path>> /\ x.path[2] = values[j].name
  <2>1. /\ pre(j) \in Seq(Free(P)) /\ pre(j) # << >> /\ Len(pre(j)) = 2
        /\ pre(j)[1] = <<f.path>> /\ pre(j)[2] = values[j].name
    BY <1>3
  <2>2. AreWrites(P, W(j)) /\ PathsDiffer(W(j))
    BY DEF GoodWrites
  <2>3. (\A y \in W(j) : y.path # << >>) \/ Len(pre(j)[Len(pre(j))]) = 1
    BY <2>1
  <2> HIDE DEF pre, W
  <2>4. /\ AreWrites(P, MovedTo(pre(j), W(j))) /\ PathsDiffer(MovedTo(pre(j), W(j)))
        /\ \A x \in MovedTo(pre(j), W(j)) : Len(x.path) \in Nat /\ Len(x.path) >= Len(pre(j)) /\ \A i \in 1..Len(pre(j)) : x.path[i] = pre(j)[i]
    <3> DEFINE a == pre(j)
               S == W(j)
    <3>1. a \in Seq(Free(P)) /\ a # << >> /\ AreWrites(P, S) /\ ((\A y \in S : y.path # << >>) \/ Len(a[Len(a)]) = 1)
      BY <2>1, <2>2, <2>3
    <3> HIDE DEF a, S
    <3>2. /\ AreWrites(P, MovedTo(a, S))
          /\ \A x \in MovedTo(a, S) : Len(x.path) \in Nat /\ Len(x.path) >= Len(a) /\ \A i \in 1..Len(a) : x.path[i] = a[i]
          /\ PathsDiffer(S) => PathsDiffer(MovedTo(a, S))
      BY <3>1, MovedIs
    <3>3. QED
      BY <2>2, <3>2 DEF a, S
  <2>5. 1 \in 1..2 /\ 2 \in 1..2
    OBVIOUS
  <2>6. QED
    BY <2>1, <2>4, <2>5
<1> HIDE DEF u, s
<1>7. /\ IsList(s)
      /\ \A x : x \in ToSet(s) <=> \E j \in 1..n : x \in MovedTo(pre(j), W(j))
  <2>1. IsList(FlattenSeq(u)) /\ \A x : x \in ToSet(FlattenSeq(u)) <=> \E k \in 1..n : x \in ToSet(u[k])
    <3> HIDE DEF n
    <3>1. QED
      BY <1>1, <1>4, <1>5, FlattenLists
  <2>2. QED
    BY <1>2, <1>4, <2>1
<1> HIDE DEF pre, W
<1>8. AreWrites(P, ToSet(s))
  BY <1>6, <1>7 DEF AreWrites
<1>9. ASSUME NEW x \in ToSet(s), NEW z \in ToSet(s), x.path = z.path PROVE x = z
  <2>1. PICK j \in 1..n : x \in MovedTo(pre(j), W(j))
    BY <1>7
  <2>2. PICK i \in 1..n : z \in MovedTo(pre(i), W(i))
    BY <1>7
  <2>3. values[j].name = values[i].name
    BY <1>6, <1>9, <2>1, <2>2
  <2>4. i = j
    BY <2>3
  <2>5. QED
    BY <1>6, <1>9, <2>1, <2>2, <2>4 DEF PathsDiffer
<1>10. \A x \in ToSet(s) : x.path # << >> /\ x.path[1] = <<f.path>>
  <2>1. TAKE x \in ToSet(s)
  <2>2. PICK j \in 1..n : x \in MovedTo(pre(j), W(j))
    BY <1>7
  <2>3. Len(x.path) \in Nat /\ Len(x.path) >= 2 /\ x.path[1] = <<f.path>> /\ x.path[2] = values[j].name
    BY <1>6, <2>2
  <2>4. QED
    BY <2>3
<1>11. s # << >>
  <2>1. 1 \in 1..n
    BY <1>1
  <2>2. saved[values[1]] # << >> /\ IsList(saved[values[1]])
    BY <2>1 DEF GoodWrites
  <2>3. PICK y : y \in W(1)
    BY <2>2, ListIs DEF W
  <2>4. [path |-> pre(1) \o y.path, content |-> y.content] \in MovedTo(pre(1), W(1))
    BY <2>3 DEF MovedTo
  <2>5. ToSet(s) # {}
    BY <1>7, <2>1, <2>4
  <2>6. QED
    BY <1>7, <2>5, ListIs
<1>12. ASSUME NEW j \in 1..n PROVE IsPart(ToSet(s), pre(j), W(j))
  <2>1. MovedTo(pre(j), W(j)) \subseteq ToSet(s)
    BY <1>7
  <2>2. ASSUME NEW x \in ToSet(s), Len(x.path) > Len(pre(j)), \A i \in 1..Len(pre(j)) : x.path[i] = pre(j)[i]
        PROVE  x \in MovedTo(pre(j), W(j))
    <3>1. PICK i \in 1..n : x \in MovedTo(pre(i), W(i))
      BY <1>7
    <3>2. x.path[2] = values[i].name
      BY <1>6, <3>1
    <3>3. x.path[2] = values[j].name
      <4>1. Len(pre(j)) = 2 /\ pre(j)[2] = values[j].name
        BY <1>3
      <4>2. 2 \in 1..Len(pre(j))
        BY <4>1
      <4>3. QED
        BY <2>2, <4>1, <4>2
    <3>4. i = j
      BY <3>2, <3>3
    <3>5. QED
      BY <3>1, <3>4
  <2>3. QED
    BY <2>1, <2>2 DEF IsPart
<1>13. FieldGood(P, f, s)
  BY <1>7, <1>8, <1>9, <1>10 DEF FieldGood, PathsDiffer
<1>14. /\ s # << >>
       /\ \A j \in 1..Len(values) : IsPart(ToSet(s), Append(<<<<f.path>>>>, values[j].name), ToSet(saved[values[j]]))
       /\ \A x \in ToSet(s) : \E j \in 1..Len(values) : x \in MovedTo(Append(<<<<f.path>>>>, values[j].name), ToSet(saved[values[j]]))
  BY <1>7, <1>11, <1>12 DEF pre, W
<1>15. FieldKept(schema, f, values, saved, s)
  BY <1>14 DEF FieldKept
<1>16. QED
  BY <1>13, <1>15 DEF s, FieldDone

LEMMA NothingWritten ==
  ASSUME NEW P, NEW schema, NEW f, NEW saved, NEW values, values = << >>
  PROVE  FieldDone(P, schema, f, values, saved)
<1>1. FieldWrites(schema, f, values, saved) = << >>
  BY DEF FieldWrites
<1>2. ToSet(<< >>) = {}
  BY DEF ToSet
<1>3. IsList(<< >>)
  BY DEF IsList
<1>4. FieldGood(P, f, << >>)
  BY <1>2, <1>3 DEF FieldGood, AreWrites, PathsDiffer
<1>5. FieldKept(schema, f, values, saved, << >>)
  BY DEF FieldKept
<1>6. QED
  BY <1>1, <1>4, <1>5 DEF FieldDone

LEMMA SingleIs ==
  ASSUME NEW x
  PROVE  IsList(<<x>>) /\ ToSet(<<x>>) = {x} /\ <<x>> # << >>
<1>1. ToSet(<<x>>) = {x}
  BY DEF ToSet
<1>2. QED
  BY <1>1 DEF IsList

LEMMA NamedWritten ==
  ASSUME NEW P, NEW schema, NEW f, f.path \in P \ {Yaml}, f.style = "named", f.name # NoRoot,
         NEW saved, NEW values, values # << >>
  PROVE  FieldDone(P, schema, f, values, saved)
<1> DEFINE s == FieldWrites(schema, f, values, saved)
           r == RootFile(schema, f, values)
<1>1. s = SaveFile(<<<<f.path>>>>, f.name, [j \in DOMAIN values |-> Facts(schema, values[j])])
  BY DEF FieldWrites
<1>2. s = <<r>>
  BY <1>1 DEF SaveFile, RootFile
<1>3. r.path = <<<<f.path>>>> /\ r = [path |-> r.path, content |-> r.content]
  BY DEF RootFile
<1> HIDE DEF s, r
<1>4. IsList(s) /\ ToSet(s) = {r} /\ s # << >>
  BY <1>2, SingleIs
<1>5. /\ r.path \in Seq(Free(P)) /\ r.path # << >> /\ Len(r.path) = 1 /\ r.path[1] = <<f.path>>
      /\ Len(<<f.path>>) = 1
  BY <1>3, FieldPathIs
<1>6. IsRel(P, r.path)
  <2>1. Len(r.path[Len(r.path)]) = 1
    <3>1. r.path[Len(r.path)] = <<f.path>>
      BY <1>5
    <3>2. QED
      BY <1>5, <3>1, Zenon
  <2>2. QED
    BY <1>5, <2>1 DEF IsRel
<1>7. FieldGood(P, f, s)
  BY <1>3, <1>4, <1>5, <1>6 DEF FieldGood, AreWrites, PathsDiffer
<1>8. FieldKept(schema, f, values, saved, s)
  BY <1>4 DEF r, FieldKept
<1>9. QED
  BY <1>7, <1>8 DEF s, FieldDone

LEMMA OneWritten ==
  ASSUME NEW P, NEW schema, NEW f, f.path \in P \ {Yaml}, f.style \in {"folder", "whole"}, f.list = FALSE,
         NEW saved, NEW values, values # << >>, GoodWrites(P, saved[values[1]])
  PROVE  FieldDone(P, schema, f, values, saved)
<1> DEFINE s == FieldWrites(schema, f, values, saved)
           pre == <<<<f.path>>>>
           t == saved[values[1]]
           W == ToSet(t)
<1>1. s = Under(pre, t)
  BY DEF FieldWrites
<1>2. IsList(t) /\ t # << >> /\ AreWrites(P, W) /\ PathsDiffer(W)
  BY DEF GoodWrites
<1>3. /\ pre \in Seq(Free(P)) /\ pre # << >> /\ Len(pre) = 1 /\ pre[1] = <<f.path>>
      /\ Len(<<f.path>>) = 1
  BY FieldPathIs
<1> HIDE DEF s, pre, t
<1>4. IsList(s) /\ ToSet(s) = MovedTo(pre, W)
  BY <1>1, <1>2, UnderIs
<1>5. Len(pre[Len(pre)]) = 1
  <2>1. pre[Len(pre)] = <<f.path>>
    BY <1>3
  <2>2. QED
    BY <1>3, <2>1, Zenon
<1>6. /\ AreWrites(P, MovedTo(pre, W)) /\ PathsDiffer(MovedTo(pre, W))
      /\ \A x \in MovedTo(pre, W) : Len(x.path) \in Nat /\ Len(x.path) >= Len(pre) /\ \A i \in 1..Len(pre) : x.path[i] = pre[i]
  <2> HIDE DEF W
  <2>1. QED
    BY <1>2, <1>3, <1>5, MovedIs
<1>7. \A x \in ToSet(s) : x.path # << >> /\ x.path[1] = <<f.path>>
  <2>1. TAKE x \in ToSet(s)
  <2>2. Len(x.path) >= 1 /\ \A i \in 1..1 : x.path[i] = pre[i]
    BY <1>3, <1>4, <1>6
  <2>3. 1 \in 1..1
    OBVIOUS
  <2>4. x.path[1] = <<f.path>>
    BY <1>3, <2>2, <2>3
  <2>5. x.path # << >>
    BY <2>2
  <2>6. QED
    BY <2>4, <2>5
<1>8. s # << >>
  <2>1. PICK y : y \in W
    BY <1>2, ListIs
  <2>2. [path |-> pre \o y.path, content |-> y.content] \in MovedTo(pre, W)
    BY <2>1 DEF MovedTo
  <2>3. QED
    BY <1>4, <2>2, ListIs
<1>9. FieldGood(P, f, s)
  BY <1>4, <1>6, <1>7 DEF FieldGood
<1>10. FieldKept(schema, f, values, saved, s)
  BY <1>4, <1>8 DEF pre, t, W, FieldKept
<1>11. QED
  BY <1>9, <1>10 DEF s, FieldDone

-----------------------------------------------------------------------------
(* What is written for a model.                                            *)

FieldsDiffer(fields) == \A k, l \in DOMAIN fields : fields[k].path = fields[l].path => k = l

\* The writes of a model are those of its fields.
MadeOf(fields, fw, s) ==
  /\ \A x \in ToSet(s) : x.path # << >> /\ \E k \in DOMAIN fields : x \in ToSet(fw[k])
  /\ \A k \in DOMAIN fields : /\ ToSet(fw[k]) \subseteq ToSet(s)
                              /\ \A x \in ToSet(s) : x.path[1] = <<fields[k].path>> => x \in ToSet(fw[k])

LEMMA FieldsWritten ==
  ASSUME NEW P, NEW fields, IsList(fields), FieldsDiffer(fields),
         NEW fw, fw = [k \in DOMAIN fields |-> fw[k]], \A k \in DOMAIN fields : FieldGood(P, fields[k], fw[k]),
         \E k \in DOMAIN fields : fw[k] # << >>
  PROVE  GoodWrites(P, FlattenSeq(fw)) /\ MadeOf(fields, fw, FlattenSeq(fw))
<1> DEFINE n == Len(fields)
           s == FlattenSeq(fw)
<1>1. n \in Nat /\ DOMAIN fields = 1..n
  BY ListIs
<1>2. IsList(s) /\ \A x : x \in ToSet(s) <=> \E k \in 1..n : x \in ToSet(fw[k])
  <2>1. \A k \in 1..n : IsList(fw[k])
    BY <1>1 DEF FieldGood
  <2>2. fw = [k \in 1..n |-> fw[k]]
    BY <1>1
  <2> HIDE DEF n
  <2>3. QED
    BY <1>1, <2>1, <2>2, FlattenLists
<1> HIDE DEF s
<1>3. \A k, l \in 1..n : <<fields[k].path>> = <<fields[l].path>> => k = l
  <2>1. \A a, b : <<a>> = <<b>> => a = b
    OBVIOUS
  <2>2. QED
    BY <1>1, <2>1 DEF FieldsDiffer
<1>4. ASSUME NEW k \in 1..n, NEW x \in ToSet(fw[k])
      PROVE  /\ x.path # << >> /\ x.path[1] = <<fields[k].path>>
             /\ x = [path |-> x.path, content |-> x.content] /\ IsRel(P, x.path)
  BY <1>1 DEF FieldGood, AreWrites
<1>5. ASSUME NEW k \in 1..n, NEW x \in ToSet(s), x.path[1] = <<fields[k].path>> PROVE x \in ToSet(fw[k])
  <2>1. PICK l \in 1..n : x \in ToSet(fw[l])
    BY <1>2
  <2>2. x.path[1] = <<fields[l].path>>
    BY <1>4, <2>1
  <2>3. k = l
    BY <1>3, <1>5, <2>2
  <2>4. QED
    BY <2>1, <2>3
<1>6. MadeOf(fields, fw, s)
  <2>1. ASSUME NEW x \in ToSet(s) PROVE x.path # << >> /\ \E k \in DOMAIN fields : x \in ToSet(fw[k])
    BY <1>1, <1>2, <1>4
  <2>2. ASSUME NEW k \in DOMAIN fields
        PROVE  /\ ToSet(fw[k]) \subseteq ToSet(s)
               /\ \A x \in ToSet(s) : x.path[1] = <<fields[k].path>> => x \in ToSet(fw[k])
    BY <1>1, <1>2, <1>5
  <2>3. QED
    BY <2>1, <2>2 DEF MadeOf
<1>7. AreWrites(P, ToSet(s))
  <2>1. ASSUME NEW x \in ToSet(s) PROVE x = [path |-> x.path, content |-> x.content] /\ IsRel(P, x.path)
    <3>1. PICK k \in 1..n : x \in ToSet(fw[k])
      BY <1>2
    <3>2. QED
      BY <1>4, <3>1
  <2>2. QED
    BY <2>1 DEF AreWrites
<1>8. ASSUME NEW x \in ToSet(s), NEW z \in ToSet(s), x.path = z.path PROVE x = z
  <2>1. PICK k \in 1..n : x \in ToSet(fw[k])
    BY <1>2
  <2>2. z \in ToSet(fw[k])
    BY <1>4, <1>5, <1>8, <2>1
  <2>3. PathsDiffer(ToSet(fw[k]))
    BY <1>1 DEF FieldGood
  <2>4. QED
    BY <1>8, <2>1, <2>2, <2>3 DEF PathsDiffer
<1>9. s # << >>
  <2>1. PICK k \in DOMAIN fields : fw[k] # << >>
    OBVIOUS
  <2>2. IsList(fw[k])
    BY DEF FieldGood
  <2>3. PICK x : x \in ToSet(fw[k])
    BY <2>1, <2>2, ListIs
  <2>4. x \in ToSet(s)
    BY <1>1, <1>2, <2>3
  <2>5. QED
    BY <1>2, <2>4, ListIs
<1>10. QED
  BY <1>2, <1>6, <1>7, <1>8, <1>9 DEF GoodWrites, PathsDiffer, s

\* What lies below a path of one field is a part of the whole.
LEMMA PartOfModel ==
  ASSUME NEW fields, NEW fw, NEW s, MadeOf(fields, fw, s), NEW k \in DOMAIN fields,
         NEW pre, NEW m \in Nat, Len(pre) = m, m >= 1, pre[1] = <<fields[k].path>>, NEW T, IsPart(ToSet(fw[k]), pre, T)
  PROVE  IsPart(ToSet(s), pre, T)
<1>1. MovedTo(pre, T) \subseteq ToSet(s)
  BY DEF IsPart, MadeOf
<1>2. ASSUME NEW x \in ToSet(s), Len(x.path) > Len(pre), \A i \in 1..Len(pre) : x.path[i] = pre[i]
      PROVE  x \in MovedTo(pre, T)
  <2>1. 1 \in 1..Len(pre)
    OBVIOUS
  <2>2. x.path[1] = <<fields[k].path>>
    BY <1>2, <2>1
  <2>3. x \in ToSet(fw[k])
    BY <2>2 DEF MadeOf
  <2>4. QED
    BY <1>2, <2>3 DEF IsPart
<1>3. QED
  BY <1>1, <1>2 DEF IsPart

-----------------------------------------------------------------------------
(* Well-formed schemas and models.                                         *)

\* Folders have lists of models that are named by their folder or their file,
\* or one model with external fields; all other files have models without
\* external fields, which are named by what they contain.
IsField(P, schema, f) ==
  /\ f.path \in P \ {Yaml} /\ f.name # NoRoot /\ f.of \in DOMAIN schema
  /\ f.style \in {"folder", "named", "whole"} /\ f.list \in BOOLEAN /\ f.optional \in BOOLEAN
  /\ f.style = "folder" /\ schema[f.of].fields # << >> => schema[f.of].implied = IF f.list THEN "folder" ELSE "none"
  /\ f.style = "folder" /\ schema[f.of].fields = << >> => f.list /\ schema[f.of].implied \in {"file", "none"}
  /\ f.style # "folder" => schema[f.of].fields = << >> /\ schema[f.of].implied = "none" /\ (f.style = "whole" => ~f.list)

\* A model with external fields has one that it cannot do without.
FileSchema(P, schema) ==
  /\ Levels(schema) \in Nat
  /\ \A t \in DOMAIN schema :
       /\ IsList(schema[t].fields) /\ FieldsDiffer(schema[t].fields)
       /\ \A k \in DOMAIN schema[t].fields : IsField(P, schema, schema[t].fields[k])
       /\ schema[t].fields # << >> => \E k \in DOMAIN schema[t].fields : ~schema[t].fields[k].optional

\* No type has external fields of its own, not even below others.
IsRank(schema, rank) ==
  \A t \in DOMAIN schema :
    /\ rank[t] \in 1..Levels(schema)
    /\ \A k \in DOMAIN schema[t].fields : rank[schema[t].fields[k].of] < rank[t]

\* The values of the external fields are those the schema asks for.
IsModel(schema, w) ==
  /\ w = Model(w.type, w.name, w.own, w.parts) /\ w.type \in DOMAIN schema
  /\ \A x \in w.own : x[1] # "name"
  /\ w.parts = [k \in DOMAIN schema[w.type].fields |-> w.parts[k]]
  /\ \A k \in DOMAIN w.parts :
       /\ IsList(w.parts[k]) /\ (~schema[w.type].fields[k].list => Len(w.parts[k]) <= 1)
       /\ \A x \in ToSet(w.parts[k]) : x.type = schema[w.type].fields[k].of

IsOrder(P, order) ==
  order \in Seq(Free(P) \ {<< >>}) /\ \A k, l \in 1..Len(order) : order[k] = order[l] => k = l

LEMMA OrderedNames ==
  ASSUME NEW P, NEW order, IsOrder(P, order), NEW names, Ordered(order, names)
  PROVE  /\ names \in Seq(Free(P) \ {<< >>}) /\ ToSet(names) \subseteq ToSet(order)
         /\ \A i, j \in 1..Len(names) : names[i] = names[j] => i = j
<1> DEFINE n == Len(order)
           F == Free(P) \ {<< >>}
           s == [k \in 1..n |-> IF order[k] \in ToSet(names) THEN <<order[k]>> ELSE << >>]
<1>1. order \in Seq(F) /\ n \in Nat /\ DOMAIN order = 1..n
  BY DEF IsOrder
<1>2. names = FlattenSeq(s)
  <2>1. s = [k \in DOMAIN order |-> IF order[k] \in ToSet(names) THEN <<order[k]>> ELSE << >>]
    BY <1>1
  <2> HIDE DEF s
  <2>2. QED
    BY <2>1 DEF Ordered
<1>3. ASSUME NEW k \in 1..n
      PROVE  s[k] \in Seq(F) /\ (s[k] = << >> \/ s[k] = <<order[k]>>) /\ Len(<<order[k]>>) = 1 /\ <<order[k]>>[1] = order[k] /\ order[k] \in F
  <2>1. order[k] \in F
    BY <1>1
  <2> HIDE DEF F
  <2>2. QED
    BY <2>1
<1>4. s = [k \in 1..n |-> s[k]]
  OBVIOUS
<1> HIDE DEF s, F
<1>5. s \in Seq(Seq(F)) /\ Len(s) = n
  <2> DEFINE Q == Seq(F)
  <2>1. \A k \in 1..n : s[k] \in Q
    BY <1>3
  <2> HIDE DEF Q, n
  <2>2. s \in Seq(Q) /\ Len(s) = n
    BY <1>1, <1>4, <2>1, FunctionIsSeq
  <2>3. QED
    BY <2>2 DEF Q
<1>6. names \in Seq(F) /\ \A x : x \in ToSet(names) <=> \E k \in 1..n : x \in ToSet(s[k])
  <2>1. FlattenSeq(s) \in Seq(F) /\ \A x : x \in ToSet(FlattenSeq(s)) <=> \E k \in 1..n : x \in ToSet(s[k])
    <3> HIDE DEF n
    <3>1. QED
      BY <1>1, <1>3, <1>4, KeptOf
  <2>2. QED
    BY <1>2, <2>1
<1>7. ASSUME NEW k \in 1..n, NEW i \in 1..Len(s[k]) PROVE i = 1 /\ s[k][i] = order[k]
  <2>1. CASE s[k] = << >>
    <3>1. Len(s[k]) = 0
      BY <2>1
    <3>2. QED
      BY <3>1
  <2>2. CASE s[k] = <<order[k]>>
    <3>1. Len(s[k]) = 1 /\ s[k][1] = order[k]
      BY <1>3, <2>2
    <3>2. QED
      BY <3>1
  <2>3. QED
    BY <1>3, <2>1, <2>2
<1>8. ASSUME NEW i \in 1..Len(names), NEW j \in 1..Len(names), i < j PROVE names[i] # names[j]
  <2>1. PICK k, a, l, b : /\ PlaceOf(s, k, a) /\ PlaceOf(s, l, b) /\ Before(k, a, l, b)
                          /\ FlattenSeq(s)[i] = s[k][a] /\ FlattenSeq(s)[j] = s[l][b]
    <3>1. i \in 1..Len(FlattenSeq(s)) /\ j \in 1..Len(FlattenSeq(s))
      BY <1>2
    <3>2. QED
      BY <1>5, <1>8, <3>1, FlattenOrigin
  <2>2. k \in 1..n /\ a \in 1..Len(s[k]) /\ l \in 1..n /\ b \in 1..Len(s[l])
    BY <1>5, <2>1 DEF PlaceOf
  <2>3. a = 1 /\ s[k][a] = order[k] /\ b = 1 /\ s[l][b] = order[l]
    BY <1>7, <2>2
  <2>4. k < l
    BY <2>1, <2>3 DEF Before
  <2>5. order[k] # order[l]
    BY <2>2, <2>4 DEF IsOrder
  <2>6. QED
    BY <1>2, <2>1, <2>3, <2>5
<1>9. \A i, j \in 1..Len(names) : names[i] = names[j] => i = j
  <2>1. Len(names) \in Nat
    BY <1>6
  <2>2. QED
    BY <1>8, <2>1
<1>10. ASSUME NEW x \in ToSet(names) PROVE x \in ToSet(order)
  <2>1. PICK k \in 1..n : x \in ToSet(s[k])
    BY <1>6
  <2>2. PICK i \in 1..Len(s[k]) : x = s[k][i]
    <3>1. s[k] \in Seq(F)
      BY <1>3
    <3>2. QED
      BY <2>1, <3>1, PathSet
  <2>3. x = order[k]
    BY <1>7, <2>2
  <2>4. QED
    BY <1>1, <2>3 DEF ToSet
<1>11. QED
  BY <1>6, <1>9, <1>10 DEF F

\* The file of a model without external fields.
OwnFile(schema, w) == [path |-> << >>, content |-> [root |-> NoRoot, items |-> <<Facts(schema, w)>>]]

SavedOf(P, schema, w, s) ==
  /\ GoodWrites(P, s)
  /\ IF schema[w.type].fields = << >> THEN ToSet(s) = {OwnFile(schema, w)}
                                      ELSE \A x \in ToSet(s) : x.path # << >>

\* The values of a list of folders or files have the names of the order.
NamesFit(P, order, values) ==
  /\ Ordered(order, [j \in DOMAIN values |-> values[j].name])
  /\ \A j \in 1..Len(values) : values[j].name \in Free(P) \ {<< >>}
  /\ \A i, j \in 1..Len(values) : values[i].name = values[j].name => i = j

LEMMA ItemNames ==
  ASSUME NEW P, NEW schema, NEW order, IsOrder(P, order),
         NEW w, IsModel(schema, w), FitsFiles(schema, order, w), NEW k \in DOMAIN w.parts,
         schema[w.type].fields[k].style = "folder", schema[w.type].fields[k].list
  PROVE  NamesFit(P, order, w.parts[k])
<1> DEFINE values == w.parts[k]
           names  == [j \in DOMAIN values |-> values[j].name]
<1>1. Len(values) \in Nat /\ DOMAIN values = 1..Len(values)
  <2>1. IsList(values)
    BY DEF IsModel
  <2> HIDE DEF values
  <2>2. QED
    BY <2>1, ListIs
<1>2. Ordered(order, names)
  BY DEF FitsFiles
<1>3. /\ names \in Seq(Free(P) \ {<< >>})
      /\ \A i, j \in 1..Len(names) : names[i] = names[j] => i = j
  <2> HIDE DEF names
  <2>1. QED
    BY <1>2, OrderedNames
<1>4. names = [j \in 1..Len(values) |-> values[j].name]
  BY <1>1
<1>5. Len(names) = Len(values) /\ \A j \in 1..Len(values) : names[j] = values[j].name
  BY <1>1, <1>4
<1> HIDE DEF names, values
<1>6. \A j \in 1..Len(values) : names[j] \in Free(P) \ {<< >>}
  BY <1>1, <1>3, <1>5, ElementIn
<1>7. QED
  BY <1>1, <1>2, <1>3, <1>5, <1>6 DEF names, values, NamesFit

LEMMA FieldIs ==
  ASSUME NEW P, NEW schema, FileSchema(P, schema), NEW w, IsModel(schema, w), NEW k \in DOMAIN w.parts
  PROVE  /\ k \in DOMAIN schema[w.type].fields /\ IsField(P, schema, schema[w.type].fields[k])
         /\ IsList(w.parts[k]) /\ Len(w.parts[k]) \in Nat /\ DOMAIN w.parts[k] = 1..Len(w.parts[k])
         /\ \A j \in 1..Len(w.parts[k]) : w.parts[k][j] \in ToSet(w.parts[k]) /\ w.parts[k][j].type = schema[w.type].fields[k].of
         /\ w.parts[k] # << >> <=> Len(w.parts[k]) # 0
<1>1. DOMAIN w.parts = DOMAIN schema[w.type].fields
  BY DEF IsModel
<1>2. IsField(P, schema, schema[w.type].fields[k])
  BY <1>1 DEF FileSchema, IsModel
<1>3. IsList(w.parts[k]) /\ \A x \in ToSet(w.parts[k]) : x.type = schema[w.type].fields[k].of
  BY DEF IsModel
<1> DEFINE values == w.parts[k]
<1>4. /\ Len(values) \in Nat /\ DOMAIN values = 1..Len(values)
      /\ \A x : x \in ToSet(values) <=> \E j \in 1..Len(values) : x = values[j]
      /\ values # << >> <=> ToSet(values) # {}
  <2> HIDE DEF values
  <2>1. IsList(values)
    BY <1>3 DEF values
  <2>2. QED
    BY <2>1, ListIs
<1>5. \A j \in 1..Len(values) : values[j] \in ToSet(values)
  BY <1>4
<1>6. values # << >> <=> Len(values) # 0
  <2> HIDE DEF values
  <2>1. CASE Len(values) = 0
    BY <1>4, <2>1
  <2>2. CASE Len(values) # 0
    <3>1. 1 \in 1..Len(values)
      BY <1>4, <2>2
    <3>2. QED
      BY <1>4, <1>5, <2>2, <3>1
  <2>3. QED
    BY <2>1, <2>2
<1>7. QED
  BY <1>1, <1>2, <1>3, <1>4, <1>5, <1>6

LEMMA FieldWritten ==
  ASSUME NEW P, NEW schema, FileSchema(P, schema), NEW order, IsOrder(P, order),
         NEW w, IsModel(schema, w), FitsFiles(schema, order, w), NEW k \in DOMAIN w.parts, NEW saved,
         schema[w.type].fields[k].style # "named" => \A x \in ToSet(w.parts[k]) : SavedOf(P, schema, x, saved[x])
  PROVE  FieldDone(P, schema, schema[w.type].fields[k], w.parts[k], saved)
<1> DEFINE f == schema[w.type].fields[k]
           values == w.parts[k]
<1>1. /\ IsField(P, schema, f) /\ IsList(values) /\ Len(values) \in Nat
      /\ \A j \in 1..Len(values) : values[j] \in ToSet(values) /\ values[j].type = f.of
      /\ values # << >> <=> Len(values) # 0
  BY FieldIs
<1>2. /\ f.path \in P \ {Yaml} /\ f.name # NoRoot /\ f.list \in BOOLEAN
      /\ f.style \in {"folder", "named", "whole"} /\ (f.style = "whole" => f.list = FALSE)
  BY <1>1 DEF IsField
<1>3. CASE values = << >>
  <2>1. FieldDone(P, schema, f, values, saved)
    <3> HIDE DEF f, values
    <3>1. QED
      BY <1>3, NothingWritten
  <2>2. QED
    BY <2>1
<1>4. CASE values # << >> /\ f.style = "named"
  <2>1. FieldDone(P, schema, f, values, saved)
    <3> HIDE DEF f, values
    <3>1. QED
      BY <1>2, <1>4, NamedWritten
  <2>2. QED
    BY <2>1
<1>5. CASE values # << >> /\ f.style = "folder" /\ f.list = TRUE
  <2>1. \A j \in 1..Len(values) : SavedOf(P, schema, values[j], saved[values[j]])
    BY <1>1, <1>5
  <2>2. /\ \A j \in 1..Len(values) : values[j].name \in Free(P) \ {<< >>}
        /\ \A i, j \in 1..Len(values) : values[i].name = values[j].name => i = j
    <3>1. NamesFit(P, order, w.parts[k])
      BY <1>5, ItemNames
    <3>2. QED
      BY <3>1 DEF NamesFit
  <2>3. ASSUME NEW j \in 1..Len(values)
        PROVE  Len(values[j].name) = 1 \/ \A y \in ToSet(saved[values[j]]) : y.path # << >>
    <3>1. CASE schema[f.of].fields = << >>
      <4>1. Len(values[j].name) <= 1
        BY <1>1, <1>5, <3>1 DEF FitsFiles
      <4>2. values[j].name \in Free(P) /\ values[j].name # << >>
        BY <2>2
      <4>3. Len(values[j].name) \in Nat \ {0}
        <5> DEFINE name == values[j].name
        <5>1. name \in Free(P) /\ name # << >>
          BY <4>2
        <5> HIDE DEF name
        <5>2. Len(name) \in Nat \ {0}
          BY <5>1 DEF Free
        <5>3. QED
          BY <5>2 DEF name
      <4> DEFINE l == Len(values[j].name)
      <4> HIDE DEF l
      <4>4. l <= 1 /\ l \in Nat \ {0}
        BY <4>1, <4>3 DEF l
      <4>5. l = 1
        BY <4>4
      <4>6. QED
        BY <4>5 DEF l
    <3>2. CASE schema[f.of].fields # << >>
      BY <1>1, <2>1, <3>2 DEF SavedOf
    <3>3. QED
      BY <3>1, <3>2
  <2>4. \A j \in 1..Len(values) : GoodWrites(P, saved[values[j]]) /\ values[j].name \in Free(P)
    BY <2>1, <2>2 DEF SavedOf
  <2>5. FieldDone(P, schema, f, values, saved)
    <3> HIDE DEF f, values
    <3>1. QED
      BY <1>1, <1>2, <1>5, <2>2, <2>3, <2>4, FolderWritten
  <2>6. QED
    BY <2>5
<1>6. CASE values # << >> /\ f.style \in {"folder", "whole"} /\ f.list = FALSE
  <2>1. GoodWrites(P, saved[values[1]])
    <3>1. 1 \in 1..Len(values)
      BY <1>1, <1>6
    <3>2. values[1] \in ToSet(values)
      BY <1>1, <3>1
    <3>3. SavedOf(P, schema, values[1], saved[values[1]])
      BY <1>6, <3>2
    <3>4. QED
      BY <3>3 DEF SavedOf
  <2>2. FieldDone(P, schema, f, values, saved)
    <3> HIDE DEF f, values
    <3>1. QED
      BY <1>2, <1>6, <2>1, OneWritten
  <2>3. QED
    BY <2>2
<1>7. QED
  BY <1>2, <1>3, <1>4, <1>5, <1>6

\* The field whose values are there.
LEMMA ModelWritten ==
  ASSUME NEW P, NEW schema, FileSchema(P, schema), NEW order, IsOrder(P, order),
         NEW w, IsModel(schema, w), FitsFiles(schema, order, w), schema[w.type].fields # << >>, NEW saved,
         \A k \in DOMAIN w.parts : schema[w.type].fields[k].style # "named" =>
            \A x \in ToSet(w.parts[k]) : SavedOf(P, schema, x, saved[x])
  PROVE  LET fields == schema[w.type].fields
             fw == [k \in DOMAIN fields |-> FieldWrites(schema, fields[k], w.parts[k], saved)]
             s  == Writes(schema, w, saved)
         IN /\ SavedOf(P, schema, w, s) /\ MadeOf(fields, fw, s)
            /\ \A k \in DOMAIN fields : FieldGood(P, fields[k], fw[k]) /\ FieldKept(schema, fields[k], w.parts[k], saved, fw[k])
<1> DEFINE fields == schema[w.type].fields
           fw == [k \in DOMAIN fields |-> FieldWrites(schema, fields[k], w.parts[k], saved)]
           s  == Writes(schema, w, saved)
<1>1. DOMAIN w.parts = DOMAIN fields /\ w.type \in DOMAIN schema
  BY DEF IsModel
<1>2. /\ IsList(fields) /\ FieldsDiffer(fields)
      /\ \E k \in DOMAIN fields : ~fields[k].optional
  BY <1>1 DEF FileSchema
<1>3. \A k \in DOMAIN fields : FieldGood(P, fields[k], fw[k]) /\ FieldKept(schema, fields[k], w.parts[k], saved, fw[k])
  <2>1. TAKE k \in DOMAIN fields
  <2>2. FieldDone(P, schema, schema[w.type].fields[k], w.parts[k], saved)
    BY <1>1, FieldWritten
  <2>3. QED
    BY <2>2 DEF FieldDone
<1>4. \E k \in DOMAIN fields : fw[k] # << >>
  <2>1. PICK k \in DOMAIN fields : ~fields[k].optional
    BY <1>2
  <2>2. w.parts[k] # << >>
    BY <1>1, <2>1 DEF FitsFiles
  <2>3. fw[k] # << >>
    BY <1>3, <2>2 DEF FieldKept
  <2>4. QED
    BY <2>3
<1>5. fw = [k \in DOMAIN fields |-> fw[k]]
  OBVIOUS
<1>6. Facts(schema, w) = {}
  <2>1. PICK k \in DOMAIN fields : TRUE
    BY <1>2
  <2>2. w.parts # << >>
    BY <1>1, <2>1
  <2>3. QED
    BY <2>2 DEF FitsFiles
<1>7. s = FlattenSeq(fw) \o SaveFile(<< >>, NoRoot, <<Facts(schema, w)>>)
  BY DEF Writes
<1>8. SaveFile(<< >>, NoRoot, <<Facts(schema, w)>>) = << >>
  BY <1>6 DEF SaveFile
<1> HIDE DEF fw, s, fields
<1>9. GoodWrites(P, FlattenSeq(fw)) /\ MadeOf(fields, fw, FlattenSeq(fw))
  BY <1>2, <1>3, <1>4, <1>5, FieldsWritten
<1>10. s = FlattenSeq(fw)
  <2> DEFINE c == FlattenSeq(fw)
             S == ToSet(c)
  <2>1. c \in Seq(S)
    BY <1>9 DEF GoodWrites, IsList
  <2> HIDE DEF c, S
  <2>2. c \o << >> = c
    BY <2>1
  <2>3. QED
    BY <1>7, <1>8, <2>2 DEF c
<1>11. \A x \in ToSet(s) : x.path # << >>
  BY <1>9, <1>10 DEF MadeOf
<1>12. SavedOf(P, schema, w, s)
  BY <1>9, <1>10, <1>11 DEF SavedOf, fields
<1>13. QED
  BY <1>3, <1>9, <1>10, <1>12 DEF fields, fw, s

-----------------------------------------------------------------------------
(* Level by level.                                                         *)

LEMMA SavedUnfolds ==
  ASSUME NEW schema, NEW v, Levels(schema) \in Nat
  PROVE  SavedBy(schema, v) = [n \in 0..Levels(schema) |-> [w \in ModelsIn(schema, v) |-> IF n = 0 THEN << >> ELSE Writes(schema, w, SavedBy(schema, v)[n - 1])]]
<1> DEFINE L == Levels(schema)
           Once(g, n) == [w \in ModelsIn(schema, v) |-> IF n = 0 THEN << >> ELSE Writes(schema, w, g[n - 1])]
           Runs(g, m) == g = [n \in 0..m |-> Once(g, n)]
           T == {m \in 0..L : \E g : Runs(g, m)}
<1>1. \A g, h, n : (n # 0 => g[n - 1] = h[n - 1]) => Once(g, n) = Once(h, n)
  OBVIOUS
<1> HIDE DEF Once
<1>2. ASSUME NEW m \in 0..L, NEW g, \A n \in 0..m - 1 : g[n] = Once(g, n)
      PROVE  \E h : Runs(h, m)
  <2> DEFINE h == [n \in 0..m |-> IF n = m THEN Once(g, m) ELSE g[n]]
  <2>1. ASSUME NEW n \in 0..m PROVE h[n] = Once(h, n)
    <3>1. n # 0 => n - 1 \in 0..m /\ n - 1 # m
      OBVIOUS
    <3>2. n # 0 => h[n - 1] = g[n - 1]
      BY <3>1
    <3>3. Once(h, n) = Once(g, n)
      <4> HIDE DEF h
      <4>1. QED
        BY <1>1, <3>2
    <3>4. CASE n = m
      BY <3>3, <3>4
    <3>5. CASE n # m
      <4>1. n \in 0..m - 1
        BY <3>5
      <4>2. g[n] = Once(g, n)
        BY <1>2, <4>1
      <4>3. h[n] = g[n]
        BY <3>5
      <4>4. QED
        BY <3>3, <4>2, <4>3
    <3>6. QED
      BY <3>4, <3>5
  <2>2. h = [n \in 0..m |-> h[n]]
    OBVIOUS
  <2> HIDE DEF h
  <2>3. h = [n \in 0..m |-> Once(h, n)]
    BY <2>1, <2>2
  <2>4. QED
    BY <2>3
<1>3. 0 \in T
  <2>1. \A n \in 0..0 - 1 : FALSE
    OBVIOUS
  <2>2. 0 \in 0..L
    OBVIOUS
  <2> HIDE DEF Runs
  <2>3. \E h : Runs(h, 0)
    BY <1>2, <2>1, <2>2
  <2>4. QED
    BY <2>2, <2>3
<1>4. ASSUME NEW m \in 1..L, m - 1 \in T PROVE m \in T
  <2>1. PICK g : Runs(g, m - 1)
    BY <1>4
  <2>2. \A n \in 0..m - 1 : g[n] = Once(g, n)
    BY <2>1
  <2> HIDE DEF Runs
  <2>3. \E h : Runs(h, m)
    BY <1>2, <2>2
  <2>4. QED
    BY <2>3
<1>5. L \in T
  <2>1. 0..L \subseteq T
    <3> HIDE DEF T
    <3>1. QED
      BY <1>3, <1>4, UpTo
  <2>2. QED
    BY <2>1
<1>6. PICK g : Runs(g, L)
  BY <1>5
<1>7. SavedBy(schema, v) = CHOOSE h : Runs(h, L)
  BY Zenon DEF SavedBy, Once
<1>8. Runs(SavedBy(schema, v), L)
  <2> HIDE DEF Runs
  <2>1. QED
    BY <1>6, <1>7
<1>9. QED
  BY <1>8, Zenon DEF Once

LEMMA BelowUnfolds ==
  ASSUME NEW schema, NEW v, Levels(schema) \in Nat
  PROVE  BelowBy(schema, v) = [n \in 0..Levels(schema) |-> IF n = 0 THEN {v} ELSE UNION {Parts(w) : w \in BelowBy(schema, v)[n - 1]}]
<1> DEFINE L == Levels(schema)
           Once(g, n) == IF n = 0 THEN {v} ELSE UNION {Parts(w) : w \in g[n - 1]}
           Runs(g, m) == g = [n \in 0..m |-> Once(g, n)]
           T == {m \in 0..L : \E g : Runs(g, m)}
<1>1. \A g, h, n : (n # 0 => g[n - 1] = h[n - 1]) => Once(g, n) = Once(h, n)
  OBVIOUS
<1> HIDE DEF Once
<1>2. ASSUME NEW m \in 0..L, NEW g, \A n \in 0..m - 1 : g[n] = Once(g, n)
      PROVE  \E h : Runs(h, m)
  <2> DEFINE h == [n \in 0..m |-> IF n = m THEN Once(g, m) ELSE g[n]]
  <2>1. ASSUME NEW n \in 0..m PROVE h[n] = Once(h, n)
    <3>1. n # 0 => n - 1 \in 0..m /\ n - 1 # m
      OBVIOUS
    <3>2. n # 0 => h[n - 1] = g[n - 1]
      BY <3>1
    <3>3. Once(h, n) = Once(g, n)
      <4> HIDE DEF h
      <4>1. QED
        BY <1>1, <3>2
    <3>4. CASE n = m
      BY <3>3, <3>4
    <3>5. CASE n # m
      <4>1. n \in 0..m - 1
        BY <3>5
      <4>2. g[n] = Once(g, n)
        BY <1>2, <4>1
      <4>3. h[n] = g[n]
        BY <3>5
      <4>4. QED
        BY <3>3, <4>2, <4>3
    <3>6. QED
      BY <3>4, <3>5
  <2>2. h = [n \in 0..m |-> h[n]]
    OBVIOUS
  <2> HIDE DEF h
  <2>3. h = [n \in 0..m |-> Once(h, n)]
    BY <2>1, <2>2
  <2>4. QED
    BY <2>3
<1>3. 0 \in T
  <2>1. \A n \in 0..0 - 1 : FALSE
    OBVIOUS
  <2>2. 0 \in 0..L
    OBVIOUS
  <2> HIDE DEF Runs
  <2>3. \E h : Runs(h, 0)
    BY <1>2, <2>1, <2>2
  <2>4. QED
    BY <2>2, <2>3
<1>4. ASSUME NEW m \in 1..L, m - 1 \in T PROVE m \in T
  <2>1. PICK g : Runs(g, m - 1)
    BY <1>4
  <2>2. \A n \in 0..m - 1 : g[n] = Once(g, n)
    BY <2>1
  <2> HIDE DEF Runs
  <2>3. \E h : Runs(h, m)
    BY <1>2, <2>2
  <2>4. QED
    BY <2>3
<1>5. L \in T
  <2>1. 0..L \subseteq T
    <3> HIDE DEF T
    <3>1. QED
      BY <1>3, <1>4, UpTo
  <2>2. QED
    BY <2>1
<1>6. PICK g : Runs(g, L)
  BY <1>5
<1>7. BelowBy(schema, v) = CHOOSE h : Runs(h, L)
  BY Zenon DEF BelowBy, Once
<1>8. Runs(BelowBy(schema, v), L)
  <2> HIDE DEF Runs
  <2>1. QED
    BY <1>6, <1>7
<1>9. QED
  BY <1>8, Zenon DEF Once

LoadedRuns(schema, order, files) ==
  LoadedBy(schema, order, files) = [n \in 0..Levels(schema) |-> [x \in (DOMAIN schema) \X Seq(Seq(NameParts(schema, order))) |->
             IF n = 0 THEN Loaded(<< >>) ELSE LoadOne(schema, order, files, x[1], x[2], LoadedBy(schema, order, files)[n - 1])]]

LEMMA LoadedUnfolds ==
  ASSUME NEW schema, NEW order, NEW files, Levels(schema) \in Nat
  PROVE  LoadedRuns(schema, order, files)
<1> DEFINE L == Levels(schema)
           Once(g, n) == [x \in (DOMAIN schema) \X Seq(Seq(NameParts(schema, order))) |->
             IF n = 0 THEN Loaded(<< >>) ELSE LoadOne(schema, order, files, x[1], x[2], g[n - 1])]
           Runs(g, m) == g = [n \in 0..m |-> Once(g, n)]
           T == {m \in 0..L : \E g : Runs(g, m)}
<1>1. \A g, h, n : (n # 0 => g[n - 1] = h[n - 1]) => Once(g, n) = Once(h, n)
  OBVIOUS
<1> HIDE DEF Once
<1>2. ASSUME NEW m \in 0..L, NEW g, \A n \in 0..m - 1 : g[n] = Once(g, n)
      PROVE  \E h : Runs(h, m)
  <2> DEFINE h == [n \in 0..m |-> IF n = m THEN Once(g, m) ELSE g[n]]
  <2>1. ASSUME NEW n \in 0..m PROVE h[n] = Once(h, n)
    <3>1. n # 0 => n - 1 \in 0..m /\ n - 1 # m
      OBVIOUS
    <3>2. n # 0 => h[n - 1] = g[n - 1]
      BY <3>1
    <3>3. Once(h, n) = Once(g, n)
      <4> HIDE DEF h
      <4>1. QED
        BY <1>1, <3>2
    <3>4. CASE n = m
      BY <3>3, <3>4
    <3>5. CASE n # m
      <4>1. n \in 0..m - 1
        BY <3>5
      <4>2. g[n] = Once(g, n)
        BY <1>2, <4>1
      <4>3. h[n] = g[n]
        BY <3>5
      <4>4. QED
        BY <3>3, <4>2, <4>3
    <3>6. QED
      BY <3>4, <3>5
  <2>2. h = [n \in 0..m |-> h[n]]
    OBVIOUS
  <2> HIDE DEF h
  <2>3. h = [n \in 0..m |-> Once(h, n)]
    BY <2>1, <2>2
  <2>4. QED
    BY <2>3
<1>3. 0 \in T
  <2>1. \A n \in 0..0 - 1 : FALSE
    OBVIOUS
  <2>2. 0 \in 0..L
    OBVIOUS
  <2> HIDE DEF Runs
  <2>3. \E h : Runs(h, 0)
    BY <1>2, <2>1, <2>2
  <2>4. QED
    BY <2>2, <2>3
<1>4. ASSUME NEW m \in 1..L, m - 1 \in T PROVE m \in T
  <2>1. PICK g : Runs(g, m - 1)
    BY <1>4
  <2>2. \A n \in 0..m - 1 : g[n] = Once(g, n)
    BY <2>1
  <2> HIDE DEF Runs
  <2>3. \E h : Runs(h, m)
    BY <1>2, <2>2
  <2>4. QED
    BY <2>3
<1>5. L \in T
  <2>1. 0..L \subseteq T
    <3> HIDE DEF T
    <3>1. QED
      BY <1>3, <1>4, UpTo
  <2>2. QED
    BY <2>1
<1>6. PICK g : Runs(g, L)
  BY <1>5
<1>7. LoadedBy(schema, order, files) = CHOOSE h : Runs(h, L)
  BY Zenon DEF LoadedBy, Once
<1>8. Runs(LoadedBy(schema, order, files), L)
  <2> HIDE DEF Runs
  <2>1. QED
    BY <1>6, <1>7
<1>9. QED
  BY <1>8, Zenon DEF Once, LoadedRuns

FileModel(schema, v) == \A w \in ModelsIn(schema, v) : IsModel(schema, w)

\* A model is as many levels deep as its type says, so the models in it are
\* all there are.
LEMMA ModelsClosed ==
  ASSUME NEW schema, NEW rank, Levels(schema) \in Nat, IsRank(schema, rank), NEW v, FileModel(schema, v)
  PROVE  v \in ModelsIn(schema, v) /\ \A w \in ModelsIn(schema, v) : \A k \in DOMAIN w.parts : ToSet(w.parts[k]) \subseteq ModelsIn(schema, v)
<1> DEFINE L == Levels(schema)
           M == ModelsIn(schema, v)
           below == BelowBy(schema, v)
<1>1. below = [n \in 0..L |-> IF n = 0 THEN {v} ELSE UNION {Parts(w) : w \in below[n - 1]}]
  BY BelowUnfolds
<1>2. M = UNION {below[n] : n \in 0..L}
  BY DEF ModelsIn
<1> HIDE DEF below, M
<1>3. below[0] = {v} /\ \A n \in 1..L : below[n] = UNION {Parts(w) : w \in below[n - 1]}
  <2>1. 0 \in 0..L
    OBVIOUS
  <2>2. \A n \in 1..L : n \in 0..L /\ n # 0
    OBVIOUS
  <2>3. below[0] = {v}
    BY <1>1, <2>1
  <2>4. ASSUME NEW n \in 1..L PROVE below[n] = UNION {Parts(w) : w \in below[n - 1]}
    BY <1>1, <2>2
  <2>5. QED
    BY <2>3, <2>4
<1>4. \A n \in 0..L : \A w \in below[n] : w \in M /\ IsModel(schema, w)
  BY <1>2 DEF FileModel, M
<1>5. ASSUME NEW w, IsModel(schema, w), NEW k \in DOMAIN w.parts, NEW x \in ToSet(w.parts[k])
      PROVE  rank[x.type] < rank[w.type] /\ rank[w.type] \in 1..L /\ x \in Parts(w)
  BY <1>5 DEF IsModel, IsRank, Parts
<1> DEFINE T == {n \in 0..L : \A w \in below[n] : rank[w.type] + n <= L}
<1>6. 0 \in T
  <2>1. IsModel(schema, v)
    BY <1>3, <1>4
  <2>2. rank[v.type] \in 1..L
    BY <2>1 DEF IsModel, IsRank
  <2>3. QED
    BY <1>3, <2>2
<1>7. ASSUME NEW n \in 1..L, n - 1 \in T PROVE n \in T
  <2>1. ASSUME NEW x \in below[n] PROVE rank[x.type] + n <= L
    <3>1. PICK w \in below[n - 1] : x \in Parts(w)
      BY <1>3
    <3>2. PICK k \in DOMAIN w.parts : x \in ToSet(w.parts[k])
      BY <3>1 DEF Parts
    <3>3. IsModel(schema, w) /\ IsModel(schema, x)
      BY <1>4, <1>7
    <3>4. rank[x.type] < rank[w.type] /\ rank[w.type] \in 1..L /\ rank[x.type] \in 1..L
      BY <1>5, <3>2, <3>3 DEF IsModel, IsRank
    <3>5. rank[w.type] + (n - 1) <= L
      BY <1>7
    <3>6. QED
      BY <3>4, <3>5
  <2>2. QED
    BY <2>1
<1>8. 0..L \subseteq T
  <2> HIDE DEF T
  <2>1. QED
    BY <1>6, <1>7, UpTo
<1>9. v \in M
  <2>1. 0 \in 0..L
    OBVIOUS
  <2>2. QED
    BY <1>2, <1>3, <2>1
<1>10. ASSUME NEW w \in M, NEW k \in DOMAIN w.parts, NEW x \in ToSet(w.parts[k]) PROVE x \in M
  <2>1. PICK n \in 0..L : w \in below[n]
    BY <1>2
  <2>2. rank[w.type] + n <= L
    BY <1>8, <2>1
  <2>3. rank[w.type] \in 1..L /\ x \in Parts(w)
    BY <1>4, <1>5, <2>1
  <2>4. n + 1 \in 1..L /\ (n + 1) - 1 = n
    BY <2>2, <2>3
  <2>5. x \in below[n + 1]
    BY <1>3, <2>1, <2>3, <2>4
  <2>6. QED
    BY <1>2, <2>4, <2>5
<1>11. QED
  BY <1>9, <1>10 DEF M

LEMMA PlainWritten ==
  ASSUME NEW P, NEW schema, NEW w, IsModel(schema, w), schema[w.type].fields = << >>, Facts(schema, w) # {}, NEW saved
  PROVE  SavedOf(P, schema, w, Writes(schema, w, saved))
<1> DEFINE fields == schema[w.type].fields
           fw == [k \in DOMAIN fields |-> FieldWrites(schema, fields[k], w.parts[k], saved)]
           s  == Writes(schema, w, saved)
           r  == OwnFile(schema, w)
<1>1. s = FlattenSeq(fw) \o SaveFile(<< >>, NoRoot, <<Facts(schema, w)>>)
  BY DEF Writes
<1>2. SaveFile(<< >>, NoRoot, <<Facts(schema, w)>>) = <<r>>
  <2>1. <<Facts(schema, w)>>[1] # {}
    OBVIOUS
  <2>2. QED
    BY <2>1, Zenon DEF SaveFile, OwnFile
<1>3. DOMAIN fields = 1..0
  OBVIOUS
<1> HIDE DEF fields
<1>4. fw = [k \in 1..0 |-> fw[k]]
  BY <1>3
<1> HIDE DEF fw, s
<1>5. FlattenSeq(fw) = << >>
  <2>1. \A k \in 1..0 : FALSE
    OBVIOUS
  <2>2. IsList(FlattenSeq(fw)) /\ \A x : x \in ToSet(FlattenSeq(fw)) <=> \E k \in 1..0 : x \in ToSet(fw[k])
    BY <1>4, <2>1, FlattenLists
  <2>3. ToSet(FlattenSeq(fw)) = {}
    BY <2>1, <2>2
  <2>4. QED
    BY <2>2, <2>3, ListIs
<1>6. r = [path |-> r.path, content |-> r.content] /\ r.path = << >>
  BY DEF OwnFile
<1> HIDE DEF r
<1>7. s = <<r>>
  <2>1. << >> \o <<r>> = <<r>>
    OBVIOUS
  <2>2. QED
    BY <1>1, <1>2, <1>5, <2>1
<1>8. IsList(s) /\ ToSet(s) = {r} /\ s # << >>
  BY <1>7, SingleIs
<1>9. IsRel(P, r.path)
  BY <1>6 DEF IsRel
<1>10. GoodWrites(P, s)
  BY <1>6, <1>8, <1>9 DEF GoodWrites, AreWrites, PathsDiffer
<1>11. QED
  BY <1>8, <1>10 DEF SavedOf, s, r

\* A model without external fields is in a file only if there is something of it.
WholeFile(schema, w) == schema[w.type].fields = << >> => Facts(schema, w) # {}

LEMMA SavedGood ==
  ASSUME NEW P, NEW schema, FileSchema(P, schema), NEW rank, IsRank(schema, rank), NEW order, IsOrder(P, order),
         NEW v, FileModel(schema, v), Savable(schema, order, v)
  PROVE  \A n \in 0..Levels(schema) : \A w \in ModelsIn(schema, v) :
           rank[w.type] <= n /\ WholeFile(schema, w) => SavedOf(P, schema, w, SavedBy(schema, v)[n][w])
<1> DEFINE L == Levels(schema)
           M == ModelsIn(schema, v)
           saved == SavedBy(schema, v)
           Good(n) == \A w \in M : rank[w.type] <= n /\ WholeFile(schema, w) => SavedOf(P, schema, w, saved[n][w])
           T == {n \in 0..L : Good(n)}
<1>1. L \in Nat
  BY DEF FileSchema
<1>2. saved = [n \in 0..L |-> [w \in M |-> IF n = 0 THEN << >> ELSE Writes(schema, w, saved[n - 1])]]
  BY <1>1, SavedUnfolds
<1>3. v \in M /\ \A w \in M : \A k \in DOMAIN w.parts : ToSet(w.parts[k]) \subseteq M
  BY <1>1, ModelsClosed
<1>4. \A w \in M : IsModel(schema, w) /\ FitsFiles(schema, order, w) /\ rank[w.type] \in 1..L /\ w.type \in DOMAIN schema
  BY DEF FileModel, Savable, IsModel, IsRank
<1> HIDE DEF saved, M
<1>5. 0 \in T
  <2>1. \A w \in M : ~(rank[w.type] <= 0)
    BY <1>4
  <2>2. QED
    BY <1>1, <2>1
<1>6. ASSUME NEW n \in 1..L, n - 1 \in T PROVE n \in T
  <2>1. ASSUME NEW w \in M, rank[w.type] <= n, WholeFile(schema, w)
        PROVE  SavedOf(P, schema, w, saved[n][w])
    <3>1. saved[n][w] = Writes(schema, w, saved[n - 1])
      <4>1. n \in 0..L /\ n # 0
        BY <1>1
      <4>2. saved[n] = [u \in M |-> IF n = 0 THEN << >> ELSE Writes(schema, u, saved[n - 1])]
        BY <1>2, <4>1, Zenon
      <4>3. saved[n] = [u \in M |-> Writes(schema, u, saved[n - 1])]
        BY <4>1, <4>2
      <4>4. QED
        BY <4>3, Zenon
    <3>2. IsModel(schema, w) /\ FitsFiles(schema, order, w)
      BY <1>4
    <3>3. CASE schema[w.type].fields = << >>
      <4>1. Facts(schema, w) # {}
        BY <2>1, <3>3 DEF WholeFile
      <4>2. QED
        BY <3>1, <3>2, <3>3, <4>1, PlainWritten
    <3>4. CASE schema[w.type].fields # << >>
      <4>1. ASSUME NEW k \in DOMAIN w.parts, schema[w.type].fields[k].style # "named", NEW x \in ToSet(w.parts[k])
            PROVE  SavedOf(P, schema, x, saved[n - 1][x])
        <5>1. x \in M
          BY <1>3
        <5>2. x.type = schema[w.type].fields[k].of /\ DOMAIN w.parts = DOMAIN schema[w.type].fields
          BY <3>2 DEF IsModel
        <5>3. rank[x.type] < rank[w.type]
          BY <1>4, <5>2 DEF IsRank
        <5>4. rank[x.type] <= n - 1
          BY <1>4, <2>1, <5>1, <5>3
        <5>5. WholeFile(schema, x)
          BY <3>2, <4>1, <5>2 DEF FitsFiles, WholeFile
        <5>6. QED
          BY <1>6, <5>1, <5>4, <5>5
      <4> DEFINE prev == saved[n - 1]
      <4>2. SavedOf(P, schema, w, Writes(schema, w, prev))
        <5>1. \A k \in DOMAIN w.parts : schema[w.type].fields[k].style # "named" =>
                 \A x \in ToSet(w.parts[k]) : SavedOf(P, schema, x, prev[x])
          BY <4>1
        <5> HIDE DEF prev
        <5>2. QED
          BY <3>2, <3>4, <5>1, ModelWritten
      <4>3. QED
        BY <3>1, <4>2
    <3>5. QED
      BY <3>3, <3>4
  <2>2. Good(n)
    BY <2>1
  <2>3. QED
    BY <1>1, <2>2
<1>7. 0..L \subseteq T
  <2> HIDE DEF T
  <2>1. QED
    BY <1>1, <1>5, <1>6, UpTo
<1>8. QED
  BY <1>7 DEF saved, M

-----------------------------------------------------------------------------
(* The files of a field.                                                   *)

LEMMA FileAtAppend ==
  ASSUME NEW P, NEW path \in Seq(Seq(P)), NEW n \in Seq(P), Len(n) = 1
  PROVE  FileAt(Append(path, n)) = Append(path, Append(n, Yaml))
<1> DEFINE q == Append(path, n)
           Q == Seq(P)
<1>1. q \in Seq(Q) /\ q # << >> /\ Len(q) = Len(path) + 1 /\ Len(path) \in Nat /\ q[Len(q)] = n /\ \A i \in 1..Len(path) : q[i] = path[i]
  <2> HIDE DEF Q
  <2>1. path \in Seq(Q) /\ n \in Q
    BY DEF Q
  <2>2. QED
    BY <2>1
<1> HIDE DEF q
<1>2. /\ Last(q) = q[Len(q)] /\ Front(q) \in Seq(Q) /\ Len(Front(q)) = Len(q) - 1
      /\ \A i \in 1..Len(q) - 1 : Front(q)[i] = q[i]
  <2> HIDE DEF Q
  <2>1. QED
    BY <1>1, FrontIs
<1>3. Front(q) = path
  <2>1. Len(Front(q)) = Len(path) /\ \A i \in 1..Len(path) : Front(q)[i] = path[i]
    BY <1>1, <1>2
  <2>2. path \in Seq(Q)
    OBVIOUS
  <2> HIDE DEF Q
  <2>3. QED
    BY <1>2, <2>1, <2>2, SeqEqual
<1>4. FileName(n) = Append(n, Yaml)
  <2>1. ~(Len(n) > 1)
    OBVIOUS
  <2>2. QED
    BY <2>1, Zenon DEF FileName
<1>5. Last(q) = n
  BY <1>1, <1>2
<1>6. QED
  BY <1>3, <1>4, <1>5 DEF FileAt, q

LEMMA AppendedPath ==
  ASSUME NEW P, NEW path \in Seq(Seq(P)), NEW a \in Seq(P)
  PROVE  /\ Append(path, a) \in Seq(Seq(P)) /\ Len(path) \in Nat /\ Len(Append(path, a)) = Len(path) + 1
         /\ Append(path, a)[Len(path) + 1] = a /\ \A i \in 1..Len(path) : Append(path, a)[i] = path[i]
         /\ path \o <<a>> = Append(path, a) /\ \A b \in Seq(P) : path \o Append(<<a>>, b) = Append(Append(path, a), b)
         /\ LiesBelow(Append(path, a), path)
<1> DEFINE Q == Seq(P)
<1>1. path \in Seq(Q) /\ a \in Q
  OBVIOUS
<1>2. /\ Append(path, a) \in Seq(Q) /\ Len(path) \in Nat /\ Len(Append(path, a)) = Len(path) + 1
      /\ Append(path, a)[Len(path) + 1] = a /\ \A i \in 1..Len(path) : Append(path, a)[i] = path[i]
      /\ path \o <<a>> = Append(path, a)
  <2> HIDE DEF Q
  <2>1. QED
    BY <1>1
<1>3. ASSUME NEW b \in Q PROVE path \o Append(<<a>>, b) = Append(Append(path, a), b)
  <2> HIDE DEF Q
  <2>1. QED
    BY <1>1
<1>4. LiesBelow(Append(path, a), path)
  BY <1>2 DEF LiesBelow
<1>5. QED
  BY <1>2, <1>3, <1>4

\* What lies below the path of a field, or in its file, is written for the field.
WrittenFor(P, S, path, q, p) == \E x \in S : x.path # << >> /\ x.path[1] = <<q>> /\ IsFileOf(P, p, path, x.path)

LEMMA FieldFile ==
  ASSUME NEW P, Yaml \in P, NEW files, DOMAIN files \subseteq Seq(Seq(P)), NEW path \in Seq(Seq(P)),
         NEW S, AreWrites(P, S), Holds(files, path, S), NEW q \in P \ {Yaml}, NEW p \in DOMAIN files,
         p = Append(path, <<q, Yaml>>) \/ LiesBelow(p, Append(path, <<q>>))
  PROVE  WrittenFor(P, S, path, q, p)
<1>1. <<q>> \in Seq(P) /\ <<q, Yaml>> \in Seq(P) /\ <<q, Yaml>> = Append(<<q>>, Yaml)
  OBVIOUS
<1>2. CASE p = Append(path, <<q, Yaml>>)
  <2>1. /\ Len(path) \in Nat /\ Len(p) = Len(path) + 1 /\ p[Len(path) + 1] = <<q, Yaml>> /\ LiesBelow(p, path)
    <3> DEFINE a == <<q, Yaml>>
    <3>1. a \in Seq(P) /\ p = Append(path, a)
      BY <1>1, <1>2
    <3> HIDE DEF a
    <3>2. /\ Len(path) \in Nat /\ Len(p) = Len(path) + 1 /\ p[Len(path) + 1] = a /\ LiesBelow(p, path)
      BY <3>1, AppendedPath
    <3>3. QED
      BY <3>2 DEF a
  <2>2. PICK x \in S : x.path # << >> /\ IsFileOf(P, p, path, x.path)
    BY <2>1, FileFound
  <2>3. IsRel(P, x.path)
    BY DEF AreWrites
  <2>4. x.path \in Seq(Seq(P)) /\ Len(x.path) \in Nat /\ Len(p) = Len(path) + Len(x.path)
    BY <2>2, <2>3, FreeNames DEF IsRel, IsFileOf
  <2>5. Len(x.path) = 1
    <3> DEFINE l == Len(path)
               m == Len(x.path)
               r == Len(p)
    <3>1. l \in Nat /\ m \in Nat /\ r = l + m /\ r = l + 1
      BY <2>1, <2>4
    <3> HIDE DEF l, m, r
    <3>2. m = 1
      BY <3>1
    <3>3. QED
      BY <3>2 DEF m
  <2>6. Append(x.path[1], Yaml) = Append(<<q>>, Yaml)
    BY <1>1, <2>1, <2>2, <2>5 DEF IsFileOf
  <2>7. x.path[1] \in Seq(P)
    <3>1. 1 \in 1..Len(x.path)
      BY <2>5
    <3> DEFINE Q == Seq(P)
    <3>2. x.path \in Seq(Q)
      BY <2>4
    <3> HIDE DEF Q
    <3>3. x.path[1] \in Q
      BY <3>1, <3>2, ElementIn
    <3>4. QED
      BY <3>3 DEF Q
  <2>8. x.path[1] = <<q>>
    BY <1>1, <2>6, <2>7, AppendIsInjective
  <2>9. QED
    BY <2>2, <2>8 DEF WrittenFor
<1>3. CASE LiesBelow(p, Append(path, <<q>>))
  <2> DEFINE next == Append(path, <<q>>)
  <2>1. /\ Len(path) \in Nat /\ Len(next) = Len(path) + 1 /\ next[Len(path) + 1] = <<q>>
        /\ \A i \in 1..Len(path) : next[i] = path[i]
    BY <1>1, AppendedPath
  <2> HIDE DEF next
  <2>2. Len(p) \in Nat /\ Len(p) > Len(path) + 1 /\ \A i \in 1..Len(path) + 1 : p[i] = next[i]
    <3>1. LiesBelow(p, next)
      BY <1>3 DEF next
    <3>2. Len(p) \in Nat
      OBVIOUS
    <3>3. QED
      BY <2>1, <3>1, <3>2 DEF LiesBelow
  <2>3. p[Len(path) + 1] = <<q>> /\ \A i \in 1..Len(path) : p[i] = path[i]
    <3>1. Len(path) + 1 \in 1..Len(path) + 1 /\ \A i \in 1..Len(path) : i \in 1..Len(path) + 1
      BY <2>1
    <3>2. QED
      BY <2>1, <2>2, <3>1
  <2>4. LiesBelow(p, path)
    BY <2>1, <2>2, <2>3 DEF LiesBelow
  <2>5. PICK x \in S : x.path # << >> /\ IsFileOf(P, p, path, x.path)
    BY <2>4, FileFound
  <2>6. IsRel(P, x.path)
    BY DEF AreWrites
  <2>7. Len(x.path) \in Nat /\ Len(p) = Len(path) + Len(x.path)
    BY <2>5, <2>6 DEF IsRel, IsFileOf
  <2>8. 1 \in 1..Len(x.path) - 1
    BY <2>1, <2>2, <2>7
  <2>9. p[Len(path) + 1] = x.path[1]
    BY <2>5, <2>8 DEF IsFileOf
  <2>10. QED
    BY <2>3, <2>5, <2>9 DEF WrittenFor
<1>4. QED
  BY <1>2, <1>3

-----------------------------------------------------------------------------
(* Where there is nothing, nothing is loaded.                              *)

Bare(files, path) == path \notin DOMAIN files /\ \A p \in DOMAIN files : ~LiesBelow(p, path)

Nothing(result) == result = Raised \/ result = Loaded(<< >>)

LEMMA BareBelow ==
  ASSUME NEW P, NEW files, DOMAIN files \subseteq Seq(Seq(P)), NEW path \in Seq(Seq(P)), Bare(files, path), NEW a \in Seq(P)
  PROVE  Bare(files, Append(path, a))
<1> DEFINE next == Append(path, a)
<1>1. /\ Len(path) \in Nat /\ Len(next) = Len(path) + 1 /\ LiesBelow(next, path)
      /\ \A i \in 1..Len(path) : next[i] = path[i]
  BY AppendedPath
<1> HIDE DEF next
<1>2. next \notin DOMAIN files
  BY <1>1 DEF Bare
<1>3. ASSUME NEW p \in DOMAIN files, LiesBelow(p, next) PROVE FALSE
  <2>1. Len(p) \in Nat /\ Len(p) > Len(next) /\ \A i \in 1..Len(next) : p[i] = next[i]
    BY <1>3 DEF LiesBelow
  <2>2. \A i \in 1..Len(path) : i \in 1..Len(next)
    BY <1>1
  <2>3. Len(p) > Len(path) /\ \A i \in 1..Len(path) : p[i] = path[i]
    BY <1>1, <2>1, <2>2
  <2>4. QED
    BY <2>3 DEF LiesBelow, Bare
<1>4. QED
  BY <1>2, <1>3 DEF Bare, next

LEMMA FieldPaths ==
  ASSUME NEW P, Yaml \in P, NEW path \in Seq(Seq(P)), NEW q \in P
  PROVE  /\ <<q>> \in Seq(P) /\ <<q, Yaml>> \in Seq(P)
         /\ Append(path, <<q>>) \in Seq(Seq(P)) /\ Append(path, <<q, Yaml>>) \in Seq(Seq(P))
<1>1. <<q>> \in Seq(P) /\ <<q, Yaml>> \in Seq(P)
  OBVIOUS
<1>2. QED
  BY <1>1, AppendedPath

LEMMA FieldMissing ==
  ASSUME NEW P, Yaml \in P, NEW schema, NEW order, NEW files, DOMAIN files \subseteq Seq(Seq(P)),
         NEW path \in Seq(Seq(P)), Bare(files, path), NEW f, IsField(P, schema, f), ~f.optional, NEW loaded,
         f.style = "folder" /\ ~f.list => Nothing(loaded[<<f.of, Append(path, <<f.path>>)>>]),
         f.style = "whole" => Nothing(loaded[<<f.of, Append(path, <<f.path, Yaml>>)>>])
  PROVE  LET r == LoadField(schema, order, files, f, path, loaded)
         IN r = Raised \/ (r = Loaded(<< >>) /\ ~(f.style = "folder" /\ f.list))
<1> DEFINE next == Append(path, <<f.path>>)
           file == Append(path, <<f.path, Yaml>>)
           r    == LoadField(schema, order, files, f, path, loaded)
<1>1. f.path \in P /\ f.style \in {"folder", "named", "whole"} /\ f.list \in BOOLEAN
  BY DEF IsField
<1>2. <<f.path>> \in Seq(P) /\ <<f.path, Yaml>> \in Seq(P) /\ next \in Seq(Seq(P)) /\ file \in Seq(Seq(P))
  BY <1>1, FieldPaths
<1>3. Bare(files, next) /\ Bare(files, file)
  BY <1>2, BareBelow
<1>4. CASE f.style = "folder" /\ f.list
  <2>1. ~IsFolder(files, next)
    BY <1>2, <1>3, FolderIs DEF Bare
  <2>2. r = Raised
    BY <1>4, <2>1, Zenon DEF LoadField
  <2>3. QED
    BY <2>2
<1>5. CASE f.style = "folder" /\ ~f.list
  <2>1. r = loaded[<<f.of, next>>]
    BY <1>5, Zenon DEF LoadField
  <2>2. QED
    BY <1>5, <2>1 DEF Nothing
<1>6. CASE f.style = "named"
  <2>1. FactsIn(files, file, f.name) = << >>
    BY <1>3 DEF Bare, FactsIn
  <2> DEFINE named == FactsIn(files, file, f.name)
  <2>2. r = Loaded([k \in DOMAIN named |-> Built(schema, f.of, file, named[k], << >>)])
    <3>1. f.style # "folder"
      BY <1>6
    <3>2. QED
      BY <1>6, <3>1, Zenon DEF LoadField
  <2>3. [k \in DOMAIN named |-> Built(schema, f.of, file, named[k], << >>)] = << >>
    <3>1. DOMAIN named = {}
      BY <2>1
    <3> HIDE DEF named
    <3>2. QED
      BY <3>1
  <2>4. r = Loaded(<< >>)
    BY <2>2, <2>3
  <2>5. QED
    BY <1>6, <2>4
<1>7. CASE f.style = "whole"
  <2>1. r = loaded[<<f.of, file>>]
    <3>1. f.style # "folder" /\ f.style # "named"
      BY <1>7
    <3>2. QED
      BY <3>1, Zenon DEF LoadField
  <2>2. QED
    BY <1>7, <2>1 DEF Nothing
<1>8. QED
  BY <1>1, <1>4, <1>5, <1>6, <1>7

LEMMA OneMissing ==
  ASSUME NEW schema, NEW order, NEW files, NEW t, NEW path, NEW loaded, NEW k \in DOMAIN schema[t].fields,
         ~schema[t].fields[k].optional,
         LET f == schema[t].fields[k]
             r == LoadField(schema, order, files, f, path, loaded)
         IN r = Raised \/ (r = Loaded(<< >>) /\ ~(f.style = "folder" /\ f.list))
  PROVE  Nothing(LoadOne(schema, order, files, t, path, loaded))
<1> DEFINE fields  == schema[t].fields
           results == [i \in DOMAIN fields |-> LoadField(schema, order, files, fields[i], path, loaded)]
           facts   == UNION ToSet(FactsIn(files, path, NoRoot))
           missing(i) == ~fields[i].optional /\ ~(fields[i].style = "folder" /\ fields[i].list) /\ results[i].values = << >>
           empty   == fields = << >> /\ facts = {} /\ schema[t].implied = "none"
           one == LoadOne(schema, order, files, t, path, loaded)
           full == Loaded(<<Built(schema, t, path, facts, [i \in DOMAIN fields |-> results[i].values])>>)
<1>1. one = CASE \E i \in DOMAIN fields : results[i].raised -> Raised
             [] /\ \A i \in DOMAIN fields : ~results[i].raised
                /\ empty \/ (\E i \in DOMAIN fields : missing(i)) -> Loaded(<< >>)
             [] OTHER -> full
  BY Zenon DEF LoadOne
<1>2. results[k] = Raised \/ (results[k] = Loaded(<< >>) /\ ~(fields[k].style = "folder" /\ fields[k].list))
  OBVIOUS
<1>3. Raised.raised = TRUE /\ Loaded(<< >>).values = << >>
  BY DEF Raised, Loaded
<1>4. results[k].raised \/ missing(k)
  BY <1>2, <1>3
<1> HIDE DEF fields, results, missing, empty, full, one
<1>5. k \in DOMAIN fields
  BY DEF fields
<1>6. CASE \E i \in DOMAIN fields : results[i].raised
  <2>1. one = Raised
    BY <1>1, <1>6, Zenon
  <2>2. QED
    BY <2>1 DEF Nothing, one
<1>7. CASE ~(\E i \in DOMAIN fields : results[i].raised)
  <2>1. \E i \in DOMAIN fields : missing(i)
    BY <1>4, <1>5, <1>7
  <2>2. one = Loaded(<< >>)
    BY <1>1, <1>7, <2>1, Zenon
  <2>3. QED
    BY <2>2 DEF Nothing, one
<1>8. QED
  BY <1>6, <1>7

LEMMA PlainMissing ==
  ASSUME NEW schema, NEW order, NEW files, NEW t, NEW path, path \notin DOMAIN files,
         schema[t].fields = << >>, schema[t].implied = "none", NEW loaded
  PROVE  LoadOne(schema, order, files, t, path, loaded) = Loaded(<< >>)
<1> DEFINE fields  == schema[t].fields
           results == [i \in DOMAIN fields |-> LoadField(schema, order, files, fields[i], path, loaded)]
           facts   == UNION ToSet(FactsIn(files, path, NoRoot))
           missing(i) == ~fields[i].optional /\ ~(fields[i].style = "folder" /\ fields[i].list) /\ results[i].values = << >>
           empty   == fields = << >> /\ facts = {} /\ schema[t].implied = "none"
           one == LoadOne(schema, order, files, t, path, loaded)
           full == Loaded(<<Built(schema, t, path, facts, [i \in DOMAIN fields |-> results[i].values])>>)
<1>1. one = CASE \E i \in DOMAIN fields : results[i].raised -> Raised
             [] /\ \A i \in DOMAIN fields : ~results[i].raised
                /\ empty \/ (\E i \in DOMAIN fields : missing(i)) -> Loaded(<< >>)
             [] OTHER -> full
  BY Zenon DEF LoadOne
<1>2. facts = {}
  BY DEF FactsIn, ToSet
<1>3. empty /\ DOMAIN fields = {}
  BY <1>2
<1> HIDE DEF fields, results, missing, empty, full, one, facts
<1>4. ~(\E i \in DOMAIN fields : results[i].raised)
  BY <1>3
<1>5. one = Loaded(<< >>)
  BY <1>1, <1>3, <1>4, Zenon
<1>6. QED
  BY <1>5 DEF one

LEMMA LoadedAt ==
  ASSUME NEW schema, NEW order, NEW files, Levels(schema) \in Nat, NEW n \in 1..Levels(schema),
         NEW t \in DOMAIN schema, NEW path \in Seq(Seq(NameParts(schema, order)))
  PROVE  LoadedBy(schema, order, files)[n][<<t, path>>]
           = LoadOne(schema, order, files, t, path, LoadedBy(schema, order, files)[n - 1])
<1> DEFINE L == Levels(schema)
           D == (DOMAIN schema) \X Seq(Seq(NameParts(schema, order)))
           loaded == LoadedBy(schema, order, files)
           one(x) == LoadOne(schema, order, files, x[1], x[2], loaded[n - 1])
           y == <<t, path>>
<1>1. loaded = [m \in 0..L |-> [x \in D |->
                  IF m = 0 THEN Loaded(<< >>) ELSE LoadOne(schema, order, files, x[1], x[2], loaded[m - 1])]]
  <2>1. LoadedRuns(schema, order, files)
    BY LoadedUnfolds
  <2>2. QED
    BY <2>1, Zenon DEF LoadedRuns
<1>2. n \in 0..L /\ n # 0
  OBVIOUS
<1>3. y \in D /\ y[1] = t /\ y[2] = path
  OBVIOUS
<1> HIDE DEF loaded, D, y
<1>4. loaded[n] = [x \in D |-> IF n = 0 THEN Loaded(<< >>) ELSE one(x)]
  BY <1>1, <1>2, Zenon
<1> HIDE DEF one
<1>5. loaded[n] = [x \in D |-> one(x)]
  BY <1>2, <1>4
<1>6. loaded[n][y] = one(y)
  BY <1>3, <1>5, Zenon
<1>7. one(y) = LoadOne(schema, order, files, t, path, loaded[n - 1])
  BY <1>3, Zenon DEF one
<1>8. QED
  BY <1>6, <1>7 DEF loaded, y

LEMMA NothingThere ==
  ASSUME NEW schema, NEW order, NEW P, P = NameParts(schema, order), FileSchema(P, schema), NEW rank, IsRank(schema, rank),
         NEW files, DOMAIN files \subseteq Seq(Seq(P))
  PROVE  \A n \in 0..Levels(schema) : \A t \in DOMAIN schema : \A path \in Seq(Seq(P)) :
           /\ rank[t] <= n /\ path \notin DOMAIN files
           /\ IF schema[t].fields = << >> THEN schema[t].implied = "none" ELSE Bare(files, path)
           => Nothing(LoadedBy(schema, order, files)[n][<<t, path>>])
<1> DEFINE L == Levels(schema)
           loaded == LoadedBy(schema, order, files)
           Missing(t, path) == /\ path \notin DOMAIN files
                               /\ IF schema[t].fields = << >> THEN schema[t].implied = "none" ELSE Bare(files, path)
           Good(n) == \A t \in DOMAIN schema : \A path \in Seq(Seq(P)) :
                        rank[t] <= n /\ Missing(t, path) => Nothing(loaded[n][<<t, path>>])
           T == {n \in 0..L : Good(n)}
<1>1. L \in Nat /\ Yaml \in P
  BY DEF FileSchema, NameParts
<1>2. \A t \in DOMAIN schema : rank[t] \in 1..L
  BY DEF IsRank
<1> HIDE DEF Missing
<1>3. ASSUME NEW n \in 1..L, NEW t \in DOMAIN schema, NEW path \in Seq(Seq(P))
      PROVE  loaded[n][<<t, path>>] = LoadOne(schema, order, files, t, path, loaded[n - 1])
  BY <1>1, LoadedAt
<1> HIDE DEF loaded
<1>4. 0 \in T
  <2>1. \A t \in DOMAIN schema : ~(rank[t] <= 0)
    BY <1>2
  <2>2. QED
    BY <1>1, <2>1
<1>5. ASSUME NEW n \in 1..L, n - 1 \in T PROVE n \in T
  <2>1. ASSUME NEW t \in DOMAIN schema, NEW path \in Seq(Seq(P)), rank[t] <= n, Missing(t, path)
        PROVE  Nothing(LoadOne(schema, order, files, t, path, loaded[n - 1]))
    <3> DEFINE prev == loaded[n - 1]
    <3>1. Good(n - 1)
      BY <1>5
    <3>2. CASE schema[t].fields = << >>
      <4>1. LoadOne(schema, order, files, t, path, prev) = Loaded(<< >>)
        <5> HIDE DEF prev
        <5>1. QED
          BY <2>1, <3>2, PlainMissing DEF Missing
      <4>2. QED
        BY <4>1 DEF Nothing
    <3>3. CASE schema[t].fields # << >>
      <4>1. PICK k \in DOMAIN schema[t].fields : ~schema[t].fields[k].optional
        BY <3>3 DEF FileSchema
      <4> DEFINE f == schema[t].fields[k]
      <4>2. IsField(P, schema, f)
        BY <4>1 DEF FileSchema
      <4>3. Bare(files, path)
        BY <2>1, <3>3 DEF Missing
      <4>4. f.of \in DOMAIN schema /\ f.path \in P
        BY <4>2 DEF IsField
      <4>5. rank[f.of] <= n - 1
        BY <1>2, <2>1, <4>1, <4>4 DEF IsRank
      <4>6. /\ <<f.path>> \in Seq(P) /\ <<f.path, Yaml>> \in Seq(P)
            /\ Append(path, <<f.path>>) \in Seq(Seq(P)) /\ Append(path, <<f.path, Yaml>>) \in Seq(Seq(P))
        BY <1>1, <4>4, FieldPaths
      <4>7. Bare(files, Append(path, <<f.path>>)) /\ Bare(files, Append(path, <<f.path, Yaml>>))
        BY <4>3, <4>6, BareBelow
      <4>8. f.style = "folder" /\ ~f.list => Nothing(prev[<<f.of, Append(path, <<f.path>>)>>])
        <5>1. HAVE f.style = "folder" /\ ~f.list
        <5>2. schema[f.of].fields # << >>
          BY <4>2, <5>1 DEF IsField
        <5>3. Missing(f.of, Append(path, <<f.path>>))
          BY <4>7, <5>2 DEF Missing, Bare
        <5>4. QED
          BY <3>1, <4>4, <4>5, <4>6, <5>3
      <4>9. f.style = "whole" => Nothing(prev[<<f.of, Append(path, <<f.path, Yaml>>)>>])
        <5>1. HAVE f.style = "whole"
        <5>2. schema[f.of].fields = << >> /\ schema[f.of].implied = "none"
          BY <4>2, <5>1 DEF IsField
        <5>3. Missing(f.of, Append(path, <<f.path, Yaml>>))
          BY <4>7, <5>2 DEF Missing, Bare
        <5>4. QED
          BY <3>1, <4>4, <4>5, <4>6, <5>3
      <4>10. LET r == LoadField(schema, order, files, f, path, prev)
             IN r = Raised \/ (r = Loaded(<< >>) /\ ~(f.style = "folder" /\ f.list))
        <5> HIDE DEF f, prev
        <5>1. ~f.optional
          BY <4>1 DEF f
        <5>2. QED
          BY <1>1, <4>2, <4>3, <4>8, <4>9, <5>1, FieldMissing
      <4> HIDE DEF prev
      <4>11. QED
        BY <4>1, <4>10, OneMissing DEF prev
    <3>4. QED
      BY <3>2, <3>3
  <2>2. Good(n)
    BY <1>3, <2>1
  <2>3. QED
    BY <1>1, <2>2
<1>6. 0..L \subseteq T
  <2> HIDE DEF T
  <2>1. QED
    BY <1>1, <1>4, <1>5, UpTo
<1>7. \A n \in 0..L : Good(n)
  BY <1>6
<1>8. QED
  BY <1>7 DEF Missing, loaded

-----------------------------------------------------------------------------
(* A model without external fields is read.                                *)

LEMMA FactsRead ==
  ASSUME NEW schema, NEW w, IsModel(schema, w)
  PROVE  /\ {f \in Facts(schema, w) : f[1] # "name"} = w.own
         /\ schema[w.type].implied = "none" => \A path : NameAt(schema[w.type], path, Facts(schema, w)) = w.name
<1> DEFINE facts == Facts(schema, w)
           named == schema[w.type].implied = "none" /\ w.name # << >>
           fact  == <<"name", w.name>>
           own   == {f[2] : f \in {f \in facts : f[1] = "name"}}
<1>1. facts = w.own \cup (IF named THEN {fact} ELSE {})
  BY DEF Facts, NameFact
<1>2. fact[1] = "name" /\ fact[2] = w.name
  OBVIOUS
<1>3. \A x \in w.own : x[1] # "name"
  BY DEF IsModel
<1> HIDE DEF facts, fact
<1>4. {f \in facts : f[1] # "name"} = w.own
  BY <1>1, <1>2, <1>3
<1>5. ASSUME schema[w.type].implied = "none", NEW path PROVE NameAt(schema[w.type], path, facts) = w.name
  <2>1. NameAt(schema[w.type], path, facts) = IF own = {} THEN << >> ELSE CHOOSE n \in own : TRUE
    <3>1. schema[w.type].implied # "folder" /\ schema[w.type].implied # "file"
      BY <1>5
    <3>2. QED
      BY <3>1, Zenon DEF NameAt
  <2>2. CASE w.name = << >>
    <3>1. {f \in facts : f[1] = "name"} = {}
      BY <1>1, <1>3, <2>2
    <3>2. own = {}
      BY <3>1
    <3> HIDE DEF own
    <3>3. QED
      BY <2>1, <2>2, <3>2
  <2>3. CASE w.name # << >>
    <3>1. {f \in facts : f[1] = "name"} = {fact}
      BY <1>1, <1>2, <1>3, <1>5, <2>3
    <3>2. own = {w.name}
      BY <1>2, <3>1
    <3> HIDE DEF own
    <3>3. QED
      BY <2>1, <3>2
  <2>4. QED
    BY <2>2, <2>3
<1>6. QED
  BY <1>4, <1>5 DEF facts

LEMMA BuiltPlain ==
  ASSUME NEW schema, NEW w, IsModel(schema, w), schema[w.type].fields = << >>, NEW path,
         \/ schema[w.type].implied = "none"
         \/ schema[w.type].implied = "file" /\ Front(Last(path)) = w.name
  PROVE  Built(schema, w.type, path, Facts(schema, w), << >>) = w /\ w.parts = << >>
<1>1. w = Model(w.type, w.name, w.own, w.parts) /\ w.parts = [k \in DOMAIN schema[w.type].fields |-> w.parts[k]]
  BY DEF IsModel
<1>2. w.parts = << >>
  <2>1. DOMAIN schema[w.type].fields = {}
    OBVIOUS
  <2> DEFINE D == DOMAIN schema[w.type].fields
  <2>2. w.parts = [k \in D |-> w.parts[k]] /\ D = {}
    BY <1>1, <2>1
  <2> HIDE DEF D
  <2>3. QED
    BY <2>2
<1>3. NameAt(schema[w.type], path, Facts(schema, w)) = w.name
  <2>1. CASE schema[w.type].implied = "none"
    BY <2>1, FactsRead
  <2>2. CASE schema[w.type].implied = "file" /\ Front(Last(path)) = w.name
    <3>1. schema[w.type].implied # "folder"
      BY <2>2
    <3>2. QED
      BY <2>2, <3>1, Zenon DEF NameAt
  <2>3. QED
    BY <2>1, <2>2
<1>4. {f \in Facts(schema, w) : f[1] # "name"} = w.own
  BY FactsRead
<1>5. Built(schema, w.type, path, Facts(schema, w), << >>) = Model(w.type, w.name, w.own, w.parts)
  BY <1>2, <1>3, <1>4, Zenon DEF Built
<1>6. QED
  BY <1>1, <1>2, <1>5

\* The file of a model is read.
LEMMA PlainRead ==
  ASSUME NEW schema, NEW w, IsModel(schema, w), schema[w.type].fields = << >>, WholeFile(schema, w),
         NEW order, NEW files, NEW file \in DOMAIN files, files[file] = OwnFile(schema, w).content,
         \/ schema[w.type].implied = "none"
         \/ schema[w.type].implied = "file" /\ Front(Last(file)) = w.name,
         NEW loaded
  PROVE  LoadOne(schema, order, files, w.type, file, loaded) = Loaded(<<w>>)
<1> DEFINE t == w.type
           fields  == schema[t].fields
           results == [i \in DOMAIN fields |-> LoadField(schema, order, files, fields[i], file, loaded)]
           facts   == UNION ToSet(FactsIn(files, file, NoRoot))
           missing(i) == ~fields[i].optional /\ ~(fields[i].style = "folder" /\ fields[i].list) /\ results[i].values = << >>
           empty   == fields = << >> /\ facts = {} /\ schema[t].implied = "none"
           one == LoadOne(schema, order, files, t, file, loaded)
           parts == [i \in DOMAIN fields |-> results[i].values]
           full == Loaded(<<Built(schema, t, file, facts, parts)>>)
<1>1. one = CASE \E i \in DOMAIN fields : results[i].raised -> Raised
             [] /\ \A i \in DOMAIN fields : ~results[i].raised
                /\ empty \/ (\E i \in DOMAIN fields : missing(i)) -> Loaded(<< >>)
             [] OTHER -> full
  BY Zenon DEF LoadOne
<1>2. facts = Facts(schema, w)
  <2>1. files[file].root = NoRoot /\ files[file].items = <<Facts(schema, w)>>
    BY DEF OwnFile
  <2>2. FactsIn(files, file, NoRoot) = <<Facts(schema, w)>>
    BY <2>1, Zenon DEF FactsIn
  <2>3. ToSet(<<Facts(schema, w)>>) = {Facts(schema, w)}
    BY SingleIs
  <2>4. QED
    BY <2>2, <2>3
<1>3. ~empty /\ DOMAIN fields = {}
  BY <1>2 DEF WholeFile
<1>4. parts = << >>
  <2>1. DOMAIN fields = {}
    BY <1>3
  <2> HIDE DEF fields, results
  <2>2. QED
    BY <2>1
<1>5. full = Loaded(<<w>>)
  <2>1. Built(schema, w.type, file, Facts(schema, w), << >>) = w
    BY BuiltPlain
  <2> HIDE DEF facts, parts
  <2>2. QED
    BY <1>2, <1>4, <2>1
<1> HIDE DEF fields, results, missing, empty, full, one, facts, parts
<1>6. ~(\E i \in DOMAIN fields : results[i].raised) /\ ~(\E i \in DOMAIN fields : missing(i))
  BY <1>3
<1>7. one = full
  BY <1>1, <1>3, <1>6, Zenon
<1>8. QED
  BY <1>5, <1>7 DEF one

\* A model with external fields is read once they are.
LEMMA FolderRead ==
  ASSUME NEW schema, NEW order, NEW w, IsModel(schema, w), FitsFiles(schema, order, w), NEW i0 \in DOMAIN schema[w.type].fields,
         NEW files, NEW path, path \notin DOMAIN files, NEW loaded,
         \A k \in DOMAIN schema[w.type].fields :
           LoadField(schema, order, files, schema[w.type].fields[k], path, loaded) = Loaded(w.parts[k]),
         \/ schema[w.type].implied = "none"
         \/ schema[w.type].implied = "folder" /\ Last(path) = w.name
  PROVE  LoadOne(schema, order, files, w.type, path, loaded) = Loaded(<<w>>)
<1> DEFINE t == w.type
           fields  == schema[t].fields
           results == [i \in DOMAIN fields |-> LoadField(schema, order, files, fields[i], path, loaded)]
           facts   == UNION ToSet(FactsIn(files, path, NoRoot))
           missing(i) == ~fields[i].optional /\ ~(fields[i].style = "folder" /\ fields[i].list) /\ results[i].values = << >>
           empty   == fields = << >> /\ facts = {} /\ schema[t].implied = "none"
           one == LoadOne(schema, order, files, t, path, loaded)
           parts == [i \in DOMAIN fields |-> results[i].values]
           full == Loaded(<<Built(schema, t, path, facts, parts)>>)
<1>1. one = CASE \E i \in DOMAIN fields : results[i].raised -> Raised
             [] /\ \A i \in DOMAIN fields : ~results[i].raised
                /\ empty \/ (\E i \in DOMAIN fields : missing(i)) -> Loaded(<< >>)
             [] OTHER -> full
  BY Zenon DEF LoadOne
<1>2. facts = {}
  BY DEF FactsIn, ToSet
<1>3. w = Model(w.type, w.name, w.own, w.parts) /\ w.parts = [k \in DOMAIN fields |-> w.parts[k]]
  BY DEF IsModel
<1>4. Facts(schema, w) = {}
  <2>1. i0 \in DOMAIN w.parts
    BY <1>3
  <2>2. w.parts # << >>
    BY <2>1
  <2>3. QED
    BY <2>2 DEF FitsFiles
<1>5. \A i \in DOMAIN fields : results[i] = Loaded(w.parts[i])
  OBVIOUS
<1>6. \A x : Loaded(x).raised = FALSE /\ Loaded(x).values = x
  BY DEF Loaded
<1>7. \A i \in DOMAIN fields : ~results[i].raised /\ results[i].values = w.parts[i]
  <2>1. TAKE i \in DOMAIN fields
  <2>2. results[i] = Loaded(w.parts[i])
    BY <1>5
  <2> HIDE DEF results, fields
  <2>3. QED
    BY <1>6, <2>2
<1>8. \A i \in DOMAIN fields : ~missing(i)
  <2>1. TAKE i \in DOMAIN fields
  <2>2. SUFFICES ASSUME ~fields[i].optional, results[i].values = << >> PROVE FALSE
    OBVIOUS
  <2>3. w.parts[i] = << >>
    BY <1>7, <2>2
  <2>4. i \in DOMAIN w.parts
    BY <1>3
  <2>5. QED
    BY <2>2, <2>3, <2>4 DEF FitsFiles
<1>9. parts = w.parts
  <2>1. parts = [i \in DOMAIN fields |-> w.parts[i]]
    <3> HIDE DEF results, fields
    <3>1. QED
      BY <1>7
  <2> HIDE DEF parts, fields
  <2>2. QED
    BY <1>3, <2>1
<1>10. ~empty
  <2>1. DOMAIN fields # {}
    OBVIOUS
  <2> DEFINE g == fields
  <2> HIDE DEF g
  <2>2. g = << >> => DOMAIN g = {}
    OBVIOUS
  <2>3. QED
    BY <2>1, <2>2 DEF g
<1>11. Built(schema, t, path, {}, w.parts) = w
  <2>1. NameAt(schema[t], path, {}) = w.name
    <3>1. CASE schema[t].implied = "none"
      <4>1. NameAt(schema[t], path, Facts(schema, w)) = w.name
        BY <3>1, FactsRead
      <4>2. QED
        BY <1>4, <4>1
    <3>2. CASE schema[t].implied = "folder" /\ Last(path) = w.name
      BY <3>2, Zenon DEF NameAt
    <3>3. QED
      BY <3>1, <3>2
  <2>2. {f \in {} : f[1] # "name"} = w.own
    <3>1. {f \in Facts(schema, w) : f[1] # "name"} = w.own
      BY FactsRead
    <3>2. QED
      BY <1>4, <3>1
  <2>3. Built(schema, t, path, {}, w.parts) = Model(w.type, w.name, w.own, w.parts)
    BY <2>1, <2>2, Zenon DEF Built
  <2>4. QED
    BY <1>3, <2>3
<1>12. full = Loaded(<<w>>)
  <2> HIDE DEF facts, parts
  <2>1. QED
    BY <1>2, <1>9, <1>11
<1> HIDE DEF fields, results, missing, empty, full, one, facts, parts
<1>13. ~(\E i \in DOMAIN fields : results[i].raised) /\ ~(\E i \in DOMAIN fields : missing(i))
  BY <1>7, <1>8
<1>14. one = full
  BY <1>1, <1>10, <1>13, Zenon
<1>15. QED
  BY <1>12, <1>14 DEF one

-----------------------------------------------------------------------------
(* The entries of a folder.                                                *)

LEMMA FlattenSingles ==
  ASSUME NEW v, IsList(v)
  PROVE  FlattenSeq([k \in DOMAIN v |-> <<v[k]>>]) = v
<1> DEFINE n == Len(v)
           S == ToSet(v)
           s == [k \in DOMAIN v |-> <<v[k]>>]
<1>1. v \in Seq(S) /\ n \in Nat /\ DOMAIN v = 1..n
  BY ListIs DEF IsList
<1> HIDE DEF S
<1>2. s = [k \in 1..n |-> s[k]] /\ \A k \in 1..n : s[k] = <<v[k]>> /\ v[k] \in S
  BY <1>1
<1>3. \A k \in 1..n : s[k] \in Seq(S)
  <2>1. \A x \in S : <<x>> \in Seq(S)
    OBVIOUS
  <2> HIDE DEF s
  <2>2. QED
    BY <1>2, <2>1
<1> HIDE DEF s
<1>4. s \in Seq(Seq(S)) /\ Len(s) = n
  <2> DEFINE Q == Seq(S)
  <2>1. \A k \in 1..n : s[k] \in Q
    BY <1>3
  <2> HIDE DEF Q, n
  <2>2. s \in Seq(Q) /\ Len(s) = n
    BY <1>1, <1>2, <2>1, FunctionIsSeq
  <2>3. QED
    BY <2>2 DEF Q
<1>5. PICK f \in [0..n -> Seq(S)] :
        f[0] = << >> /\ (\A k \in 1..n : f[k] = f[k - 1] \o s[k]) /\ FlattenSeq(s) = f[n]
  <2>1. \E f \in [0..Len(s) -> Seq(S)] :
          f[0] = << >> /\ (\A k \in 1..Len(s) : f[k] = f[k - 1] \o s[k]) /\ FlattenSeq(s) = f[Len(s)]
    BY <1>4, FlattenUnfolds
  <2> HIDE DEF n
  <2>2. QED
    BY <1>4, <2>1
<1> DEFINE T == {k \in 0..n : Len(f[k]) = k /\ \A i \in 1..k : f[k][i] = v[i]}
<1>6. 0 \in T
  BY <1>1, <1>5
<1>7. ASSUME NEW k \in 1..n, k - 1 \in T PROVE k \in T
  <2> DEFINE a == f[k - 1]
  <2>1. a \in Seq(S) /\ Len(a) = k - 1 /\ \A i \in 1..k - 1 : a[i] = v[i]
    <3>1. k - 1 \in 0..n
      BY <1>1
    <3>2. QED
      BY <1>5, <1>7, <3>1
  <2>2. f[k] = a \o <<v[k]>> /\ v[k] \in S
    BY <1>2, <1>5
  <2> HIDE DEF a
  <2>3. Len(f[k]) = k /\ f[k][k] = v[k] /\ \A i \in 1..k - 1 : f[k][i] = a[i]
    BY <2>1, <2>2
  <2>4. \A i \in 1..k : f[k][i] = v[i]
    <3>1. \A i \in 1..k : i = k \/ i \in 1..k - 1
      OBVIOUS
    <3>2. QED
      BY <2>1, <2>3, <3>1
  <2>5. k \in 0..n
    BY <1>1
  <2>6. QED
    BY <2>3, <2>4, <2>5
<1>8. n \in T
  <2>1. 0..n \subseteq T
    <3> HIDE DEF T, n
    <3>1. QED
      BY <1>1, <1>6, <1>7, UpTo
  <2>2. QED
    BY <1>1, <2>1
<1>9. f[n] = v
  <2>1. f[n] \in Seq(S) /\ Len(f[n]) = Len(v) /\ \A i \in 1..Len(v) : f[n][i] = v[i]
    BY <1>1, <1>5, <1>8
  <2> HIDE DEF n
  <2>2. QED
    BY <1>1, <2>1, SeqEqual
<1>10. QED
  BY <1>5, <1>9 DEF s

\* A choice from a list, and what it is mapped to.
Picked(order, N, g) == [k \in DOMAIN order |-> IF order[k] \in N THEN <<g[order[k]]>> ELSE << >>]

PicksRun(order, N, G, g) ==
  \E f \in [0..Len(order) -> Seq(G)] :
    /\ f[0] = << >> /\ FlattenSeq(Picked(order, N, g)) = f[Len(order)]
    /\ \A k \in 1..Len(order) : f[k] = IF order[k] \in N THEN Append(f[k - 1], g[order[k]]) ELSE f[k - 1]

LEMMA PickedUnfolds ==
  ASSUME NEW F, NEW order \in Seq(F), NEW N, NEW G, NEW g \in [F -> G]
  PROVE  PicksRun(order, N, G, g)
<1> DEFINE n == Len(order)
           s == Picked(order, N, g)
<1>1. n \in Nat /\ DOMAIN order = 1..n /\ \A k \in 1..n : order[k] \in F
  OBVIOUS
<1>2. s = [k \in 1..n |-> s[k]] /\ \A k \in 1..n : s[k] = IF order[k] \in N THEN <<g[order[k]]>> ELSE << >>
  BY <1>1 DEF Picked
<1>3. \A k \in 1..n : g[order[k]] \in G
  BY <1>1
<1> HIDE DEF s, n
<1>4. \A k \in 1..n : s[k] \in Seq(G)
  <2>1. (\A x \in G : <<x>> \in Seq(G)) /\ << >> \in Seq(G)
    OBVIOUS
  <2>2. QED
    BY <1>2, <1>3, <2>1
<1>5. s \in Seq(Seq(G)) /\ Len(s) = n
  <2> DEFINE Q == Seq(G)
  <2>1. \A k \in 1..n : s[k] \in Q
    BY <1>4
  <2> HIDE DEF Q
  <2>2. s \in Seq(Q) /\ Len(s) = n
    BY <1>1, <1>2, <2>1, FunctionIsSeq
  <2>3. QED
    BY <2>2 DEF Q
<1>6. PICK f \in [0..n -> Seq(G)] :
        f[0] = << >> /\ (\A k \in 1..n : f[k] = f[k - 1] \o s[k]) /\ FlattenSeq(s) = f[n]
  <2>1. \E f \in [0..Len(s) -> Seq(G)] :
          f[0] = << >> /\ (\A k \in 1..Len(s) : f[k] = f[k - 1] \o s[k]) /\ FlattenSeq(s) = f[Len(s)]
    BY <1>5, FlattenUnfolds
  <2>2. QED
    BY <1>5, <2>1
<1>7. ASSUME NEW k \in 1..n PROVE f[k] = IF order[k] \in N THEN Append(f[k - 1], g[order[k]]) ELSE f[k - 1]
  <2> DEFINE a == f[k - 1]
             x == g[order[k]]
  <2>1. a \in Seq(G) /\ x \in G
    <3>1. k - 1 \in 0..n
      BY <1>1
    <3>2. QED
      BY <1>3, <1>6, <3>1
  <2>2. f[k] = a \o (IF order[k] \in N THEN <<x>> ELSE << >>)
    BY <1>2, <1>6
  <2> HIDE DEF a, x
  <2>3. a \o <<x>> = Append(a, x) /\ a \o << >> = a
    BY <2>1
  <2>4. f[k] = IF order[k] \in N THEN Append(a, x) ELSE a
    BY <2>2, <2>3
  <2>5. QED
    BY <2>4 DEF a, x
<1>8. QED
  BY <1>6, <1>7 DEF n, s, PicksRun

MapsTo(G, g, names, values) == values \in Seq(G) /\ Len(values) = Len(names) /\ \A i \in 1..Len(names) : values[i] = g[names[i]]

LEMMA FlattenMapped ==
  ASSUME NEW F, NEW order \in Seq(F), NEW N, NEW same \in [F -> F], \A x \in F : same[x] = x,
         NEW names, names = FlattenSeq(Picked(order, N, same)), NEW G, NEW g \in [F -> G]
  PROVE  MapsTo(G, g, names, FlattenSeq(Picked(order, N, g)))
<1> DEFINE n == Len(order)
<1>1. n \in Nat /\ \A k \in 1..n : order[k] \in F
  OBVIOUS
<1>2. PICK f \in [0..n -> Seq(F)] :
        /\ f[0] = << >> /\ names = f[n]
        /\ \A k \in 1..n : f[k] = IF order[k] \in N THEN Append(f[k - 1], order[k]) ELSE f[k - 1]
  <2>1. PICK f \in [0..n -> Seq(F)] :
           /\ f[0] = << >> /\ FlattenSeq(Picked(order, N, same)) = f[n]
           /\ \A k \in 1..n : f[k] = IF order[k] \in N THEN Append(f[k - 1], same[order[k]]) ELSE f[k - 1]
    <3>1. PicksRun(order, N, F, same)
      BY PickedUnfolds
    <3>2. QED
      BY <3>1 DEF PicksRun
  <2>2. QED
    BY <1>1, <2>1
<1>3. PICK h \in [0..n -> Seq(G)] :
        /\ h[0] = << >> /\ FlattenSeq(Picked(order, N, g)) = h[n]
        /\ \A k \in 1..n : h[k] = IF order[k] \in N THEN Append(h[k - 1], g[order[k]]) ELSE h[k - 1]
  <2>1. PICK h \in [0..n -> Seq(G)] :
           /\ h[0] = << >> /\ FlattenSeq(Picked(order, N, g)) = h[n]
           /\ \A k \in 1..n : h[k] = IF order[k] \in N THEN Append(h[k - 1], g[order[k]]) ELSE h[k - 1]
    <3>1. PicksRun(order, N, G, g)
      BY PickedUnfolds
    <3>2. QED
      BY <3>1 DEF PicksRun
  <2> HIDE DEF n
  <2>2. QED
    BY <1>1, <2>1
<1> HIDE DEF n
<1> DEFINE T == {k \in 0..n : Len(h[k]) = Len(f[k]) /\ \A i \in 1..Len(f[k]) : h[k][i] = g[f[k][i]]}
<1>4. 0 \in T
  BY <1>1, <1>2, <1>3
<1>5. ASSUME NEW k \in 1..n, k - 1 \in T PROVE k \in T
  <2> DEFINE a == f[k - 1]
             b == h[k - 1]
             x == order[k]
  <2>1. a \in Seq(F) /\ b \in Seq(G) /\ x \in F /\ g[x] \in G
    <3>1. k - 1 \in 0..n
      BY <1>1
    <3>2. QED
      BY <1>1, <1>2, <1>3, <3>1
  <2>2. Len(b) = Len(a) /\ \A i \in 1..Len(a) : b[i] = g[a[i]]
    BY <1>5
  <2>3. /\ f[k] = IF x \in N THEN Append(a, x) ELSE a
        /\ h[k] = IF x \in N THEN Append(b, g[x]) ELSE b
    BY <1>2, <1>3
  <2>4. k \in 0..n
    BY <1>1
  <2> HIDE DEF a, b, x
  <2>5. CASE x \in N
    <3> DEFINE y == g[x]
    <3>1. f[k] = Append(a, x) /\ h[k] = Append(b, y)
      BY <2>3, <2>5
    <3>2. y \in G
      BY <2>1
    <3> HIDE DEF y
    <3>3. /\ Len(f[k]) = Len(a) + 1 /\ Len(h[k]) = Len(a) + 1 /\ Len(a) \in Nat
          /\ f[k][Len(a) + 1] = x /\ h[k][Len(a) + 1] = y
          /\ \A i \in 1..Len(a) : f[k][i] = a[i] /\ h[k][i] = b[i]
      BY <2>1, <2>2, <3>1, <3>2
    <3>4. ASSUME NEW i \in 1..Len(f[k]) PROVE h[k][i] = g[f[k][i]]
      <4>1. i = Len(a) + 1 \/ i \in 1..Len(a)
        BY <3>3
      <4>2. CASE i = Len(a) + 1
        BY <3>3, <4>2 DEF y
      <4>3. CASE i \in 1..Len(a)
        BY <2>2, <3>3, <4>3
      <4>4. QED
        BY <4>1, <4>2, <4>3
    <3>5. QED
      BY <2>4, <3>3, <3>4
  <2>6. CASE x \notin N
    BY <2>2, <2>3, <2>4, <2>6
  <2>7. QED
    BY <2>5, <2>6
<1>6. n \in T
  <2>1. 0..n \subseteq T
    <3> HIDE DEF T
    <3>1. QED
      BY <1>1, <1>4, <1>5, UpTo
  <2>2. QED
    BY <1>1, <2>1
<1>7. h[n] \in Seq(G)
  <2>1. n \in 0..n
    BY <1>1
  <2>2. QED
    BY <1>3, <2>1
<1>8. QED
  BY <1>2, <1>3, <1>6, <1>7 DEF MapsTo

\* The names in a folder of folders.
LEMMA FolderEntries ==
  ASSUME NEW P, NEW order, IsOrder(P, order), NEW names, Ordered(order, names), NEW files, NEW path,
         \A n \in ToSet(order) : /\ IsFolder(files, Append(path, n)) <=> n \in ToSet(names)
                                 /\ ~(Len(n) = 1 /\ Append(path, Append(n, Yaml)) \in DOMAIN files)
  PROVE  Entries(files, path, order) = names
<1> DEFINE folder(n) == IF IsFolder(files, Append(path, n)) THEN <<n>> ELSE << >>
           file(n)   == IF Len(n) = 1 /\ Append(path, Append(n, Yaml)) \in DOMAIN files THEN <<Append(n, Yaml)>> ELSE << >>
           s == [k \in DOMAIN order |-> folder(order[k]) \o file(order[k])]
           t == [k \in DOMAIN order |-> IF order[k] \in ToSet(names) THEN <<order[k]>> ELSE << >>]
<1>1. Entries(files, path, order) = FlattenSeq(s)
  BY Zenon DEF Entries
<1>2. names = FlattenSeq(t)
  BY DEF Ordered
<1>3. ASSUME NEW k \in DOMAIN order PROVE folder(order[k]) \o file(order[k]) = IF order[k] \in ToSet(names) THEN <<order[k]>> ELSE << >>
  <2>1. order[k] \in ToSet(order)
    BY DEF ToSet
  <2> DEFINE n == order[k]
  <2>2. file(n) = << >>
    BY <2>1
  <2>3. folder(n) = IF n \in ToSet(names) THEN <<n>> ELSE << >>
    BY <2>1
  <2> HIDE DEF n
  <2>4. <<n>> \o << >> = <<n>> /\ << >> \o << >> = << >>
    OBVIOUS
  <2> HIDE DEF folder, file
  <2>5. folder(n) \o file(n) = IF n \in ToSet(names) THEN <<n>> ELSE << >>
    BY <2>2, <2>3, <2>4
  <2>6. QED
    BY <2>5 DEF n
<1> HIDE DEF folder, file
<1>4. s = t
  BY <1>3
<1>5. QED
  BY <1>1, <1>2, <1>4

\* The names in a folder of files.
LEMMA FileEntries ==
  ASSUME NEW P, Yaml \in P, NEW order, IsOrder(P, order), NEW names, Ordered(order, names), NEW files, NEW path,
         \A n \in ToSet(order) : /\ ~IsFolder(files, Append(path, n))
                                 /\ (Len(n) = 1 /\ Append(path, Append(n, Yaml)) \in DOMAIN files) <=> n \in ToSet(names)
  PROVE  LET entries == Entries(files, path, order)
         IN entries \in Seq(Seq(P)) /\ Len(entries) = Len(names) /\ \A i \in 1..Len(names) : entries[i] = Append(names[i], Yaml)
<1> DEFINE folder(n) == IF IsFolder(files, Append(path, n)) THEN <<n>> ELSE << >>
           file(n)   == IF Len(n) = 1 /\ Append(path, Append(n, Yaml)) \in DOMAIN files THEN <<Append(n, Yaml)>> ELSE << >>
           s == [k \in DOMAIN order |-> folder(order[k]) \o file(order[k])]
           F == Free(P)
           G == Seq(P)
           g == [n \in F |-> Append(n, Yaml)]
           same == [n \in F |-> n]
           N == ToSet(names)
           c == FlattenSeq(Picked(order, N, g))
<1>1. Entries(files, path, order) = FlattenSeq(s)
  BY Zenon DEF Entries
<1>2. order \in Seq(F)
  BY DEF IsOrder
<1>3. g \in [F -> G] /\ same \in [F -> F] /\ (\A x \in F : same[x] = x /\ g[x] = Append(x, Yaml)) /\ F \subseteq G
  <2>1. F \subseteq G
    BY FreeNames
  <2>2. \A x \in F : Append(x, Yaml) \in G
    BY <2>1
  <2> HIDE DEF F, G
  <2>3. QED
    BY <2>1, <2>2
<1> HIDE DEF F, G, g, same
<1>4. DOMAIN order = 1..Len(order) /\ \A k \in DOMAIN order : order[k] \in F
  BY <1>2
<1>5. names = FlattenSeq(Picked(order, N, same))
  <2>1. names = FlattenSeq([k \in DOMAIN order |-> IF order[k] \in N THEN <<order[k]>> ELSE << >>])
    BY DEF Ordered
  <2>2. \A k \in DOMAIN order : (IF order[k] \in N THEN <<order[k]>> ELSE << >>) = (IF order[k] \in N THEN <<same[order[k]]>> ELSE << >>)
    BY <1>3, <1>4
  <2>3. [k \in DOMAIN order |-> IF order[k] \in N THEN <<order[k]>> ELSE << >>] = Picked(order, N, same)
    <3> HIDE DEF N
    <3>1. QED
      BY <2>2 DEF Picked
  <2>4. QED
    BY <2>1, <2>3
<1>6. s = Picked(order, N, g)
  <2>1. ASSUME NEW k \in DOMAIN order PROVE folder(order[k]) \o file(order[k]) = IF order[k] \in N THEN <<g[order[k]]>> ELSE << >>
    <3> DEFINE n == order[k]
    <3>1. n \in ToSet(order)
      BY DEF ToSet
    <3>2. folder(n) = << >>
      BY <3>1
    <3>3. file(n) = IF n \in N THEN <<Append(n, Yaml)>> ELSE << >>
      BY <3>1
    <3>4. g[n] = Append(n, Yaml)
      BY <1>3, <1>4
    <3> DEFINE y == Append(n, Yaml)
    <3> HIDE DEF y
    <3>5. << >> \o <<y>> = <<y>> /\ << >> \o << >> = << >>
      OBVIOUS
    <3> HIDE DEF folder, file, n, N
    <3>6. folder(n) \o file(n) = IF n \in N THEN <<y>> ELSE << >>
      BY <3>2, <3>3, <3>5 DEF y
    <3>7. QED
      BY <3>4, <3>6 DEF n, y
  <2> HIDE DEF folder, file, N
  <2>2. QED
    BY <2>1 DEF Picked
<1>7. c \in Seq(G) /\ Len(c) = Len(names) /\ \A i \in 1..Len(names) : c[i] = g[names[i]]
  <2> HIDE DEF N
  <2>1. MapsTo(G, g, names, FlattenSeq(Picked(order, N, g)))
    BY <1>2, <1>3, <1>5, FlattenMapped
  <2>2. QED
    BY <2>1 DEF MapsTo
<1>8. ASSUME NEW i \in 1..Len(names) PROVE names[i] \in F
  <2>1. names \in Seq(Free(P) \ {<< >>})
    BY OrderedNames
  <2>2. names[i] \in Free(P) \ {<< >>}
    BY <2>1, ElementIn
  <2>3. QED
    BY <2>2 DEF F
<1>9. Entries(files, path, order) = c
  BY <1>1, <1>6
<1> HIDE DEF c
<1>10. c \in Seq(Seq(P)) /\ Len(c) = Len(names) /\ \A i \in 1..Len(names) : c[i] = Append(names[i], Yaml)
  BY <1>3, <1>7, <1>8 DEF G
<1>11. QED
  BY <1>9, <1>10

-----------------------------------------------------------------------------
(* The fields of a model are loaded.                                       *)

Reads(schema, order, files, f, path, loaded, values) == LoadField(schema, order, files, f, path, loaded) = Loaded(values)

\* Nothing is written for an optional field.
LEMMA FieldEmpty ==
  ASSUME NEW P, Yaml \in P, NEW schema, NEW order, NEW files, DOMAIN files \subseteq Seq(Seq(P)),
         NEW path \in Seq(Seq(P)), NEW f, IsField(P, schema, f), f.optional, NEW loaded,
         Bare(files, Append(path, <<f.path>>)), Append(path, <<f.path, Yaml>>) \notin DOMAIN files,
         f.style = "folder" /\ ~f.list => Nothing(loaded[<<f.of, Append(path, <<f.path>>)>>]),
         f.style = "whole" => Nothing(loaded[<<f.of, Append(path, <<f.path, Yaml>>)>>])
  PROVE  Reads(schema, order, files, f, path, loaded, << >>)
<1> DEFINE next == Append(path, <<f.path>>)
           file == Append(path, <<f.path, Yaml>>)
           r    == LoadField(schema, order, files, f, path, loaded)
<1>1. f.path \in P /\ f.style \in {"folder", "named", "whole"} /\ f.list \in BOOLEAN
  BY DEF IsField
<1>2. next \in Seq(Seq(P))
  BY <1>1, FieldPaths
<1>3. /\ Raised.raised = TRUE /\ Loaded(<< >>).raised = FALSE
  BY DEF Raised, Loaded
<1>4. CASE f.style = "folder" /\ f.list
  <2>1. ~IsFolder(files, next)
    BY <1>2, FolderIs DEF Bare
  <2>2. r = IF f.optional /\ Raised.raised THEN Loaded(<< >>) ELSE Raised
    BY <1>4, <2>1, Zenon DEF LoadField
  <2>3. QED
    BY <1>3, <2>2 DEF Reads
<1>5. CASE f.style = "folder" /\ ~f.list
  <2> DEFINE l == loaded[<<f.of, next>>]
  <2>1. r = IF f.optional /\ l.raised THEN Loaded(<< >>) ELSE l
    BY <1>5, Zenon DEF LoadField
  <2>2. l = Raised \/ l = Loaded(<< >>)
    BY <1>5 DEF Nothing
  <2> HIDE DEF l, r
  <2>3. r = Loaded(<< >>)
    BY <1>3, <2>1, <2>2
  <2>4. QED
    BY <2>3 DEF r, Reads
<1>6. CASE f.style = "named"
  <2> DEFINE named == FactsIn(files, file, f.name)
             l == Loaded([k \in DOMAIN named |-> Built(schema, f.of, file, named[k], << >>)])
  <2>1. named = << >>
    BY DEF FactsIn
  <2>2. r = IF f.optional /\ l.raised THEN Loaded(<< >>) ELSE l
    <3>1. f.style # "folder"
      BY <1>6
    <3>2. QED
      BY <1>6, <3>1, Zenon DEF LoadField
  <2>3. [k \in DOMAIN named |-> Built(schema, f.of, file, named[k], << >>)] = << >>
    <3>1. DOMAIN named = {}
      BY <2>1
    <3> HIDE DEF named
    <3>2. QED
      BY <3>1
  <2>4. l = Loaded(<< >>)
    BY <2>3
  <2> HIDE DEF l, r
  <2>5. r = Loaded(<< >>)
    BY <1>3, <2>2, <2>4
  <2>6. QED
    BY <2>5 DEF r, Reads
<1>7. CASE f.style = "whole"
  <2> DEFINE l == loaded[<<f.of, file>>]
  <2>1. r = IF f.optional /\ l.raised THEN Loaded(<< >>) ELSE l
    <3>1. f.style # "folder" /\ f.style # "named"
      BY <1>7
    <3>2. QED
      BY <3>1, Zenon DEF LoadField
  <2>2. l = Raised \/ l = Loaded(<< >>)
    BY <1>7 DEF Nothing
  <2> HIDE DEF l, r
  <2>3. r = Loaded(<< >>)
    BY <1>3, <2>1, <2>2
  <2>4. QED
    BY <2>3 DEF r, Reads
<1>8. QED
  BY <1>1, <1>4, <1>5, <1>6, <1>7 DEF Reads

\* A list in one file.
LEMMA FieldNamed ==
  ASSUME NEW P, NEW schema, NEW order, NEW files, NEW path, NEW f, IsField(P, schema, f), f.style = "named",
         NEW values, IsList(values), \A x \in ToSet(values) : IsModel(schema, x) /\ x.type = f.of,
         Append(path, <<f.path, Yaml>>) \in DOMAIN files,
         files[Append(path, <<f.path, Yaml>>)] = RootFile(schema, f, values).content, NEW loaded
  PROVE  Reads(schema, order, files, f, path, loaded, values)
<1> DEFINE file  == Append(path, <<f.path, Yaml>>)
           named == FactsIn(files, file, f.name)
           built == [k \in DOMAIN named |-> Built(schema, f.of, file, named[k], << >>)]
           l     == Loaded(built)
           r     == LoadField(schema, order, files, f, path, loaded)
<1>1. named = [j \in DOMAIN values |-> Facts(schema, values[j])]
  <2>1. /\ RootFile(schema, f, values).content.root = f.name
        /\ RootFile(schema, f, values).content.items = [j \in DOMAIN values |-> Facts(schema, values[j])]
    BY DEF RootFile
  <2> HIDE DEF file
  <2>2. QED
    BY <2>1 DEF FactsIn, file
<1>2. schema[f.of].fields = << >> /\ schema[f.of].implied = "none"
  BY DEF IsField
<1>3. Len(values) \in Nat /\ DOMAIN values = 1..Len(values) /\ \A k \in DOMAIN values : values[k] \in ToSet(values)
  BY ListIs
<1>4. ASSUME NEW k \in DOMAIN values PROVE Built(schema, f.of, file, Facts(schema, values[k]), << >>) = values[k]
  <2>1. IsModel(schema, values[k]) /\ values[k].type = f.of
    BY <1>3
  <2> HIDE DEF file
  <2>2. QED
    BY <1>2, <2>1, BuiltPlain
<1>5. r = IF f.optional /\ l.raised THEN Loaded(<< >>) ELSE l
  <2>1. f.style # "folder"
    OBVIOUS
  <2>2. QED
    BY <2>1, Zenon DEF LoadField
<1>6. built = values
  <2>1. DOMAIN built = DOMAIN values /\ \A k \in DOMAIN values : named[k] = Facts(schema, values[k])
    <3> HIDE DEF named, file
    <3>1. QED
      BY <1>1
  <2>2. \A k \in DOMAIN values : built[k] = values[k]
    <3> HIDE DEF named, file
    <3>1. QED
      BY <1>1, <1>4, <2>1
  <2>3. values = [k \in DOMAIN values |-> values[k]]
    BY DEF IsList
  <2>4. built = [k \in DOMAIN values |-> values[k]]
    <3> DEFINE D == DOMAIN values
    <3>1. D = DOMAIN named
      <4> HIDE DEF named
      <4>1. QED
        BY <1>1
    <3> HIDE DEF named, file, D
    <3>2. built = [k \in D |-> Built(schema, f.of, file, named[k], << >>)]
      BY <3>1
    <3>3. \A k \in D : Built(schema, f.of, file, named[k], << >>) = values[k]
      BY <1>4, <2>1 DEF D
    <3> HIDE DEF built
    <3>4. built = [k \in D |-> values[k]]
      BY <3>2, <3>3
    <3>5. QED
      BY <3>4 DEF D
  <2>5. QED
    BY <2>3, <2>4
<1>7. l = Loaded(values) /\ l.raised = FALSE
  <2> HIDE DEF built
  <2>1. QED
    BY <1>6 DEF Loaded
<1> HIDE DEF l, r
<1>8. r = Loaded(values)
  BY <1>5, <1>7
<1>9. QED
  BY <1>8 DEF r, Reads

\* One model of its own.
LEMMA FieldOne ==
  ASSUME NEW schema, NEW order, NEW files, NEW path, NEW f, f.style # "named", ~f.list, NEW loaded, NEW values,
         loaded[<<f.of, IF f.style = "folder" THEN Append(path, <<f.path>>) ELSE Append(path, <<f.path, Yaml>>)>>] = Loaded(values)
  PROVE  Reads(schema, order, files, f, path, loaded, values)
<1> DEFINE l == loaded[<<f.of, IF f.style = "folder" THEN Append(path, <<f.path>>) ELSE Append(path, <<f.path, Yaml>>)>>]
           r == LoadField(schema, order, files, f, path, loaded)
<1>1. r = IF f.optional /\ l.raised THEN Loaded(<< >>) ELSE l
  <2>1. CASE f.style = "folder"
    <3> DEFINE m == loaded[<<f.of, Append(path, <<f.path>>)>>]
    <3>1. r = IF f.optional /\ m.raised THEN Loaded(<< >>) ELSE m
      BY <2>1, Zenon DEF LoadField
    <3>2. m = l
      BY <2>1
    <3> HIDE DEF l, m, r
    <3>3. QED
      BY <3>1, <3>2
  <2>2. CASE f.style # "folder"
    <3> DEFINE m == loaded[<<f.of, Append(path, <<f.path, Yaml>>)>>]
    <3>1. r = IF f.optional /\ m.raised THEN Loaded(<< >>) ELSE m
      BY <2>2, Zenon DEF LoadField
    <3>2. m = l
      BY <2>2
    <3> HIDE DEF l, m, r
    <3>3. QED
      BY <3>1, <3>2
  <2>3. QED
    BY <2>1, <2>2
<1>2. l = Loaded(values) /\ Loaded(values).raised = FALSE
  BY DEF Loaded
<1> HIDE DEF l, r
<1>3. r = Loaded(values)
  BY <1>1, <1>2
<1>4. QED
  BY <1>3 DEF r, Reads

\* One model for every entry of a folder.
LEMMA FieldFolder ==
  ASSUME NEW schema, NEW order, NEW files, NEW path, NEW f, f.style = "folder", f.list, NEW loaded, NEW values, IsList(values),
         IsFolder(files, Append(path, <<f.path>>)),
         DOMAIN Entries(files, Append(path, <<f.path>>), order) = DOMAIN values,
         \A k \in DOMAIN values :
           loaded[<<f.of, Append(Append(path, <<f.path>>), Entries(files, Append(path, <<f.path>>), order)[k])>>] = Loaded(<<values[k]>>)
  PROVE  Reads(schema, order, files, f, path, loaded, values)
<1> DEFINE next  == Append(path, <<f.path>>)
           entries == Entries(files, next, order)
           items == [k \in DOMAIN entries |-> loaded[<<f.of, Append(next, entries[k])>>]]
           flat  == [k \in DOMAIN items |-> items[k].values]
           l     == Loaded(FlattenSeq(flat))
           r     == LoadField(schema, order, files, f, path, loaded)
<1>1. DOMAIN items = DOMAIN values /\ \A k \in DOMAIN values : items[k] = Loaded(<<values[k]>>)
  OBVIOUS
<1>2. \A k \in DOMAIN values : items[k].raised = FALSE /\ items[k].values = <<values[k]>>
  <2> HIDE DEF items
  <2>1. QED
    BY <1>1 DEF Loaded
<1>3. flat = [k \in DOMAIN values |-> <<values[k]>>]
  <2> HIDE DEF items
  <2>1. QED
    BY <1>1, <1>2
<1>4. l = Loaded(values) /\ l.raised = FALSE
  <2>1. FlattenSeq(flat) = values
    <3> HIDE DEF flat
    <3>1. FlattenSeq([k \in DOMAIN values |-> <<values[k]>>]) = values
      BY FlattenSingles
    <3>2. QED
      BY <1>3, <3>1
  <2> HIDE DEF flat
  <2>2. QED
    BY <2>1 DEF Loaded
<1>5. r = IF f.optional /\ l.raised THEN Loaded(<< >>) ELSE l
  <2>1. ~(~IsFolder(files, next) \/ (\E k \in DOMAIN items : items[k].raised))
    <3> HIDE DEF items
    <3>1. QED
      BY <1>1, <1>2
  <2> DEFINE result == IF ~IsFolder(files, next) \/ (\E k \in DOMAIN items : items[k].raised) THEN Raised ELSE l
  <2>2. r = IF f.optional /\ result.raised THEN Loaded(<< >>) ELSE result
    BY Zenon DEF LoadField
  <2>3. result = l
    <3> HIDE DEF items, l
    <3>1. QED
      BY <2>1
  <2> HIDE DEF result, l, r
  <2>4. QED
    BY <2>2, <2>3
<1> HIDE DEF l, r
<1>6. r = Loaded(values)
  BY <1>4, <1>5
<1>7. QED
  BY <1>6 DEF r, Reads

-----------------------------------------------------------------------------
(* The items of a folder.                                                  *)

\* The files below the items are those of a folder, and no others.
HoldsItems(files, next, values, saved) ==
  /\ \A j \in 1..Len(values) : Holds(files, Append(next, values[j].name), ToSet(saved[values[j]]))
  /\ \A p \in DOMAIN files : LiesBelow(p, next) =>
       \E j \in 1..Len(values) : \E y \in ToSet(saved[values[j]]) : p = FileAt(Append(next, values[j].name) \o y.path)

LEMMA ItemsHeld ==
  ASSUME NEW P, Yaml \in P, NEW files, DOMAIN files \subseteq Seq(Seq(P)), NEW path \in Seq(Seq(P)),
         NEW S, AreWrites(P, S), Holds(files, path, S), NEW q \in P \ {Yaml}, NEW values, NEW saved,
         \A j \in 1..Len(values) : /\ values[j].name \in Free(P) /\ AreWrites(P, ToSet(saved[values[j]]))
                                   /\ IsPart(S, Append(<<<<q>>>>, values[j].name), ToSet(saved[values[j]])),
         \A x \in S : x.path # << >> /\ x.path[1] = <<q>> =>
           \E j \in 1..Len(values) : x \in MovedTo(Append(<<<<q>>>>, values[j].name), ToSet(saved[values[j]]))
  PROVE  HoldsItems(files, Append(path, <<q>>), values, saved)
<1> DEFINE next == Append(path, <<q>>)
           pre(j) == Append(<<<<q>>>>, values[j].name)
           W(j) == ToSet(saved[values[j]])
<1>1. ASSUME NEW j \in 1..Len(values) PROVE path \o pre(j) = Append(next, values[j].name)
  <2>1. values[j].name \in Seq(P) /\ <<q>> \in Seq(P)
    BY FreeNames
  <2> DEFINE a == <<q>>
             b == values[j].name
  <2>2. a \in Seq(P) /\ b \in Seq(P)
    BY <2>1
  <2> HIDE DEF a, b
  <2>3. path \o Append(<<a>>, b) = Append(Append(path, a), b)
    BY <2>2, AppendedPath
  <2>4. QED
    BY <2>3 DEF a, b
<1>2. ASSUME NEW j \in 1..Len(values) PROVE Holds(files, Append(next, values[j].name), W(j))
  <2>1. pre(j) \in Seq(Free(P)) /\ pre(j) # << >>
    BY ItemPathIs
  <2>2. Holds(files, path \o pre(j), W(j))
    <3> DEFINE a == pre(j)
               T == W(j)
    <3>1. a \in Seq(Free(P)) /\ a # << >> /\ AreWrites(P, T) /\ IsPart(S, a, T)
      BY <2>1
    <3> HIDE DEF a, T
    <3>2. Holds(files, path \o a, T)
      BY <3>1, PartHolds
    <3>3. QED
      BY <3>2 DEF a, T
  <2>3. QED
    BY <1>1, <2>2
<1>3. ASSUME NEW p \in DOMAIN files, LiesBelow(p, next)
      PROVE  \E j \in 1..Len(values) : \E y \in W(j) : p = FileAt(Append(next, values[j].name) \o y.path)
  <2>1. PICK x \in S : x.path # << >> /\ x.path[1] = <<q>> /\ IsFileOf(P, p, path, x.path)
    <3>1. p = Append(path, <<q, Yaml>>) \/ LiesBelow(p, Append(path, <<q>>))
      BY <1>3
    <3> HIDE DEF next
    <3>2. WrittenFor(P, S, path, q, p)
      BY <3>1, FieldFile
    <3>3. QED
      BY <3>2 DEF WrittenFor
  <2>2. IsRel(P, x.path)
    BY DEF AreWrites
  <2>3. p = FileAt(path \o x.path)
    <3>1. IsFileOf(P, FileAt(path \o x.path), path, x.path)
      BY <2>1, <2>2, FileBelow
    <3>2. QED
      BY <2>1, <2>2, <3>1, FilesAgree
  <2>4. PICK j \in 1..Len(values) : x \in MovedTo(pre(j), W(j))
    BY <2>1
  <2>5. PICK y \in W(j) : x = [path |-> pre(j) \o y.path, content |-> y.content]
    BY <2>4 DEF MovedTo
  <2>6. x.path = pre(j) \o y.path
    BY <2>5
  <2>7. path \o (pre(j) \o y.path) = (path \o pre(j)) \o y.path
    <3>1. pre(j) \in Seq(Seq(P))
      BY ItemPathIs, FreeNames
    <3>2. y.path \in Seq(Seq(P))
      BY FreeNames DEF AreWrites, IsRel
    <3>0. PathsAssociate(P)
      BY PathsJoin
    <3>3. \A a, b, c \in Seq(Seq(P)) : a \o (b \o c) = (a \o b) \o c
      BY <3>0 DEF PathsAssociate
    <3> HIDE DEF pre
    <3>4. QED
      BY <3>1, <3>2, <3>3
  <2>8. p = FileAt(Append(next, values[j].name) \o y.path)
    <3>1. path \o pre(j) = Append(next, values[j].name)
      BY <1>1
    <3> HIDE DEF pre, next
    <3>2. QED
      BY <2>3, <2>6, <2>7, <3>1
  <2>9. QED
    BY <2>8
<1>4. QED
  BY <1>2, <1>3 DEF HoldsItems

\* A path that is longer than a folder and its name is below the folder.
LEMMA LongerPath ==
  ASSUME NEW P, NEW path \in Seq(Seq(P)), NEW n \in Seq(P), NEW p \in Seq(Seq(P)), LiesBelow(p, Append(path, n))
  PROVE  LiesBelow(p, path) /\ p[Len(path) + 1] = n /\ Len(p) > Len(path) + 1
<1> DEFINE next == Append(path, n)
<1>1. /\ Len(path) \in Nat /\ Len(next) = Len(path) + 1 /\ next[Len(path) + 1] = n
      /\ \A i \in 1..Len(path) : next[i] = path[i]
  BY AppendedPath
<1>2. Len(p) \in Nat
  OBVIOUS
<1> HIDE DEF next
<1>3. Len(p) > Len(next) /\ \A i \in 1..Len(next) : p[i] = next[i]
  BY DEF LiesBelow, next
<1>4. Len(path) + 1 \in 1..Len(next) /\ \A i \in 1..Len(path) : i \in 1..Len(next)
  BY <1>1
<1>5. \A i \in 1..Len(path) : p[i] = path[i]
  BY <1>1, <1>3, <1>4
<1>6. p[Len(path) + 1] = n
  BY <1>1, <1>3, <1>4
<1>7. QED
  BY <1>1, <1>2, <1>3, <1>5, <1>6 DEF LiesBelow

LEMMA BelowItem ==
  ASSUME NEW P, Yaml \in P, NEW path \in Seq(Seq(P)), NEW n \in Seq(P), NEW rel, IsRel(P, rel), rel # << >>
  PROVE  /\ FileAt(Append(path, n) \o rel) \in Seq(Seq(P)) /\ LiesBelow(FileAt(Append(path, n) \o rel), Append(path, n))
<1>1. Append(path, n) \in Seq(Seq(P))
  BY AppendedPath
<1> DEFINE next == Append(path, n)
           p == FileAt(next \o rel)
<1>2. next \in Seq(Seq(P))
  BY <1>1
<1> HIDE DEF next
<1>3. IsFileOf(P, p, next, rel)
  BY <1>2, FileBelow
<1> HIDE DEF p
<1>4. p \in Seq(Seq(P)) /\ Len(p) = Len(next) + Len(rel) /\ \A i \in 1..Len(next) : p[i] = next[i]
  BY <1>3 DEF IsFileOf
<1>5. Len(rel) \in Nat /\ Len(rel) # 0 /\ Len(next) \in Nat
  BY <1>2 DEF IsRel
<1>6. LiesBelow(p, next)
  BY <1>4, <1>5 DEF LiesBelow
<1>7. QED
  BY <1>4, <1>6 DEF p, next

\* Where a model can be: in a folder or in a file, of its name if that is implied.
CanBeAt(schema, x, path) ==
  IF schema[x.type].fields = << >>
  THEN /\ path # << >> /\ Len(Last(path)) = 1
       /\ schema[x.type].implied = "none" \/ (schema[x.type].implied = "file" /\ Last(path) = x.name)
  ELSE schema[x.type].implied = "none" \/ (schema[x.type].implied = "folder" /\ path # << >> /\ Last(path) = x.name)

SpotOf(schema, x, path) == IF schema[x.type].fields = << >> THEN FileAt(path) ELSE path

\* A model is loaded from wherever its files are.
ComesFrom(P, schema, files, loaded, x, S) ==
  \A path \in Seq(Seq(P)) :
    CanBeAt(schema, x, path) /\ Holds(files, path, S) => loaded[<<x.type, SpotOf(schema, x, path)>>] = Loaded(<<x>>)

LEMMA LastOfAppend ==
  ASSUME NEW P, NEW path \in Seq(Seq(P)), NEW n \in Seq(P)
  PROVE  Append(path, n) \in Seq(Seq(P)) /\ Append(path, n) # << >> /\ Last(Append(path, n)) = n
<1> DEFINE r == Append(path, n)
<1>1. r \in Seq(Seq(P)) /\ Len(path) \in Nat /\ Len(r) = Len(path) + 1 /\ r[Len(path) + 1] = n
  BY AppendedPath
<1> HIDE DEF r
<1>2. r # << >> /\ r[Len(r)] = n
  BY <1>1
<1>3. QED
  BY <1>1, <1>2 DEF Last, r

IsBelow(P, path, n) ==
  Append(path, n) \in Seq(Seq(P)) /\ LiesBelow(Append(path, n), path) /\ Len(Append(path, n)) = Len(path) + 1 /\ Len(path) \in Nat

LEMMA AppendedIs ==
  ASSUME NEW P, NEW path \in Seq(Seq(P)), NEW n \in Seq(P)
  PROVE  IsBelow(P, path, n)
BY AppendedPath DEF IsBelow

LEMMA NamesListed ==
  ASSUME NEW values, IsList(values)
  PROVE  LET names == [j \in DOMAIN values |-> values[j].name]
         IN Len(names) = Len(values) /\ \A n : n \in ToSet(names) <=> \E j \in 1..Len(values) : n = values[j].name
<1> DEFINE names == [j \in DOMAIN values |-> values[j].name]
<1>1. Len(values) \in Nat /\ DOMAIN values = 1..Len(values)
  BY ListIs
<1>2. names = [j \in 1..Len(values) |-> values[j].name]
  BY <1>1
<1>3. \A n : n \in ToSet(names) <=> \E j \in 1..Len(values) : n = values[j].name
  <2>1. DOMAIN names = 1..Len(values)
    BY <1>2
  <2>2. QED
    BY <1>2, <2>1 DEF ToSet
<1>4. Len(names) = Len(values)
  BY <1>1, <1>2
<1>5. QED
  BY <1>3, <1>4

\* The models of a folder of folders.
LEMMA FoldersLoad ==
  ASSUME NEW P, Yaml \in P, NEW schema, NEW order, IsOrder(P, order), NEW files, DOMAIN files \subseteq Seq(Seq(P)),
         NEW path \in Seq(Seq(P)), NEW f, IsField(P, schema, f), f.style = "folder", f.list, schema[f.of].fields # << >>,
         NEW values, IsList(values), values # << >>, NamesFit(P, order, values),
         NEW saved, HoldsItems(files, Append(path, <<f.path>>), values, saved), NEW loaded,
         \A j \in 1..Len(values) : /\ values[j].type = f.of /\ SavedOf(P, schema, values[j], saved[values[j]])
                                   /\ ComesFrom(P, schema, files, loaded, values[j], ToSet(saved[values[j]]))
  PROVE  Reads(schema, order, files, f, path, loaded, values)
<1> DEFINE next == Append(path, <<f.path>>)
           names == [j \in DOMAIN values |-> values[j].name]
           item(j) == Append(next, values[j].name)
           W(j) == ToSet(saved[values[j]])
<1>1. next \in Seq(Seq(P))
  BY FieldPaths DEF IsField
<1>2. /\ Len(values) \in Nat /\ DOMAIN values = 1..Len(values) /\ Len(values) # 0
      /\ Len(names) = Len(values) /\ \A n : n \in ToSet(names) <=> \E j \in 1..Len(values) : n = values[j].name
  <2>1. Len(values) \in Nat /\ DOMAIN values = 1..Len(values) /\ (values # << >> <=> ToSet(values) # {}) /\ \A x : x \in ToSet(values) <=> \E k \in 1..Len(values) : x = values[k]
    BY ListIs
  <2>2. Len(names) = Len(values) /\ \A n : n \in ToSet(names) <=> \E j \in 1..Len(values) : n = values[j].name
    BY NamesListed, Zenon
  <2> HIDE DEF names
  <2>3. QED
    BY <2>1, <2>2
<1>3. /\ Ordered(order, names) /\ \A j \in 1..Len(values) : values[j].name \in Free(P) /\ values[j].name \in Seq(P)
  BY FreeNames DEF NamesFit
<1>4. ASSUME NEW j \in 1..Len(values)
      PROVE  /\ AreWrites(P, W(j)) /\ (\A y \in W(j) : y.path # << >>) /\ \E y : y \in W(j)
  <2>1. SavedOf(P, schema, values[j], saved[values[j]]) /\ schema[values[j].type].fields # << >>
    OBVIOUS
  <2>2. GoodWrites(P, saved[values[j]]) /\ \A y \in W(j) : y.path # << >>
    BY <2>1 DEF SavedOf
  <2>3. IsList(saved[values[j]]) /\ saved[values[j]] # << >> /\ AreWrites(P, W(j))
    BY <2>2 DEF GoodWrites
  <2>4. W(j) # {}
    BY <2>3, ListIs
  <2>5. QED
    BY <2>2, <2>3, <2>4
<1> HIDE DEF next, names, W
<1>5. ASSUME NEW j \in 1..Len(values)
      PROVE  \E p \in DOMAIN files : p \in Seq(Seq(P)) /\ LiesBelow(p, item(j))
  <2>1. PICK y \in W(j) : y.path # << >> /\ IsRel(P, y.path)
    BY <1>4 DEF AreWrites
  <2>2. FileAt(item(j) \o y.path) \in DOMAIN files
    BY <2>1 DEF HoldsItems, Holds, next, W
  <2>3. FileAt(item(j) \o y.path) \in Seq(Seq(P)) /\ LiesBelow(FileAt(item(j) \o y.path), item(j))
    BY <1>1, <1>3, <2>1, BelowItem
  <2>4. QED
    BY <2>2, <2>3
<1>6. ASSUME NEW p \in DOMAIN files, LiesBelow(p, next)
      PROVE  p \in Seq(Seq(P)) /\ \E j \in 1..Len(values) : Len(p) > Len(next) + 1 /\ p[Len(next) + 1] = values[j].name
  <2>0. PICK j \in 1..Len(values) : \E y \in W(j) : p = FileAt(item(j) \o y.path)
    BY <1>6 DEF HoldsItems, next, W
  <2>1. PICK y \in W(j) : p = FileAt(item(j) \o y.path)
    BY <2>0
  <2>2. y.path # << >> /\ IsRel(P, y.path)
    BY <1>4 DEF AreWrites
  <2>3. p \in Seq(Seq(P)) /\ LiesBelow(p, item(j))
    BY <1>1, <1>3, <2>1, <2>2, BelowItem
  <2>4. p[Len(next) + 1] = values[j].name /\ Len(p) > Len(next) + 1
    BY <1>1, <1>3, <2>3, LongerPath
  <2>5. QED
    BY <2>3, <2>4
<1>7. ASSUME NEW n \in ToSet(order)
      PROVE  /\ IsFolder(files, Append(next, n)) <=> n \in ToSet(names)
             /\ ~(Len(n) = 1 /\ Append(next, Append(n, Yaml)) \in DOMAIN files)
  <2>1. n \in Seq(P) /\ Append(n, Yaml) \in Seq(P)
    <3>1. order \in Seq(Free(P) \ {<< >>})
      BY DEF IsOrder
    <3>2. n \in Free(P)
      BY <3>1, PathSet
    <3>3. n \in Seq(P)
      BY <3>2, FreeNames
    <3>4. QED
      BY <3>3, YamlNamed
  <2>2. Append(next, n) \in Seq(Seq(P))
    BY <1>1, <2>1, AppendedPath
  <2>3. IsFolder(files, Append(next, n)) <=> \E p \in DOMAIN files : LiesBelow(p, Append(next, n))
    BY <2>2, FolderIs
  <2>4. ASSUME NEW p \in DOMAIN files, LiesBelow(p, Append(next, n)) PROVE n \in ToSet(names)
    <3>1. LiesBelow(p, next) /\ p[Len(next) + 1] = n
      BY <1>1, <2>1, <2>4, LongerPath
    <3>2. QED
      BY <1>2, <1>6, <3>1
  <2>5. ASSUME n \in ToSet(names) PROVE \E p \in DOMAIN files : LiesBelow(p, Append(next, n))
    <3>1. PICK j \in 1..Len(values) : n = values[j].name
      BY <1>2, <2>5
    <3>2. QED
      BY <1>5, <3>1
  <2>6. Append(next, Append(n, Yaml)) \notin DOMAIN files
    <3> DEFINE p == Append(next, Append(n, Yaml))
    <3>1. LiesBelow(p, next) /\ Len(p) = Len(next) + 1 /\ Len(next) \in Nat
      <4> DEFINE a == Append(n, Yaml)
      <4>1. a \in Seq(P)
        BY <2>1
      <4> HIDE DEF a
      <4>2. LiesBelow(Append(next, a), next) /\ Len(Append(next, a)) = Len(next) + 1 /\ Len(next) \in Nat
        BY <1>1, <4>1, AppendedPath
      <4>3. QED
        BY <4>2 DEF a
    <3> HIDE DEF p
    <3>2. SUFFICES ASSUME p \in DOMAIN files PROVE FALSE
      BY DEF p
    <3>3. Len(p) > Len(next) + 1
      BY <1>6, <3>1, <3>2
    <3>4. QED
      BY <3>1, <3>3
  <2>7. QED
    BY <2>3, <2>4, <2>5, <2>6
<1>8. Entries(files, next, order) = names
  BY <1>3, <1>7, FolderEntries
<1>9. IsFolder(files, next)
  <2>1. 1 \in 1..Len(values)
    BY <1>2
  <2>2. PICK p \in DOMAIN files : p \in Seq(Seq(P)) /\ LiesBelow(p, item(1))
    BY <1>5, <2>1
  <2>3. LiesBelow(p, next)
    BY <1>1, <1>3, <2>1, <2>2, LongerPath
  <2>4. QED
    BY <1>1, <2>3, FolderIs
<1>10. ASSUME NEW j \in DOMAIN values PROVE loaded[<<f.of, Append(next, names[j])>>] = Loaded(<<values[j]>>)
  <2>1. j \in 1..Len(values) /\ names[j] = values[j].name
    BY <1>2 DEF names
  <2>2. item(j) \in Seq(Seq(P)) /\ item(j) # << >> /\ Last(item(j)) = values[j].name
    BY <1>1, <1>3, <2>1, LastOfAppend
  <2>3. values[j].type = f.of /\ schema[f.of].implied = "folder"
    BY <2>1 DEF IsField
  <2>4. Holds(files, item(j), ToSet(saved[values[j]]))
    BY <2>1 DEF HoldsItems, next
  <2> DEFINE q == item(j)
  <2>5. CanBeAt(schema, values[j], q) /\ SpotOf(schema, values[j], q) = q
    BY <2>2, <2>3 DEF CanBeAt, SpotOf
  <2>6. ComesFrom(P, schema, files, loaded, values[j], ToSet(saved[values[j]]))
    BY <2>1
  <2>7. q = Append(next, names[j])
    BY <2>1
  <2>8. q \in Seq(Seq(P)) /\ Holds(files, q, ToSet(saved[values[j]]))
    BY <2>2, <2>4
  <2> HIDE DEF q
  <2>9. loaded[<<values[j].type, SpotOf(schema, values[j], q)>>] = Loaded(<<values[j]>>)
    BY <2>5, <2>6, <2>8 DEF ComesFrom
  <2>10. QED
    BY <2>3, <2>5, <2>7, <2>9
<1>11. DOMAIN names = DOMAIN values
  BY DEF names
<1>12. QED
  <2>1. /\ IsFolder(files, Append(path, <<f.path>>)) /\ DOMAIN Entries(files, Append(path, <<f.path>>), order) = DOMAIN values
        /\ \A k \in DOMAIN values :
             loaded[<<f.of, Append(Append(path, <<f.path>>), Entries(files, Append(path, <<f.path>>), order)[k])>>] = Loaded(<<values[k]>>)
    BY <1>8, <1>9, <1>10, <1>11 DEF next
  <2>2. QED
    BY <2>1, FieldFolder

\* The models of a folder of files.
LEMMA FilesLoad ==
  ASSUME NEW P, Yaml \in P, NEW schema, NEW order, IsOrder(P, order), NEW files, DOMAIN files \subseteq Seq(Seq(P)),
         NEW path \in Seq(Seq(P)), NEW f, IsField(P, schema, f), f.style = "folder", f.list, schema[f.of].fields = << >>,
         NEW values, IsList(values), values # << >>, NamesFit(P, order, values), \A j \in 1..Len(values) : Len(values[j].name) = 1,
         NEW saved, HoldsItems(files, Append(path, <<f.path>>), values, saved), NEW loaded,
         \A j \in 1..Len(values) : /\ values[j].type = f.of /\ SavedOf(P, schema, values[j], saved[values[j]])
                                   /\ ComesFrom(P, schema, files, loaded, values[j], ToSet(saved[values[j]]))
  PROVE  Reads(schema, order, files, f, path, loaded, values)
<1> DEFINE next == Append(path, <<f.path>>)
           names == [j \in DOMAIN values |-> values[j].name]
           item(j) == Append(next, values[j].name)
           file(j) == Append(next, Append(values[j].name, Yaml))
           W(j) == ToSet(saved[values[j]])
           entries == Entries(files, next, order)
<1>1. next \in Seq(Seq(P))
  BY FieldPaths DEF IsField
<1>2. /\ Len(values) \in Nat /\ DOMAIN values = 1..Len(values) /\ Len(values) # 0
      /\ Len(names) = Len(values) /\ \A n : n \in ToSet(names) <=> \E j \in 1..Len(values) : n = values[j].name
  <2>1. Len(values) \in Nat /\ DOMAIN values = 1..Len(values) /\ (values # << >> <=> ToSet(values) # {}) /\ \A x : x \in ToSet(values) <=> \E k \in 1..Len(values) : x = values[k]
    BY ListIs
  <2>2. Len(names) = Len(values) /\ \A n : n \in ToSet(names) <=> \E j \in 1..Len(values) : n = values[j].name
    BY NamesListed, Zenon
  <2> HIDE DEF names
  <2>3. QED
    BY <2>1, <2>2
<1>3. /\ Ordered(order, names) /\ \A j \in 1..Len(values) : values[j].name \in Free(P) /\ values[j].name \in Seq(P)
  BY FreeNames DEF NamesFit
<1>4. ASSUME NEW j \in 1..Len(values) PROVE W(j) = {OwnFile(schema, values[j])} /\ OwnFile(schema, values[j]).path = << >>
  BY DEF SavedOf, OwnFile
<1> HIDE DEF next, names, W
<1>5. ASSUME NEW j \in 1..Len(values)
      PROVE  /\ item(j) \in Seq(Seq(P)) /\ item(j) # << >> /\ Last(item(j)) = values[j].name
             /\ item(j) \o << >> = item(j) /\ FileAt(item(j)) = file(j)
             /\ Append(values[j].name, Yaml) \in Seq(P) /\ file(j) \in Seq(Seq(P))
             /\ LiesBelow(file(j), next) /\ Len(file(j)) = Len(next) + 1 /\ Len(next) \in Nat
  <2>1. values[j].name \in Seq(P) /\ Len(values[j].name) = 1 /\ Append(values[j].name, Yaml) \in Seq(P)
    BY <1>3, YamlNamed
  <2> DEFINE a == values[j].name
             b == Append(a, Yaml)
  <2>2. a \in Seq(P) /\ Len(a) = 1 /\ b \in Seq(P)
    BY <2>1
  <2> HIDE DEF a
  <2>3. Append(next, a) \in Seq(Seq(P)) /\ Append(next, a) # << >> /\ Last(Append(next, a)) = a /\ FileAt(Append(next, a)) = Append(next, b)
    BY <1>1, <2>2, LastOfAppend, FileAtAppend
  <2> HIDE DEF b
  <2>4. /\ Append(next, b) \in Seq(Seq(P)) /\ LiesBelow(Append(next, b), next) /\ Len(Append(next, b)) = Len(next) + 1 /\ Len(next) \in Nat
    <3>1. b \in Seq(P)
      BY <2>2
    <3>2. IsBelow(P, next, b)
      BY <1>1, <3>1, AppendedIs
    <3>3. QED
      BY <3>2 DEF IsBelow
  <2>5. Append(next, a) \o << >> = Append(next, a)
    BY <2>3
  <2>6. QED
    BY <2>2, <2>3, <2>4, <2>5 DEF a, b
<1>6. ASSUME NEW j \in 1..Len(values) PROVE file(j) \in DOMAIN files
  <2>1. Holds(files, item(j), W(j))
    BY DEF HoldsItems, next, W
  <2>2. OwnFile(schema, values[j]) \in W(j) /\ OwnFile(schema, values[j]).path = << >>
    BY <1>4
  <2>3. FileAt(item(j) \o << >>) \in DOMAIN files
    BY <2>1, <2>2 DEF Holds
  <2>4. QED
    BY <1>5, <2>3
<1>7. ASSUME NEW p \in DOMAIN files, LiesBelow(p, next)
      PROVE  \E j \in 1..Len(values) : p = file(j)
  <2>1. PICK j \in 1..Len(values) : \E y \in W(j) : p = FileAt(item(j) \o y.path)
    BY <1>7 DEF HoldsItems, next, W
  <2>2. PICK y \in W(j) : p = FileAt(item(j) \o y.path)
    BY <2>1
  <2>3. y.path = << >>
    BY <1>4
  <2>4. p = file(j)
    BY <1>5, <2>2, <2>3
  <2>5. QED
    BY <2>4
<1>8. ASSUME NEW n \in ToSet(order)
      PROVE  /\ ~IsFolder(files, Append(next, n))
             /\ (Len(n) = 1 /\ Append(next, Append(n, Yaml)) \in DOMAIN files) <=> n \in ToSet(names)
  <2>1. n \in Seq(P) /\ Append(n, Yaml) \in Seq(P)
    <3>1. order \in Seq(Free(P) \ {<< >>})
      BY DEF IsOrder
    <3>2. n \in Free(P)
      BY <3>1, PathSet
    <3>3. n \in Seq(P)
      BY <3>2, FreeNames
    <3>4. QED
      BY <3>3, YamlNamed
  <2>2. Append(next, n) \in Seq(Seq(P))
    BY <1>1, <2>1, AppendedPath
  <2>3. ~IsFolder(files, Append(next, n))
    <3>1. SUFFICES ASSUME NEW p \in DOMAIN files, LiesBelow(p, Append(next, n)) PROVE FALSE
      BY <2>2, FolderIs
    <3>2. LiesBelow(p, next) /\ Len(p) > Len(next) + 1
      BY <1>1, <2>1, <3>1, LongerPath
    <3>3. PICK j \in 1..Len(values) : p = file(j)
      BY <1>7, <3>2
    <3>4. Len(p) = Len(next) + 1 /\ Len(next) \in Nat
      BY <1>5, <3>3
    <3>5. QED
      BY <3>2, <3>4
  <2>4. ASSUME Append(next, Append(n, Yaml)) \in DOMAIN files PROVE n \in ToSet(names)
    <3> DEFINE a == Append(n, Yaml)
    <3>1. a \in Seq(P)
      BY <2>1
    <3> HIDE DEF a
    <3>2. LiesBelow(Append(next, a), next) /\ Len(next) \in Nat /\ Append(next, a)[Len(next) + 1] = a
      BY <1>1, <3>1, AppendedPath
    <3>3. PICK j \in 1..Len(values) : Append(next, a) = file(j)
      BY <1>7, <2>4, <3>2 DEF a
    <3> DEFINE b == Append(values[j].name, Yaml)
    <3>4. b \in Seq(P)
      BY <1>5
    <3> HIDE DEF b
    <3>5. Append(next, b)[Len(next) + 1] = b
      BY <1>1, <3>4, AppendedPath
    <3>6. a = b
      BY <3>2, <3>3, <3>5 DEF b
    <3>7. n = values[j].name
      BY <1>3, <2>1, <3>6, AppendIsInjective DEF a, b
    <3>8. QED
      BY <1>2, <3>7
  <2>5. ASSUME n \in ToSet(names) PROVE Len(n) = 1 /\ Append(next, Append(n, Yaml)) \in DOMAIN files
    <3>1. PICK j \in 1..Len(values) : n = values[j].name
      BY <1>2, <2>5
    <3>2. QED
      BY <1>6, <3>1
  <2>6. QED
    BY <2>3, <2>4, <2>5
<1>9. entries \in Seq(Seq(P)) /\ Len(entries) = Len(names) /\ \A i \in 1..Len(names) : entries[i] = Append(names[i], Yaml)
  BY <1>3, <1>8, FileEntries
<1>10. IsFolder(files, next)
  <2>1. 1 \in 1..Len(values)
    BY <1>2
  <2>2. file(1) \in DOMAIN files /\ LiesBelow(file(1), next)
    BY <1>5, <1>6, <2>1
  <2>3. QED
    BY <1>1, <2>2, FolderIs
<1>11. ASSUME NEW j \in 1..Len(values) PROVE loaded[<<f.of, file(j)>>] = Loaded(<<values[j]>>)
  <2> DEFINE q == item(j)
  <2>1. q \in Seq(Seq(P)) /\ q # << >> /\ Last(q) = values[j].name /\ FileAt(q) = file(j)
    BY <1>5
  <2>2. values[j].type = f.of /\ schema[f.of].implied \in {"file", "none"} /\ Len(values[j].name) = 1
    BY DEF IsField
  <2>3. Holds(files, q, ToSet(saved[values[j]]))
    BY DEF HoldsItems, next
  <2> HIDE DEF q
  <2>4. CanBeAt(schema, values[j], q) /\ SpotOf(schema, values[j], q) = file(j)
    BY <2>1, <2>2 DEF CanBeAt, SpotOf
  <2>5. ComesFrom(P, schema, files, loaded, values[j], ToSet(saved[values[j]]))
    OBVIOUS
  <2>6. loaded[<<values[j].type, SpotOf(schema, values[j], q)>>] = Loaded(<<values[j]>>)
    BY <2>1, <2>3, <2>4, <2>5 DEF ComesFrom
  <2>7. QED
    BY <2>2, <2>4, <2>6
<1>12. \A j \in 1..Len(values) : names[j] = values[j].name
  BY <1>2 DEF names
<1> HIDE DEF entries
<1>13. DOMAIN entries = DOMAIN values
  BY <1>2, <1>9
<1>14. \A j \in DOMAIN values : loaded[<<f.of, Append(next, entries[j])>>] = Loaded(<<values[j]>>)
  <2>1. TAKE j \in DOMAIN values
  <2>2. j \in 1..Len(values) /\ j \in 1..Len(names)
    BY <1>2
  <2>3. entries[j] = Append(values[j].name, Yaml)
    BY <1>9, <1>12, <2>2
  <2>4. loaded[<<f.of, file(j)>>] = Loaded(<<values[j]>>)
    BY <1>11, <2>2
  <2>5. QED
    BY <2>3, <2>4
<1>15. QED
  <2>1. /\ IsFolder(files, Append(path, <<f.path>>)) /\ DOMAIN Entries(files, Append(path, <<f.path>>), order) = DOMAIN values
        /\ \A k \in DOMAIN values :
             loaded[<<f.of, Append(Append(path, <<f.path>>), Entries(files, Append(path, <<f.path>>), order)[k])>>] = Loaded(<<values[k]>>)
    BY <1>10, <1>13, <1>14 DEF next, entries
  <2>2. QED
    BY <2>1, FieldFolder

\* What is written for a field is there, and it is all that is there.
FieldIn(P, schema, f, values, saved, S) ==
  \E t : /\ FieldGood(P, f, t) /\ FieldKept(schema, f, values, saved, t) /\ ToSet(t) \subseteq S
         /\ \A x \in S : x.path # << >> /\ (x.path[1] = <<f.path>> => x \in ToSet(t))

LEMMA FieldSpot ==
  ASSUME NEW P, NEW path \in Seq(Seq(P)), NEW q \in P \ {Yaml}
  PROVE  /\ <<q>> \in Seq(P) /\ Append(path, <<q>>) \in Seq(Seq(P)) /\ path \o <<<<q>>>> = Append(path, <<q>>)
         /\ Append(path, <<q>>) # << >> /\ Last(Append(path, <<q>>)) = <<q>> /\ Len(<<q>>) = 1
         /\ FileAt(Append(path, <<q>>)) = Append(path, <<q, Yaml>>)
<1>1. <<q>> \in Seq(P) /\ Len(<<q>>) = 1 /\ Append(<<q>>, Yaml) = <<q, Yaml>>
  <2>1. <<q>> \in Seq(P)
    OBVIOUS
  <2>2. Len(<<q>>) = 1
    OBVIOUS
  <2>3. <<q>> \in Seq(P) /\ <<q, Yaml>> \in Seq(P \cup {Yaml}) /\ <<q, Yaml>> = Append(<<q>>, Yaml)
    OBVIOUS
  <2>4. QED
    BY <2>1, <2>2, <2>3
<1> DEFINE a == <<q>>
<1>2. a \in Seq(P) /\ Len(a) = 1
  BY <1>1
<1> HIDE DEF a
<1>3. path \o <<a>> = Append(path, a)
  BY <1>2, AppendedPath
<1>4. Append(path, a) \in Seq(Seq(P)) /\ Append(path, a) # << >> /\ Last(Append(path, a)) = a
  BY <1>2, LastOfAppend
<1>5. FileAt(Append(path, a)) = Append(path, Append(a, Yaml))
  BY <1>2, FileAtAppend
<1>6. QED
  BY <1>1, <1>2, <1>3, <1>4, <1>5 DEF a

LEMMA EmptyLoads ==
  ASSUME NEW P, Yaml \in P, NEW schema, NEW order, NEW files, DOMAIN files \subseteq Seq(Seq(P)), NEW path \in Seq(Seq(P)),
         NEW S, AreWrites(P, S), Holds(files, path, S), NEW f, IsField(P, schema, f), f.optional,
         NEW saved, FieldIn(P, schema, f, << >>, saved, S), NEW loaded,
         f.style = "folder" /\ ~f.list /\ Bare(files, Append(path, <<f.path>>)) => Nothing(loaded[<<f.of, Append(path, <<f.path>>)>>]),
         f.style = "whole" /\ Append(path, <<f.path, Yaml>>) \notin DOMAIN files
           => Nothing(loaded[<<f.of, Append(path, <<f.path, Yaml>>)>>])
  PROVE  Reads(schema, order, files, f, path, loaded, << >>)
<1> DEFINE next == Append(path, <<f.path>>)
           file == Append(path, <<f.path, Yaml>>)
<1>1. f.path \in P \ {Yaml}
  BY DEF IsField
<1>2. \A x \in S : x.path # << >> /\ x.path[1] # <<f.path>>
  <2>1. PICK t : /\ FieldKept(schema, f, << >>, saved, t)
                 /\ \A x \in S : x.path # << >> /\ (x.path[1] = <<f.path>> => x \in ToSet(t))
    BY DEF FieldIn
  <2>2. t = << >>
    BY <2>1 DEF FieldKept
  <2>3. ToSet(t) = {}
    BY <2>2 DEF ToSet
  <2>4. QED
    BY <2>1, <2>3
<1>3. ASSUME NEW p \in DOMAIN files, p = file \/ LiesBelow(p, next) PROVE FALSE
  <2>1. p = Append(path, <<f.path, Yaml>>) \/ LiesBelow(p, Append(path, <<f.path>>))
    BY <1>3
  <2> HIDE DEF file, next
  <2>2. WrittenFor(P, S, path, f.path, p)
    BY <1>1, <2>1, FieldFile
  <2>3. QED
    BY <1>2, <2>2 DEF WrittenFor
<1>4. next \notin DOMAIN files
  <2> DEFINE pre == <<<<f.path>>>>
  <2>1. pre \in Seq(Free(P)) /\ pre # << >>
    BY <1>1, FieldPathIs
  <2>2. path \o pre = next
    BY <1>1, FieldSpot
  <2> HIDE DEF pre
  <2>3. path \o pre \notin DOMAIN files
    BY <2>1, FolderIsNoFile
  <2>4. QED
    BY <2>2, <2>3
<1>5. Bare(files, next) /\ file \notin DOMAIN files
  BY <1>3, <1>4 DEF Bare
<1>6. /\ f.style = "folder" /\ ~f.list => Nothing(loaded[<<f.of, next>>])
      /\ f.style = "whole" => Nothing(loaded[<<f.of, file>>])
  BY <1>5
<1>7. QED
  BY <1>5, <1>6, FieldEmpty

LEMMA NamedLoads ==
  ASSUME NEW P, Yaml \in P, NEW schema, NEW order, NEW files, DOMAIN files \subseteq Seq(Seq(P)), NEW path \in Seq(Seq(P)),
         NEW S, AreWrites(P, S), Holds(files, path, S), NEW f, IsField(P, schema, f), f.style = "named",
         NEW values, IsList(values), values # << >>, \A x \in ToSet(values) : IsModel(schema, x) /\ x.type = f.of,
         NEW saved, FieldIn(P, schema, f, values, saved, S), NEW loaded
  PROVE  Reads(schema, order, files, f, path, loaded, values)
<1> DEFINE r == RootFile(schema, f, values)
<1>1. f.path \in P \ {Yaml}
  BY DEF IsField
<1>2. r \in S
  <2>1. PICK t : FieldKept(schema, f, values, saved, t) /\ ToSet(t) \subseteq S
    BY DEF FieldIn
  <2>2. ToSet(t) = {r}
    BY <2>1 DEF FieldKept
  <2>3. QED
    BY <2>1, <2>2
<1>3. r.path = <<<<f.path>>>>
  BY DEF RootFile
<1> HIDE DEF r
<1>4. FileAt(path \o r.path) \in DOMAIN files /\ files[FileAt(path \o r.path)] = r.content
  BY <1>2 DEF Holds
<1>5. FileAt(path \o r.path) = Append(path, <<f.path, Yaml>>)
  <2>1. path \o <<<<f.path>>>> = Append(path, <<f.path>>) /\ FileAt(Append(path, <<f.path>>)) = Append(path, <<f.path, Yaml>>)
    BY <1>1, FieldSpot
  <2>2. QED
    BY <1>3, <2>1
<1>6. Append(path, <<f.path, Yaml>>) \in DOMAIN files /\ files[Append(path, <<f.path, Yaml>>)] = RootFile(schema, f, values).content
  BY <1>4, <1>5 DEF r
<1>7. QED
  BY <1>6, FieldNamed

LEMMA OneLoads ==
  ASSUME NEW P, Yaml \in P, NEW schema, NEW order, NEW files, DOMAIN files \subseteq Seq(Seq(P)), NEW path \in Seq(Seq(P)),
         NEW S, AreWrites(P, S), Holds(files, path, S), NEW f, IsField(P, schema, f), f.style # "named", ~f.list,
         NEW x, x.type = f.of, NEW saved, FieldIn(P, schema, f, <<x>>, saved, S), AreWrites(P, ToSet(saved[x])),
         NEW loaded, ComesFrom(P, schema, files, loaded, x, ToSet(saved[x]))
  PROVE  Reads(schema, order, files, f, path, loaded, <<x>>)
<1> DEFINE next == Append(path, <<f.path>>)
           pre  == <<<<f.path>>>>
           W    == ToSet(saved[x])
<1>1. f.path \in P \ {Yaml} /\ f.style \in {"folder", "whole"}
  BY DEF IsField
<1>2. pre \in Seq(Free(P)) /\ pre # << >> /\ Len(pre) = 1 /\ pre[1] = <<f.path>>
  BY <1>1, FieldPathIs
<1>3. /\ next \in Seq(Seq(P)) /\ path \o pre = next /\ next # << >> /\ Last(next) = <<f.path>> /\ Len(<<f.path>>) = 1
      /\ FileAt(next) = Append(path, <<f.path, Yaml>>)
  BY <1>1, FieldSpot
<1>4. MovedTo(pre, W) \subseteq S /\ \A y \in S : y.path[1] = <<f.path>> => y \in MovedTo(pre, W)
  <2>1. PICK t : /\ FieldKept(schema, f, <<x>>, saved, t) /\ ToSet(t) \subseteq S
                 /\ \A y \in S : y.path # << >> /\ (y.path[1] = <<f.path>> => y \in ToSet(t))
    BY DEF FieldIn
  <2>2. <<x>> # << >> /\ <<x>>[1] = x
    OBVIOUS
  <2>3. ToSet(t) = MovedTo(pre, W)
    BY <2>1, <2>2 DEF FieldKept
  <2>4. QED
    BY <2>1, <2>3
<1> HIDE DEF pre, next, W
<1>5. IsPart(S, pre, W)
  <2>1. ASSUME NEW y \in S, \A i \in 1..Len(pre) : y.path[i] = pre[i] PROVE y \in MovedTo(pre, W)
    <3>1. 1 \in 1..Len(pre)
      BY <1>2
    <3>2. y.path[1] = <<f.path>>
      BY <1>2, <2>1, <3>1
    <3>3. QED
      BY <1>4, <3>2
  <2>2. QED
    BY <1>4, <2>1 DEF IsPart
<1>6. Holds(files, next, W)
  <2>1. Holds(files, path \o pre, W)
    BY <1>2, <1>5, PartHolds DEF W
  <2>2. QED
    BY <1>3, <2>1
<1>7. CanBeAt(schema, x, next) /\ SpotOf(schema, x, next) = IF f.style = "folder" THEN next ELSE FileAt(next)
  <2>1. CASE f.style = "folder"
    <3>1. schema[x.type].fields # << >> /\ schema[x.type].implied = "none"
      BY <2>1 DEF IsField
    <3>2. QED
      BY <2>1, <3>1 DEF CanBeAt, SpotOf
  <2>2. CASE f.style # "folder"
    <3>1. schema[x.type].fields = << >> /\ schema[x.type].implied = "none"
      BY <2>2 DEF IsField
    <3>2. Len(Last(next)) = 1
      BY <1>3
    <3>3. QED
      BY <1>3, <2>2, <3>1, <3>2 DEF CanBeAt, SpotOf
  <2>3. QED
    BY <2>1, <2>2
<1>8. loaded[<<x.type, SpotOf(schema, x, next)>>] = Loaded(<<x>>)
  BY <1>3, <1>6, <1>7 DEF ComesFrom, W
<1>9. loaded[<<f.of, IF f.style = "folder" THEN Append(path, <<f.path>>) ELSE Append(path, <<f.path, Yaml>>)>>] = Loaded(<<x>>)
  BY <1>3, <1>7, <1>8 DEF next
<1>10. QED
  BY <1>9, FieldOne

LEMMA ListLoads ==
  ASSUME NEW P, Yaml \in P, NEW schema, NEW order, IsOrder(P, order), NEW files, DOMAIN files \subseteq Seq(Seq(P)),
         NEW path \in Seq(Seq(P)), NEW S, AreWrites(P, S), Holds(files, path, S),
         NEW f, IsField(P, schema, f), f.style = "folder", f.list,
         NEW values, IsList(values), values # << >>, NamesFit(P, order, values),
         schema[f.of].fields = << >> => \A j \in 1..Len(values) : Len(values[j].name) = 1,
         NEW saved, FieldIn(P, schema, f, values, saved, S), NEW loaded,
         \A j \in 1..Len(values) : /\ values[j].type = f.of /\ SavedOf(P, schema, values[j], saved[values[j]])
                                   /\ ComesFrom(P, schema, files, loaded, values[j], ToSet(saved[values[j]]))
  PROVE  Reads(schema, order, files, f, path, loaded, values)
<1> DEFINE q == f.path
           pre(j) == Append(<<<<q>>>>, values[j].name)
           W(j) == ToSet(saved[values[j]])
<1>1. q \in P \ {Yaml}
  BY DEF IsField
<1>2. PICK t : /\ FieldKept(schema, f, values, saved, t) /\ ToSet(t) \subseteq S
               /\ \A x \in S : x.path # << >> /\ (x.path[1] = <<f.path>> => x \in ToSet(t))
  BY DEF FieldIn
<1>3. /\ \A j \in 1..Len(values) : IsPart(ToSet(t), pre(j), W(j))
      /\ \A x \in ToSet(t) : \E j \in 1..Len(values) : x \in MovedTo(pre(j), W(j))
  BY <1>2 DEF FieldKept
<1>4. \A j \in 1..Len(values) : values[j].name \in Free(P) /\ AreWrites(P, W(j))
  BY DEF NamesFit, SavedOf, GoodWrites
<1>5. ASSUME NEW j \in 1..Len(values) PROVE IsPart(S, pre(j), W(j))
  <2>1. Len(pre(j)) = 2 /\ pre(j)[1] = <<q>>
    BY <1>1, <1>4, ItemPathIs
  <2>2. IsPart(ToSet(t), pre(j), W(j))
    BY <1>3
  <2> DEFINE a == pre(j)
             T == W(j)
  <2>3. Len(a) = 2 /\ a[1] = <<q>> /\ IsPart(ToSet(t), a, T)
    BY <2>1, <2>2
  <2> HIDE DEF a, T, q
  <2>4. MovedTo(a, T) \subseteq S
    BY <1>2, <2>3 DEF IsPart
  <2>5. ASSUME NEW x \in S, Len(x.path) > Len(a), \A i \in 1..Len(a) : x.path[i] = a[i] PROVE x \in MovedTo(a, T)
    <3>1. 1 \in 1..Len(a)
      BY <2>3
    <3>2. x.path[1] = <<q>>
      BY <2>3, <2>5, <3>1
    <3>3. x \in ToSet(t)
      BY <1>2, <3>2 DEF q
    <3>4. QED
      BY <2>3, <2>5, <3>3 DEF IsPart
  <2>6. IsPart(S, a, T)
    BY <2>4, <2>5 DEF IsPart
  <2>7. QED
    BY <2>6 DEF a, T
<1>6. ASSUME NEW x \in S, x.path # << >> /\ x.path[1] = <<q>> PROVE \E j \in 1..Len(values) : x \in MovedTo(pre(j), W(j))
  BY <1>2, <1>3, <1>6
<1>7. HoldsItems(files, Append(path, <<q>>), values, saved)
  <2>1. /\ \A j \in 1..Len(values) : values[j].name \in Free(P) /\ AreWrites(P, ToSet(saved[values[j]]))
                                     /\ IsPart(S, Append(<<<<q>>>>, values[j].name), ToSet(saved[values[j]]))
        /\ \A x \in S : x.path # << >> /\ x.path[1] = <<q>> =>
             \E j \in 1..Len(values) : x \in MovedTo(Append(<<<<q>>>>, values[j].name), ToSet(saved[values[j]]))
    BY <1>4, <1>5, <1>6
  <2> HIDE DEF q
  <2>2. QED
    BY <1>1, <2>1, ItemsHeld
<1>8. HoldsItems(files, Append(path, <<f.path>>), values, saved)
  BY <1>7
<1>9. CASE schema[f.of].fields # << >>
  BY <1>8, <1>9, FoldersLoad
<1>10. CASE schema[f.of].fields = << >>
  <2>1. \A j \in 1..Len(values) : Len(values[j].name) = 1
    BY <1>10
  <2>2. QED
    BY <1>8, <1>10, <2>1, FilesLoad
<1>11. QED
  BY <1>9, <1>10

\* Whatever is saved for a field is loaded again.
LEMMA FieldLoads ==
  ASSUME NEW P, Yaml \in P, NEW schema, FileSchema(P, schema), NEW order, IsOrder(P, order),
         NEW files, DOMAIN files \subseteq Seq(Seq(P)), NEW path \in Seq(Seq(P)), NEW S, AreWrites(P, S), Holds(files, path, S),
         NEW w, IsModel(schema, w), FitsFiles(schema, order, w), NEW k \in DOMAIN w.parts, \A x \in ToSet(w.parts[k]) : IsModel(schema, x),
         NEW saved, FieldIn(P, schema, schema[w.type].fields[k], w.parts[k], saved, S), NEW loaded,
         LET f == schema[w.type].fields[k]
         IN /\ f.style # "named" => \A x \in ToSet(w.parts[k]) : /\ SavedOf(P, schema, x, saved[x])
                                                                /\ ComesFrom(P, schema, files, loaded, x, ToSet(saved[x]))
            /\ f.style = "folder" /\ ~f.list /\ Bare(files, Append(path, <<f.path>>)) => Nothing(loaded[<<f.of, Append(path, <<f.path>>)>>])
            /\ f.style = "whole" /\ Append(path, <<f.path, Yaml>>) \notin DOMAIN files
                 => Nothing(loaded[<<f.of, Append(path, <<f.path, Yaml>>)>>])
  PROVE  Reads(schema, order, files, schema[w.type].fields[k], path, loaded, w.parts[k])
<1> DEFINE f == schema[w.type].fields[k]
           values == w.parts[k]
<1>1. /\ IsField(P, schema, f) /\ IsList(values) /\ Len(values) \in Nat /\ DOMAIN values = 1..Len(values)
      /\ \A j \in 1..Len(values) : values[j] \in ToSet(values) /\ values[j].type = f.of
      /\ values # << >> <=> Len(values) # 0
  BY FieldIs
<1>2. /\ f.list \in BOOLEAN /\ f.optional \in BOOLEAN /\ f.style \in {"folder", "named", "whole"} /\ (f.style = "whole" => ~f.list)
  BY <1>1 DEF IsField
<1>3. /\ ~f.optional => values # << >>
      /\ schema[f.of].fields = << >> /\ f.style # "named" => \A x \in ToSet(values) : Len(x.name) <= 1
  BY DEF FitsFiles
<1>4. ~f.list => Len(values) <= 1
  BY DEF IsModel
<1>5. f.style = "folder" /\ f.list => NamesFit(P, order, values)
  BY ItemNames
<1>6. FieldIn(P, schema, f, values, saved, S) /\ \A x \in ToSet(values) : IsModel(schema, x)
  OBVIOUS
<1>7. f.style # "named" => \A x \in ToSet(values) : SavedOf(P, schema, x, saved[x]) /\ ComesFrom(P, schema, files, loaded, x, ToSet(saved[x]))
  OBVIOUS
<1>8. /\ f.style = "folder" /\ ~f.list /\ Bare(files, Append(path, <<f.path>>)) => Nothing(loaded[<<f.of, Append(path, <<f.path>>)>>])
      /\ f.style = "whole" /\ Append(path, <<f.path, Yaml>>) \notin DOMAIN files
           => Nothing(loaded[<<f.of, Append(path, <<f.path, Yaml>>)>>])
  OBVIOUS
<1> SUFFICES Reads(schema, order, files, f, path, loaded, values)
  OBVIOUS
<1> HIDE DEF f, values
<1>9. CASE values = << >>
  <2>1. f.optional /\ FieldIn(P, schema, f, << >>, saved, S)
    BY <1>2, <1>3, <1>6, <1>9
  <2>2. Reads(schema, order, files, f, path, loaded, << >>)
    BY <1>1, <1>8, <2>1, EmptyLoads
  <2>3. QED
    BY <1>9, <2>2
<1>10. CASE values # << >> /\ f.style = "named"
  <2>1. \A x \in ToSet(values) : IsModel(schema, x) /\ x.type = f.of
    <3>1. \A x \in ToSet(values) : \E j \in 1..Len(values) : x = values[j]
      BY <1>1, ListIs
    <3>2. QED
      BY <1>1, <1>6, <3>1
  <2>2. QED
    BY <1>1, <1>6, <1>10, <2>1, NamedLoads
<1>11. CASE values # << >> /\ f.style # "named" /\ ~f.list
  <2> DEFINE x == values[1]
  <2>1. Len(values) = 1
    BY <1>1, <1>4, <1>11
  <2>2. x \in ToSet(values) /\ x.type = f.of
    <3>1. 1 \in 1..Len(values)
      BY <2>1
    <3>2. QED
      BY <1>1, <3>1
  <2>3. values = <<x>>
    <3>1. values \in Seq(ToSet(values))
      BY <1>1 DEF IsList
    <3>2. \A s \in Seq(ToSet(values)) : Len(s) = 1 => s = <<s[1]>>
      OBVIOUS
    <3>3. QED
      BY <2>1, <3>1, <3>2
  <2>4. SavedOf(P, schema, x, saved[x]) /\ ComesFrom(P, schema, files, loaded, x, ToSet(saved[x]))
    BY <1>7, <1>11, <2>2
  <2>5. AreWrites(P, ToSet(saved[x]))
    BY <2>4 DEF SavedOf, GoodWrites
  <2> HIDE DEF x
  <2>6. FieldIn(P, schema, f, <<x>>, saved, S)
    BY <1>6, <2>3
  <2>7. Reads(schema, order, files, f, path, loaded, <<x>>)
    BY <1>1, <1>11, <2>2, <2>4, <2>5, <2>6, OneLoads
  <2>8. QED
    BY <2>3, <2>7
<1>12. CASE values # << >> /\ f.style = "folder" /\ f.list
  <2>1. NamesFit(P, order, values)
    BY <1>5, <1>12
  <2>2. ASSUME NEW j \in 1..Len(values)
        PROVE  /\ values[j].type = f.of /\ SavedOf(P, schema, values[j], saved[values[j]])
               /\ ComesFrom(P, schema, files, loaded, values[j], ToSet(saved[values[j]]))
    <3>1. values[j] \in ToSet(values) /\ values[j].type = f.of /\ f.style # "named"
      BY <1>1, <1>12
    <3>2. QED
      BY <1>7, <3>1
  <2>3. ASSUME schema[f.of].fields = << >>, NEW j \in 1..Len(values) PROVE Len(values[j].name) = 1
    <3>1. values[j] \in ToSet(values) /\ f.style # "named"
      BY <1>1, <1>12
    <3>2. Len(values[j].name) <= 1
      BY <1>3, <2>3, <3>1
    <3>3. values[j].name \in Seq(P \ {Yaml}) /\ values[j].name # << >>
      BY <2>1 DEF NamesFit, Free
    <3> DEFINE m == Len(values[j].name)
    <3>4. m \in Nat /\ m # 0 /\ m <= 1
      BY <3>2, <3>3
    <3> HIDE DEF m
    <3>5. m = 1
      BY <3>4
    <3>6. QED
      BY <3>5 DEF m
  <2>4. QED
    BY <1>1, <1>6, <1>12, <2>1, <2>2, <2>3, ListLoads
<1>13. QED
  BY <1>2, <1>9, <1>10, <1>11, <1>12

-----------------------------------------------------------------------------
(* Every model is loaded from its files.                                   *)

LEMMA FileNameOf ==
  ASSUME NEW P, Yaml \in P, NEW path \in Seq(Seq(P)), path # << >>, Len(Last(path)) = 1
  PROVE  FileAt(path) \in Seq(Seq(P)) /\ Front(Last(FileAt(path))) = Last(path)
<1>1. Last(path) = path[Len(path)] /\ Len(path) \in Nat \ {0}
  BY FrontIs
<1>2. /\ FileAt(path) \in Seq(Seq(P)) /\ Len(FileAt(path)) = Len(path)
      /\ FileAt(path)[Len(path)] = Append(path[Len(path)], Yaml)
  <2>1. Len(path[Len(path)]) = 1
    BY <1>1
  <2>2. QED
    BY <2>1, FileAtIs
<1>3. Last(FileAt(path)) = Append(Last(path), Yaml)
  BY <1>1, <1>2 DEF Last
<1>4. Last(path) \in Seq(P)
  <2> DEFINE Q == Seq(P)
             l == Len(path)
  <2>1. path \in Seq(Q) /\ l \in 1..l /\ l = Len(path)
    BY <1>1
  <2> HIDE DEF Q, l
  <2>2. path[l] \in Q
    BY <2>1, ElementIn
  <2>3. QED
    BY <1>1, <2>2 DEF Q, l
<1>5. Front(Append(Last(path), Yaml)) = Last(path)
  <2> DEFINE a == Last(path)
             b == Append(a, Yaml)
             R == P \cup {Yaml}
  <2>1. a \in Seq(R) /\ Yaml \in R
    BY <1>4
  <2> HIDE DEF a, R
  <2>2. b \in Seq(R) /\ b # << >> /\ Len(b) = Len(a) + 1 /\ Len(a) \in Nat /\ \A i \in 1..Len(a) : b[i] = a[i]
    <3> DEFINE y == Yaml
    <3>1. y \in R
      BY <2>1
    <3> HIDE DEF y
    <3>2. Append(a, y) \in Seq(R) /\ Len(Append(a, y)) = Len(a) + 1 /\ Len(a) \in Nat /\ \A i \in 1..Len(a) : Append(a, y)[i] = a[i]
      BY <2>1, <3>1
    <3>3. Append(a, y) # << >>
      <4> DEFINE c == Append(a, y)
      <4>1. c \in Seq(R) /\ Len(c) # 0
        BY <3>2
      <4> HIDE DEF c
      <4>2. c # << >>
        BY <4>1
      <4>3. QED
        BY <4>2 DEF c
    <3>4. QED
      BY <3>2, <3>3 DEF y
  <2> HIDE DEF b
  <2>3. Front(b) \in Seq(R) /\ Len(Front(b)) = Len(b) - 1 /\ \A i \in 1..Len(b) - 1 : Front(b)[i] = b[i]
    BY <2>2, FrontIs
  <2>4. Len(Front(b)) = Len(a) /\ \A i \in 1..Len(a) : Front(b)[i] = a[i]
    BY <2>2, <2>3
  <2>5. Front(b) = a
    BY <2>1, <2>3, <2>4, SeqEqual
  <2>6. QED
    BY <2>5 DEF a, b
<1>6. QED
  BY <1>2, <1>3, <1>5

SpotRead(P, schema, order, files, loaded, w, path) ==
  /\ SpotOf(schema, w, path) \in Seq(Seq(P))
  /\ LoadOne(schema, order, files, w.type, SpotOf(schema, w, path), loaded) = Loaded(<<w>>)

LEMMA PlainComes ==
  ASSUME NEW P, Yaml \in P, NEW schema, NEW order, NEW files, DOMAIN files \subseteq Seq(Seq(P)),
         NEW w, IsModel(schema, w), schema[w.type].fields = << >>, WholeFile(schema, w),
         NEW path \in Seq(Seq(P)), CanBeAt(schema, w, path), Holds(files, path, {OwnFile(schema, w)}), NEW loaded
  PROVE  SpotRead(P, schema, order, files, loaded, w, path)
<1> DEFINE file == FileAt(path)
<1>1. path # << >> /\ Len(Last(path)) = 1 /\ SpotOf(schema, w, path) = file
  BY DEF CanBeAt, SpotOf
<1>2. file \in Seq(Seq(P)) /\ Front(Last(file)) = Last(path)
  BY <1>1, FileNameOf
<1>3. OwnFile(schema, w).path = << >>
  BY DEF OwnFile
<1>4. path \o << >> = path
  OBVIOUS
<1>5. file \in DOMAIN files /\ files[file] = OwnFile(schema, w).content
  BY <1>3, <1>4 DEF Holds
<1>6. schema[w.type].implied = "none" \/ (schema[w.type].implied = "file" /\ Front(Last(file)) = w.name)
  BY <1>2 DEF CanBeAt
<1> HIDE DEF file
<1>7. LoadOne(schema, order, files, w.type, file, loaded) = Loaded(<<w>>)
  BY <1>5, <1>6, PlainRead
<1>8. QED
  BY <1>1, <1>2, <1>7 DEF SpotRead

\* What was there for the parts of a model is loaded by now.
PartsCome(P, schema, order, files, w, saved, loaded) ==
  /\ \A k \in DOMAIN w.parts : schema[w.type].fields[k].style # "named" =>
       \A x \in ToSet(w.parts[k]) : SavedOf(P, schema, x, saved[x]) /\ ComesFrom(P, schema, files, loaded, x, ToSet(saved[x]))
  /\ \A k \in DOMAIN schema[w.type].fields : \A next \in Seq(Seq(P)) :
       LET f == schema[w.type].fields[k]
       IN /\ f.style = "folder" /\ ~f.list /\ Bare(files, next) => Nothing(loaded[<<f.of, next>>])
          /\ f.style = "whole" /\ next \notin DOMAIN files => Nothing(loaded[<<f.of, next>>])

LEMMA FolderComes ==
  ASSUME NEW P, Yaml \in P, NEW schema, FileSchema(P, schema), NEW order, IsOrder(P, order),
         NEW files, DOMAIN files \subseteq Seq(Seq(P)),
         NEW w, IsModel(schema, w), FitsFiles(schema, order, w), schema[w.type].fields # << >>,
         \A k \in DOMAIN w.parts : \A x \in ToSet(w.parts[k]) : IsModel(schema, x),
         NEW saved, NEW loaded, PartsCome(P, schema, order, files, w, saved, loaded),
         NEW path \in Seq(Seq(P)), CanBeAt(schema, w, path), Holds(files, path, ToSet(Writes(schema, w, saved)))
  PROVE  SpotRead(P, schema, order, files, loaded, w, path)
<1> DEFINE fields == schema[w.type].fields
           fw == [k \in DOMAIN fields |-> FieldWrites(schema, fields[k], w.parts[k], saved)]
           s  == Writes(schema, w, saved)
           S  == ToSet(s)
<1>1. /\ SavedOf(P, schema, w, s) /\ MadeOf(fields, fw, s)
      /\ \A k \in DOMAIN fields : FieldGood(P, fields[k], fw[k]) /\ FieldKept(schema, fields[k], w.parts[k], saved, fw[k])
  <2>1. \A k \in DOMAIN w.parts : schema[w.type].fields[k].style # "named" =>
           \A x \in ToSet(w.parts[k]) : SavedOf(P, schema, x, saved[x])
    BY DEF PartsCome
  <2>2. QED
    BY <2>1, ModelWritten, Zenon
<1>2. AreWrites(P, S)
  BY <1>1 DEF SavedOf, GoodWrites
<1>3. DOMAIN w.parts = DOMAIN fields /\ w.type \in DOMAIN schema
  BY DEF IsModel
<1>4. ASSUME NEW k \in DOMAIN fields PROVE FieldIn(P, schema, fields[k], w.parts[k], saved, S)
  <2> DEFINE t == fw[k]
  <2>1. FieldGood(P, fields[k], t) /\ FieldKept(schema, fields[k], w.parts[k], saved, t)
    BY <1>1
  <2>2. ToSet(t) \subseteq S /\ \A x \in S : x.path # << >> /\ (x.path[1] = <<fields[k].path>> => x \in ToSet(t))
    <3> HIDE DEF fields, fw, S, s
    <3>1. QED
      BY <1>1 DEF MadeOf, S
  <2> HIDE DEF t, S, fields
  <2>3. QED
    BY <2>1, <2>2 DEF FieldIn
<1>5. ASSUME NEW k \in DOMAIN fields
      PROVE  LoadField(schema, order, files, fields[k], path, loaded) = Loaded(w.parts[k])
  <2> DEFINE f == fields[k]
  <2>1. k \in DOMAIN w.parts /\ \A x \in ToSet(w.parts[k]) : IsModel(schema, x)
    BY <1>3
  <2>2. f.path \in P
    <3>1. IsField(P, schema, f)
      BY <1>3 DEF FileSchema
    <3>2. QED
      BY <3>1 DEF IsField
  <2>3. Append(path, <<f.path>>) \in Seq(Seq(P)) /\ Append(path, <<f.path, Yaml>>) \in Seq(Seq(P))
    BY <2>2, FieldPaths
  <2>4. /\ f.style # "named" => \A x \in ToSet(w.parts[k]) : /\ SavedOf(P, schema, x, saved[x])
                                                             /\ ComesFrom(P, schema, files, loaded, x, ToSet(saved[x]))
        /\ f.style = "folder" /\ ~f.list /\ Bare(files, Append(path, <<f.path>>)) => Nothing(loaded[<<f.of, Append(path, <<f.path>>)>>])
        /\ f.style = "whole" /\ Append(path, <<f.path, Yaml>>) \notin DOMAIN files
             => Nothing(loaded[<<f.of, Append(path, <<f.path, Yaml>>)>>])
    BY <2>1, <2>3 DEF PartsCome
  <2>5. FieldIn(P, schema, schema[w.type].fields[k], w.parts[k], saved, S)
    BY <1>4
  <2>6. Holds(files, path, S)
    OBVIOUS
  <2> HIDE DEF S
  <2>7. Reads(schema, order, files, schema[w.type].fields[k], path, loaded, w.parts[k])
    BY <1>2, <2>1, <2>4, <2>5, <2>6, FieldLoads
  <2>8. QED
    BY <2>7 DEF Reads
<1>6. path \notin DOMAIN files
  BY DEF Holds
<1>7. schema[w.type].implied = "none" \/ (schema[w.type].implied = "folder" /\ Last(path) = w.name)
  BY DEF CanBeAt
<1>8. PICK i0 \in DOMAIN schema[w.type].fields : ~schema[w.type].fields[i0].optional
  BY <1>3 DEF FileSchema
<1>9. \A k \in DOMAIN schema[w.type].fields : LoadField(schema, order, files, schema[w.type].fields[k], path, loaded) = Loaded(w.parts[k])
  BY <1>5
<1>10. LoadOne(schema, order, files, w.type, path, loaded) = Loaded(<<w>>)
  BY <1>6, <1>7, <1>8, <1>9, FolderRead
<1>11. SpotOf(schema, w, path) = path
  BY DEF SpotOf
<1>12. QED
  BY <1>10, <1>11 DEF SpotRead

LEMMA AllCome ==
  ASSUME NEW schema, NEW order, NEW P, P = NameParts(schema, order), FileSchema(P, schema), NEW rank, IsRank(schema, rank),
         IsOrder(P, order), NEW v, FileModel(schema, v), Savable(schema, order, v),
         NEW files, DOMAIN files \subseteq Seq(Seq(P))
  PROVE  \A n \in 0..Levels(schema) : \A w \in ModelsIn(schema, v) :
           rank[w.type] <= n /\ WholeFile(schema, w) =>
             ComesFrom(P, schema, files, LoadedBy(schema, order, files)[n], w, ToSet(SavedBy(schema, v)[n][w]))
<1> DEFINE L == Levels(schema)
           M == ModelsIn(schema, v)
           loaded == LoadedBy(schema, order, files)
           saved == SavedBy(schema, v)
<1>1. L \in Nat /\ Yaml \in P
  BY DEF FileSchema, NameParts
<1>2. \A w \in M : IsModel(schema, w) /\ FitsFiles(schema, order, w) /\ w.type \in DOMAIN schema
  BY DEF FileModel, Savable, IsModel
<1>3. \A w \in M : \A k \in DOMAIN w.parts : ToSet(w.parts[k]) \subseteq M
  BY <1>1, ModelsClosed
<1>4. saved = [n \in 0..L |-> [w \in M |-> IF n = 0 THEN << >> ELSE Writes(schema, w, saved[n - 1])]]
  BY <1>1, SavedUnfolds
<1>5. \A n \in 0..L : \A w \in M : rank[w.type] <= n /\ WholeFile(schema, w) => SavedOf(P, schema, w, saved[n][w])
  BY SavedGood
<1>6. \A n \in 0..L : \A t \in DOMAIN schema : \A path \in Seq(Seq(P)) :
        /\ rank[t] <= n /\ path \notin DOMAIN files
        /\ IF schema[t].fields = << >> THEN schema[t].implied = "none" ELSE Bare(files, path)
        => Nothing(loaded[n][<<t, path>>])
  BY NothingThere
<1>7. ASSUME NEW n \in 1..L, NEW t \in DOMAIN schema, NEW path \in Seq(Seq(P))
      PROVE  loaded[n][<<t, path>>] = LoadOne(schema, order, files, t, path, loaded[n - 1])
  BY <1>1, LoadedAt
<1> HIDE DEF L, M, loaded, saved
<1> DEFINE T == {n \in 0..L : \A w \in M : rank[w.type] <= n /\ WholeFile(schema, w) =>
                                ComesFrom(P, schema, files, loaded[n], w, ToSet(saved[n][w]))}
<1>8. 0 \in T
  <2>1. \A w \in M : rank[w.type] \in 1..L
    BY <1>2 DEF IsRank, L
  <2>2. \A w \in M : ~(rank[w.type] <= 0)
    BY <1>1, <2>1
  <2>3. QED
    BY <1>1, <2>2
<1>9. ASSUME NEW n \in 1..L, n - 1 \in T PROVE n \in T
  <2>1. n \in 0..L /\ n - 1 \in 0..L /\ n # 0
    BY <1>1
  <2>2. SUFFICES ASSUME NEW w \in M, rank[w.type] <= n, WholeFile(schema, w),
                        NEW path \in Seq(Seq(P)), CanBeAt(schema, w, path), Holds(files, path, ToSet(saved[n][w]))
                 PROVE  loaded[n][<<w.type, SpotOf(schema, w, path)>>] = Loaded(<<w>>)
    BY <2>1 DEF ComesFrom
  <2>3. IsModel(schema, w) /\ FitsFiles(schema, order, w) /\ w.type \in DOMAIN schema
    BY <1>2
  <2>4. CASE schema[w.type].fields = << >>
    <3>1. ToSet(saved[n][w]) = {OwnFile(schema, w)}
      BY <1>5, <2>1, <2>2, <2>4 DEF SavedOf
    <3>2. Holds(files, path, {OwnFile(schema, w)})
      BY <2>2, <3>1
    <3>3. SpotRead(P, schema, order, files, loaded[n - 1], w, path)
      BY <1>1, <2>2, <2>3, <2>4, <3>2, PlainComes
    <3>4. QED
      BY <1>7, <2>3, <3>3 DEF SpotRead
  <2>5. CASE schema[w.type].fields # << >>
    <3>1. SpotOf(schema, w, path) = path
      BY <2>5 DEF SpotOf
    <3>2. saved[n][w] = Writes(schema, w, saved[n - 1])
      BY <1>4, <2>1
    <3>3. Holds(files, path, ToSet(Writes(schema, w, saved[n - 1])))
      BY <2>2, <3>2
    <3>4. DOMAIN w.parts = DOMAIN schema[w.type].fields
      BY <2>3 DEF IsModel
    <3>5. ASSUME NEW k \in DOMAIN w.parts
          PROVE  /\ schema[w.type].fields[k].of \in DOMAIN schema /\ rank[schema[w.type].fields[k].of] <= n - 1
                 /\ \A x \in ToSet(w.parts[k]) : x \in M /\ IsModel(schema, x) /\ x.type = schema[w.type].fields[k].of
      <4> DEFINE f == schema[w.type].fields[k]
      <4>1. IsField(P, schema, f) /\ \A x \in ToSet(w.parts[k]) : x.type = f.of
        BY <2>3, <3>4 DEF FileSchema, IsModel
      <4>2. f.of \in DOMAIN schema
        BY <4>1 DEF IsField
      <4>3. rank[f.of] < rank[w.type] /\ rank[f.of] \in 1..Levels(schema) /\ rank[w.type] \in 1..Levels(schema)
        BY <2>3, <3>4, <4>2 DEF IsRank
      <4>4. rank[f.of] <= n - 1
        BY <1>1, <2>2, <4>3
      <4>5. QED
        BY <1>2, <1>3, <4>1, <4>2, <4>4
    <3>6. ASSUME NEW k \in DOMAIN w.parts, schema[w.type].fields[k].style # "named", NEW x \in ToSet(w.parts[k])
          PROVE  /\ SavedOf(P, schema, x, saved[n - 1][x])
                 /\ ComesFrom(P, schema, files, loaded[n - 1], x, ToSet(saved[n - 1][x]))
      <4>1. x \in M /\ rank[x.type] <= n - 1 /\ x.type = schema[w.type].fields[k].of
        BY <3>5
      <4>2. WholeFile(schema, x)
        BY <2>3, <3>6, <4>1 DEF FitsFiles, WholeFile
      <4>3. QED
        BY <1>5, <1>9, <2>1, <4>1, <4>2
    <3>7. ASSUME NEW k \in DOMAIN schema[w.type].fields, NEW next \in Seq(Seq(P))
          PROVE  LET f == schema[w.type].fields[k]
                 IN /\ f.style = "folder" /\ ~f.list /\ Bare(files, next) => Nothing(loaded[n - 1][<<f.of, next>>])
                    /\ f.style = "whole" /\ next \notin DOMAIN files => Nothing(loaded[n - 1][<<f.of, next>>])
      <4> DEFINE f == schema[w.type].fields[k]
      <4>1. IsField(P, schema, f)
        BY <2>3 DEF FileSchema
      <4>2. f.of \in DOMAIN schema /\ rank[f.of] <= n - 1
        BY <3>4, <3>5
      <4>3. ASSUME f.style = "folder", ~f.list, Bare(files, next) PROVE Nothing(loaded[n - 1][<<f.of, next>>])
        <5>1. schema[f.of].fields # << >>
          BY <4>1, <4>3 DEF IsField
        <5>2. next \notin DOMAIN files
          BY <4>3 DEF Bare
        <5>3. QED
          BY <1>6, <2>1, <4>2, <4>3, <5>1, <5>2
      <4>4. ASSUME f.style = "whole", next \notin DOMAIN files PROVE Nothing(loaded[n - 1][<<f.of, next>>])
        <5>1. schema[f.of].fields = << >> /\ schema[f.of].implied = "none"
          BY <4>1, <4>4 DEF IsField
        <5>2. QED
          BY <1>6, <2>1, <4>2, <4>4, <5>1
      <4>5. QED
        BY <4>3, <4>4
    <3>8. PartsCome(P, schema, order, files, w, saved[n - 1], loaded[n - 1])
      BY <3>6, <3>7 DEF PartsCome
    <3>9. \A k \in DOMAIN w.parts : \A x \in ToSet(w.parts[k]) : IsModel(schema, x)
      BY <3>5
    <3>10. SpotRead(P, schema, order, files, loaded[n - 1], w, path)
      BY <1>1, <2>2, <2>3, <2>5, <3>3, <3>8, <3>9, FolderComes
    <3>11. QED
      BY <1>7, <2>3, <3>1, <3>10 DEF SpotRead
  <2>6. QED
    BY <2>4, <2>5
<1>10. 0..L \subseteq T
  <2> HIDE DEF T
  <2>1. QED
    BY <1>1, <1>8, <1>9, UpTo
<1>11. QED
  BY <1>10 DEF L, M, loaded, saved

-----------------------------------------------------------------------------
(* What was saved is loaded.                                               *)

\* Every file has the content that was written for it, whatever was there before.
HasStored(P, files, s) == Holds(files, << >>, ToSet(s)) /\ DOMAIN files \subseteq Seq(Seq(P))

\* Writes are those of a list, at the paths of files.
AreFilesOf(writes, s) == writes = [n \in DOMAIN s |-> [s[n] EXCEPT !.path = FileAt(@)]]

\* Every file there is is written again, and none is the file without a path.
Rewritten(P, old, writes, s) ==
  /\ Yaml \in P
  /\ \A x \in ToSet(s) : x.path # << >>
  /\ DOMAIN old \subseteq {writes[n].path : n \in DOMAIN writes}

LEMMA StoredHolds ==
  ASSUME NEW P, NEW s, GoodWrites(P, s), NEW writes, AreFilesOf(writes, s), NEW old, Rewritten(P, old, writes, s)
  PROVE  HasStored(P, Stored(old, writes), s)
<1>0. /\ Yaml \in P /\ (\A x \in ToSet(s) : x.path # << >>) /\ writes = [n \in DOMAIN s |-> [s[n] EXCEPT !.path = FileAt(@)]]
      /\ DOMAIN old \subseteq {writes[n].path : n \in DOMAIN writes}
  BY DEF AreFilesOf, Rewritten
<1> DEFINE N == Len(s)
           S == ToSet(s)
           files == Stored(old, writes)
           at(path) == {n \in DOMAIN writes : writes[n].path = path}
           last(T)  == CHOOSE n \in T : \A m \in T : m <= n
<1>1. /\ N \in Nat /\ DOMAIN s = 1..N /\ (\A x : x \in S <=> \E k \in 1..N : x = s[k])
      /\ AreWrites(P, S) /\ PathsDiffer(S)
  BY ListIs DEF GoodWrites
<1>2. DOMAIN writes = 1..N
  BY <1>0, <1>1
<1>3. ASSUME NEW n \in 1..N
      PROVE  /\ s[n] \in S /\ s[n].path # << >> /\ IsRel(P, s[n].path) /\ s[n] = [path |-> s[n].path, content |-> s[n].content]
             /\ writes[n].path = FileAt(s[n].path) /\ writes[n].content = s[n].content
  <2>1. s[n] \in S
    BY <1>1
  <2>2. s[n].path # << >> /\ IsRel(P, s[n].path) /\ s[n] = [path |-> s[n].path, content |-> s[n].content]
    BY <1>0, <1>1, <2>1 DEF AreWrites
  <2>3. writes[n] = [s[n] EXCEPT !.path = FileAt(@)]
    BY <1>0, <1>1
  <2>4. writes[n] = [path |-> FileAt(s[n].path), content |-> s[n].content]
    BY <2>2, <2>3
  <2>5. QED
    BY <2>1, <2>2, <2>4
<1>4. << >> \in Seq(Seq(P)) /\ Len(<< >>) = 0
  OBVIOUS
<1>5. ASSUME NEW n \in 1..N
      PROVE  /\ << >> \o s[n].path = s[n].path /\ IsFileOf(P, FileAt(s[n].path), << >>, s[n].path)
             /\ FileAt(s[n].path) # << >> /\ FileAt(s[n].path) \in Seq(Seq(P))
  <2> DEFINE r == s[n].path
             p == FileAt(r)
             e == << >>
  <2>1. IsRel(P, r) /\ r # << >> /\ r \in Seq(Seq(P))
    BY <1>3, FreeNames DEF IsRel
  <2> HIDE DEF r
  <2>2. e \o r = r
    BY <2>1
  <2>3. e \in Seq(Seq(P)) /\ Len(e) = 0
    BY <1>4
  <2> HIDE DEF e
  <2>4. IsFileOf(P, FileAt(e \o r), e, r)
    BY <1>0, <2>1, <2>3, FileBelow
  <2> HIDE DEF p
  <2>5. IsFileOf(P, p, e, r)
    BY <2>2, <2>4 DEF p
  <2>6. p \in Seq(Seq(P)) /\ Len(p) = Len(r) /\ Len(r) \in Nat /\ Len(r) # 0
    BY <2>1, <2>3, <2>5 DEF IsFileOf
  <2>7. p # << >>
    BY <2>6
  <2>8. QED
    BY <2>2, <2>5, <2>6, <2>7 DEF r, p, e
<1>6. ASSUME NEW n \in 1..N, NEW m \in 1..N, FileAt(s[n].path) = FileAt(s[m].path) PROVE s[n] = s[m]
  <2>1. IsRel(P, s[n].path) /\ IsRel(P, s[m].path) /\ s[n].path # << >> /\ s[m].path # << >> /\ s[n] \in S /\ s[m] \in S
    BY <1>3
  <2>2. IsFileOf(P, FileAt(s[n].path), << >>, s[n].path) /\ IsFileOf(P, FileAt(s[n].path), << >>, s[m].path)
    BY <1>5, <1>6
  <2>3. s[n].path = s[m].path
    <3> DEFINE a == s[n].path
               b == s[m].path
               p == FileAt(a)
    <3>1. IsRel(P, a) /\ IsRel(P, b) /\ a # << >> /\ b # << >> /\ IsFileOf(P, p, << >>, a) /\ IsFileOf(P, p, << >>, b)
      BY <2>1, <2>2
    <3> HIDE DEF a, b, p
    <3>2. a = b
      BY <1>0, <1>4, <3>1, RelsAgree
    <3>3. QED
      BY <3>2 DEF a, b
  <2>4. QED
    BY <1>1, <2>1, <2>3 DEF PathsDiffer
<1>7. files = [path \in DOMAIN old \cup {writes[n].path : n \in DOMAIN writes} |->
                 IF at(path) = {} THEN old[path] ELSE writes[last(at(path))].content]
  BY Zenon DEF Stored
<1> HIDE DEF files
<1>8. DOMAIN files = {writes[n].path : n \in DOMAIN writes}
  <2> HIDE DEF at, last
  <2>1. DOMAIN files = DOMAIN old \cup {writes[n].path : n \in DOMAIN writes}
    BY <1>7
  <2>2. QED
    BY <1>0, <2>1
<1>9. ASSUME NEW n \in 1..N PROVE FileAt(s[n].path) \in DOMAIN files /\ files[FileAt(s[n].path)] = s[n].content
  <2> DEFINE p == FileAt(s[n].path)
             A == at(p)
             l == last(A)
  <2>1. p \in DOMAIN files
    BY <1>2, <1>3, <1>8
  <2>2. n \in A /\ A \subseteq 1..N
    BY <1>2, <1>3
  <2>3. files[p] = IF A = {} THEN old[p] ELSE writes[l].content
    <3>1. p \in DOMAIN old \cup {writes[m].path : m \in DOMAIN writes}
      BY <1>8, <2>1
    <3> HIDE DEF p, at, last
    <3>2. QED
      BY <1>7, <3>1
  <2>4. A \subseteq {m \in 1..N : FileAt(s[m].path) = p}
    BY <1>2, <1>3
  <2> HIDE DEF A
  <2>5. l \in A
    <3>1. \E m \in A : \A k \in A : k <= m
      BY <1>1, <2>2, GreatestUpTo
    <3>2. QED
      BY <3>1, Zenon
  <2> HIDE DEF l
  <2>6. l \in 1..N /\ FileAt(s[l].path) = p
    BY <2>4, <2>5
  <2>7. s[l] = s[n]
    BY <1>6, <2>6
  <2>8. files[p] = s[n].content
    <3>1. A # {}
      BY <2>2
    <3>2. writes[l].content = s[l].content
      BY <1>3, <2>6
    <3> HIDE DEF p
    <3>3. QED
      BY <2>3, <2>7, <3>1, <3>2
  <2>9. QED
    BY <2>1, <2>8
<1>10. \A p \in DOMAIN files : \E n \in 1..N : p = FileAt(s[n].path)
  BY <1>2, <1>3, <1>8
<1>11. DOMAIN files \subseteq Seq(Seq(P)) /\ << >> \notin DOMAIN files
  BY <1>5, <1>10
<1>12. \A x \in S : FileAt(<< >> \o x.path) \in DOMAIN files /\ files[FileAt(<< >> \o x.path)] = x.content
  BY <1>1, <1>5, <1>9
<1>13. \A p \in DOMAIN files : \E x \in S : x.path # << >> /\ p = FileAt(<< >> \o x.path)
  <2>1. TAKE p \in DOMAIN files
  <2>2. PICK n \in 1..N : p = FileAt(s[n].path)
    BY <1>10
  <2>3. s[n] \in S /\ s[n].path # << >> /\ << >> \o s[n].path = s[n].path
    BY <1>3, <1>5
  <2>4. QED
    BY <2>2, <2>3
<1>14. Holds(files, << >>, S)
  BY <1>11, <1>12, <1>13 DEF Holds
<1>15. QED
  BY <1>11, <1>14 DEF files, S, HasStored

\* A model of any schema that is well formed comes back from the files it is
\* saved to, also when those of an earlier model are overwritten: the names that
\* are left to folders and files are read again, nothing is lost below optional
\* fields, and lists are in the order they had.
THEOREM SavedAlwaysComesBack ==
  ASSUME NEW schema, NEW order, NEW rank, FileSchema(NameParts(schema, order), schema), IsRank(schema, rank),
         IsOrder(NameParts(schema, order), order), NEW v, FileModel(schema, v),
         schema[v.type].fields # << >>, schema[v.type].implied = "none", NEW before
  PROVE  SavedComesBack(schema, order, before, v)
<1> DEFINE P == NameParts(schema, order)
           L == Levels(schema)
           s == SavedBy(schema, v)[L][v]
           writes == Save(schema, v)
           old == Stored(<< >>, Save(schema, before))
           files == Stored(old, writes)
<1>1. SUFFICES ASSUME Savable(schema, order, v), DOMAIN old \subseteq {writes[n].path : n \in DOMAIN writes}
               PROVE  Load(schema, order, files, v.type) = Loaded(<<v>>)
  BY Zenon DEF SavedComesBack
<1>2. L \in Nat /\ Yaml \in P /\ L \in 0..L
  BY DEF FileSchema, NameParts
<1>3. v \in ModelsIn(schema, v)
  BY <1>2, ModelsClosed
<1>4. v.type \in DOMAIN schema /\ rank[v.type] <= L /\ WholeFile(schema, v)
  <2>1. v.type \in DOMAIN schema
    BY <1>3 DEF FileModel, IsModel
  <2>2. rank[v.type] \in 1..L
    BY <2>1 DEF IsRank
  <2>3. QED
    BY <1>2, <2>1, <2>2 DEF WholeFile
<1>5. SavedOf(P, schema, v, s)
  <2>1. \A n \in 0..L : \A w \in ModelsIn(schema, v) :
           rank[w.type] <= n /\ WholeFile(schema, w) => SavedOf(P, schema, w, SavedBy(schema, v)[n][w])
    BY <1>1, SavedGood
  <2>2. QED
    BY <1>2, <1>3, <1>4, <2>1
<1>6. GoodWrites(P, s) /\ \A x \in ToSet(s) : x.path # << >>
  BY <1>5 DEF SavedOf
<1>7. writes = [n \in DOMAIN s |-> [s[n] EXCEPT !.path = FileAt(@)]]
  BY Zenon DEF Save
<1> HIDE DEF P, L, s, writes, old
<1>8. Holds(files, << >>, ToSet(s)) /\ DOMAIN files \subseteq Seq(Seq(P))
  <2>1. HasStored(P, Stored(old, writes), s)
    <3>1. AreFilesOf(writes, s)
      BY <1>7 DEF AreFilesOf
    <3>2. Rewritten(P, old, writes, s)
      BY <1>1, <1>2, <1>6 DEF Rewritten
    <3>3. GoodWrites(P, s)
      BY <1>6
    <3>4. QED
      BY <3>1, <3>2, <3>3, StoredHolds
  <2>2. QED
    BY <2>1 DEF HasStored
<1> HIDE DEF files
<1>9. ComesFrom(P, schema, files, LoadedBy(schema, order, files)[L], v, ToSet(s))
  <2>1. \A n \in 0..Levels(schema) : \A w \in ModelsIn(schema, v) :
           rank[w.type] <= n /\ WholeFile(schema, w) =>
             ComesFrom(P, schema, files, LoadedBy(schema, order, files)[n], w, ToSet(SavedBy(schema, v)[n][w]))
    BY <1>1, <1>8, AllCome DEF P
  <2>2. QED
    BY <1>2, <1>3, <1>4, <2>1 DEF L, s
<1>10. << >> \in Seq(Seq(P)) /\ CanBeAt(schema, v, << >>) /\ SpotOf(schema, v, << >>) = << >>
  BY DEF CanBeAt, SpotOf
<1>11. LoadedBy(schema, order, files)[L][<<v.type, << >>>>] = Loaded(<<v>>)
  BY <1>8, <1>9, <1>10 DEF ComesFrom
<1>12. QED
  BY <1>11 DEF Load, L

-----------------------------------------------------------------------------
(* The paths through the models.                                           *)

\* A step along a field of a schema.
Hop(schema, h) == \E f \in schema : f.followed /\ \E c \in f.models : h = Step(f, c)

Hops(schema) == UNION {{Step(f, c) : c \in f.models} : f \in {f \in schema : f.followed}}

\* From the root, to no model's fields twice.
IsPath(schema, root, p) ==
  /\ p \in Seq(Hops(schema))
  /\ Len(p) > 0 => p[1].of = root
  /\ \A k \in 1..Len(p) - 1 : p[k + 1].of = p[k].model
  /\ \A i, j \in 1..Len(p) : p[i].of = p[j].of => i = j

LEMMA HopIs ==
  ASSUME NEW schema, NEW h
  PROVE  h \in Hops(schema) <=>
           \E f \in schema : f.followed /\ \E c \in f.models : h = Step(f, c)
BY DEF Hops

LEMMA HopTells ==
  ASSUME NEW schema, NEW h \in Hops(schema)
  PROVE  h.model \in ChildModels(schema, h.of) /\ \E f \in schema : f.followed /\ f.of = h.of /\ h.model \in f.models
<1>1. PICK f \in schema : f.followed /\ \E c \in f.models : h = Step(f, c)
  BY HopIs
<1>2. PICK c \in f.models : h = Step(f, c)
  BY <1>1
<1>3. h.of = f.of /\ h.model = c
  BY <1>2 DEF Step
<1>4. f \in FieldsOf(schema, h.of)
  BY <1>1, <1>3 DEF FieldsOf
<1>5. QED
  BY <1>1, <1>3, <1>4 DEF ChildModels

LEMMA HopAlong ==
  ASSUME NEW schema, NEW m, NEW c \in ChildModels(schema, m)
  PROVE  \E f \in FieldsOf(schema, m) : c \in f.models /\ Step(f, c) \in Hops(schema)
           /\ Step(f, c).of = m /\ Step(f, c).model = c
<1>1. PICK f \in FieldsOf(schema, m) : c \in f.models
  BY DEF ChildModels
<1>2. f \in schema /\ f.followed /\ f.of = m
  BY <1>1 DEF FieldsOf
<1>3. Step(f, c) \in Hops(schema)
  BY <1>1, <1>2, HopIs
<1>4. Step(f, c).of = m /\ Step(f, c).model = c
  BY <1>2 DEF Step
<1>5. QED
  BY <1>1, <1>3, <1>4

\* A path that is one step longer.
LEMMA PathLonger ==
  ASSUME NEW schema, NEW root, NEW p, IsPath(schema, root, p), NEW h \in Hops(schema),
         h.of = EndOf(root, p), \A k \in 1..Len(p) : p[k].of # h.of
  PROVE  /\ IsPath(schema, root, Append(p, h)) /\ Len(Append(p, h)) = Len(p) + 1
         /\ Last(Append(p, h)) = h
         /\ EndOf(root, Append(p, h)) = h.model
<1> DEFINE q == Append(p, h)
<1>1. p \in Seq(Hops(schema)) /\ Len(p) \in Nat
  BY LenIsNat DEF IsPath
<1>2. /\ q \in Seq(Hops(schema)) /\ Len(q) = Len(p) + 1 /\ q[Len(p) + 1] = h
      /\ \A k \in 1..Len(p) : q[k] = p[k]
  BY <1>1
<1>3. p # << >> => Len(p) # 0 /\ EndOf(root, p) = p[Len(p)].model
  BY <1>1 DEF EndOf, Last
<1> HIDE DEF q
<1>4. q # << >>
  BY <1>1, <1>2
<1>5. Len(q) > 0 => q[1].of = root
  <2>1. CASE p = << >>
    <3>1. Len(p) = 0
      BY <2>1
    <3>2. q[1] = h
      BY <1>2, <3>1
    <3>3. QED
      BY <2>1, <3>2 DEF EndOf
  <2>2. CASE p # << >>
    <3>1. Len(p) > 0
      BY <1>1, <1>3, <2>2
    <3>2. q[1] = p[1]
      BY <1>1, <1>2, <3>1
    <3>3. QED
      BY <3>1, <3>2 DEF IsPath
  <2>3. QED
    BY <2>1, <2>2
<1>6. \A k \in 1..Len(q) - 1 : q[k + 1].of = q[k].model
  <2>1. TAKE k \in 1..Len(q) - 1
  <2>2. k \in 1..Len(p)
    BY <1>1, <1>2
  <2>3. CASE k = Len(p)
    <3>1. p # << >>
      BY <2>2, <2>3
    <3>2. q[k + 1] = h /\ q[k] = p[Len(p)]
      BY <1>2, <2>2, <2>3
    <3>3. QED
      BY <1>3, <3>1, <3>2
  <2>4. CASE k # Len(p)
    <3>1. k \in 1..Len(p) - 1 /\ k + 1 \in 1..Len(p)
      BY <1>1, <2>2, <2>4
    <3>2. q[k + 1] = p[k + 1] /\ q[k] = p[k]
      BY <1>2, <2>2, <3>1
    <3>3. QED
      BY <3>1, <3>2 DEF IsPath
  <2>5. QED
    BY <2>3, <2>4
<1>7. \A i, j \in 1..Len(q) : q[i].of = q[j].of => i = j
  <2>1. SUFFICES ASSUME NEW i \in 1..Len(q), NEW j \in 1..Len(q), q[i].of = q[j].of PROVE i = j
    OBVIOUS
  <2>2. (i \in 1..Len(p) \/ i = Len(p) + 1) /\ (j \in 1..Len(p) \/ j = Len(p) + 1)
    BY <1>1, <1>2
  <2>3. CASE i \in 1..Len(p) /\ j \in 1..Len(p)
    BY <1>2, <2>1, <2>3 DEF IsPath
  <2>4. CASE i = Len(p) + 1 /\ j = Len(p) + 1
    BY <2>4
  <2>5. ~(i \in 1..Len(p) /\ j = Len(p) + 1)
    BY <1>2, <2>1
  <2>6. ~(j \in 1..Len(p) /\ i = Len(p) + 1)
    BY <1>2, <2>1
  <2>7. QED
    BY <2>2, <2>3, <2>4, <2>5, <2>6
<1>8. Last(q) = h
  BY <1>2 DEF Last
<1>9. QED
  BY <1>2, <1>4, <1>5, <1>6, <1>7, <1>8 DEF IsPath, EndOf, q

\* The first steps of a path, before the nth.
IsBefore(schema, root, p, n, q) ==
  /\ IsPath(schema, root, q) /\ Len(q) = n - 1 /\ EndOf(root, q) = p[n].of
  /\ \A k \in 1..Len(q) : q[k].of # p[n].of
  /\ n = Len(p) => p = Append(q, p[n])

LEMMA PathBefore ==
  ASSUME NEW schema, NEW root, NEW p, IsPath(schema, root, p), NEW n \in 1..Len(p)
  PROVE  \E q : IsBefore(schema, root, p, n, q)
<1> DEFINE q == [k \in 1..n - 1 |-> p[k]]
<1>1. p \in Seq(Hops(schema)) /\ Len(p) \in Nat /\ n \in Nat /\ n <= Len(p) /\ n - 1 \in Nat
  BY LenIsNat DEF IsPath
<1>2. \A k \in 1..n - 1 : k \in 1..Len(p) /\ q[k] = p[k] /\ p[k] \in Hops(schema)
  BY <1>1, ElementIn
<1>3. q \in Seq(Hops(schema)) /\ Len(q) = n - 1
  <2>1. q = [k \in 1..n - 1 |-> q[k]] /\ \A k \in 1..n - 1 : q[k] \in Hops(schema)
    BY <1>2
  <2> HIDE DEF q
  <2>2. QED
    BY <1>1, <2>1, FunctionIsSeq
<1> HIDE DEF q
<1>4. IsPath(schema, root, q)
  <2>1. Len(q) > 0 => q[1].of = root
    BY <1>1, <1>2, <1>3 DEF IsPath
  <2>2. \A k \in 1..Len(q) - 1 : q[k + 1].of = q[k].model
    <3>1. TAKE k \in 1..Len(q) - 1
    <3>2. k \in 1..n - 1 /\ k + 1 \in 1..n - 1 /\ k \in 1..Len(p) - 1
      BY <1>1, <1>3
    <3>3. QED
      BY <1>2, <3>2 DEF IsPath
  <2>3. \A i, j \in 1..Len(q) : q[i].of = q[j].of => i = j
    BY <1>2, <1>3 DEF IsPath
  <2>4. QED
    BY <1>3, <2>1, <2>2, <2>3 DEF IsPath
<1>5. EndOf(root, q) = p[n].of
  <2>1. CASE n = 1
    <3>1. q = << >>
      BY <1>3, <2>1
    <3>2. QED
      BY <1>1, <2>1, <3>1 DEF EndOf, IsPath
  <2>2. CASE n # 1
    <3>1. n - 1 \in 1..n - 1 /\ n - 1 \in 1..Len(p) - 1 /\ n - 1 + 1 = n
      BY <1>1, <2>2
    <3>2. q # << >> /\ Last(q) = p[n - 1]
      BY <1>2, <1>3, <3>1 DEF Last
    <3>3. p[n].of = p[n - 1].model
      BY <3>1 DEF IsPath
    <3>4. QED
      BY <3>2, <3>3 DEF EndOf
  <2>3. QED
    BY <2>1, <2>2
<1>6. \A k \in 1..Len(q) : q[k].of # p[n].of
  <2>1. TAKE k \in 1..Len(q)
  <2>2. k \in 1..n - 1 /\ k \in 1..Len(p) /\ k # n
    BY <1>1, <1>3
  <2>3. QED
    BY <1>2, <2>2 DEF IsPath
<1>7. n = Len(p) => p = Append(q, p[n])
  <2>1. SUFFICES ASSUME n = Len(p) PROVE p = Append(q, p[n])
    OBVIOUS
  <2>2. p[n] \in Hops(schema)
    BY <1>1, ElementIn
  <2>3. /\ Append(q, p[n]) \in Seq(Hops(schema)) /\ Len(Append(q, p[n])) = n
        /\ Append(q, p[n])[n] = p[n] /\ \A k \in 1..n - 1 : Append(q, p[n])[k] = p[k]
    BY <1>1, <1>2, <1>3, <2>2
  <2>4. \A k \in 1..n : Append(q, p[n])[k] = p[k]
    BY <1>1, <2>3
  <2>5. QED
    BY <1>1, <2>1, <2>3, <2>4
<1>8. QED
  BY <1>3, <1>4, <1>5, <1>6, <1>7 DEF IsBefore

\* What is closed under fields and has a step of a path has the next ones.
LEMMA PathStaysIn ==
  ASSUME NEW schema, NEW root, NEW p, IsPath(schema, root, p), NEW n \in 1..Len(p), NEW C,
         p[n].model \in C, \A d \in C : ChildModels(schema, d) \subseteq C
  PROVE  \A k \in n..Len(p) : p[k].model \in C
<1> DEFINE N == Len(p)
           Done == {k \in 0..N : k >= n => p[k].model \in C}
<1>1. N \in Nat /\ n \in Nat \ {0} /\ p \in Seq(Hops(schema))
  BY LenIsNat DEF IsPath
<1>2. 0 \in Done
  BY <1>1
<1>3. ASSUME NEW k \in 1..N, k - 1 \in Done PROVE k \in Done
  <2>1. CASE k <= n
    BY <1>1, <2>1
  <2>2. CASE k > n
    <3>1. p[k - 1].model \in C /\ k - 1 \in 1..Len(p) - 1 /\ k - 1 + 1 = k
      BY <1>1, <1>3, <2>2
    <3>2. p[k].of = p[k - 1].model
      BY <3>1 DEF IsPath
    <3>3. p[k].model \in ChildModels(schema, p[k].of)
      BY <1>1, ElementIn, HopTells
    <3>4. p[k].model \in C
      BY <3>1, <3>2, <3>3
    <3>5. QED
      BY <3>4
  <2>3. QED
    BY <1>1, <2>1, <2>2
<1> HIDE DEF Done
<1>4. 0..N \subseteq Done
  BY <1>1, <1>2, <1>3, UpTo
<1>5. QED
  BY <1>1, <1>4 DEF Done

\* A path has no more steps than there are fields.
LEMMA NoMoreThanFields ==
  ASSUME NEW schema, IsFiniteSet(schema), NEW n \in Nat, NEW at,
         \A k \in 1..n : \E f \in schema : f.of = at[k],
         \A i, j \in 1..n : at[i] = at[j] => i = j
  PROVE  n <= Cardinality(schema) /\ Cardinality(schema) \in Nat
<1> DEFINE g == [k \in 1..n |-> CHOOSE f \in schema : f.of = at[k]]
<1>1. \A k \in 1..n : g[k] \in schema /\ g[k].of = at[k]
  OBVIOUS
<1>2. g \in [1..n -> schema]
  BY <1>1
<1>3. g \in Injection(1..n, schema)
  <2>1. DOMAIN g = 1..n
    OBVIOUS
  <2> HIDE DEF g
  <2>2. QED
    BY <1>1, <1>2, <2>1 DEF Injection, IsInjective
<1> HIDE DEF g
<1>4. Cardinality(1..n) <= Cardinality(schema)
  BY <1>3, FS_Injection
<1>5. Cardinality(1..n) = n
  BY FS_Interval
<1>6. Cardinality(schema) \in Nat
  BY FS_CardinalityType
<1>7. QED
  BY <1>4, <1>5, <1>6

LEMMA PathBounded ==
  ASSUME NEW schema, IsFiniteSet(schema), NEW root, NEW p, IsPath(schema, root, p)
  PROVE  Len(p) <= Cardinality(schema)
<1> DEFINE at == [k \in 1..Len(p) |-> p[k].of]
<1>1. Len(p) \in Nat /\ p \in Seq(Hops(schema))
  BY LenIsNat DEF IsPath
<1>2. \A k \in 1..Len(p) : at[k] = p[k].of
  OBVIOUS
<1> HIDE DEF at
<1>3. \A k \in 1..Len(p) : \E f \in schema : f.of = at[k]
  BY <1>1, <1>2, ElementIn, HopTells
<1>4. \A i, j \in 1..Len(p) : at[i] = at[j] => i = j
  BY <1>2 DEF IsPath
<1>5. QED
  BY <1>1, <1>3, <1>4, NoMoreThanFields

\* The paths by their number of steps.
LEMMA PathsUnfold ==
  ASSUME NEW schema, IsFiniteSet(schema), NEW root
  PROVE  \E ps : /\ ps[0] = {<< >>}
                 /\ \A n \in 1..Cardinality(schema) :
                      ps[n] = ps[n - 1] \cup UNION {Further(schema, root, p) : p \in ps[n - 1]}
                 /\ PathsFrom(schema, root) = ps[Cardinality(schema)]
                 /\ \A p \in PathsFrom(schema, root) : IsPath(schema, root, p)
<1> DEFINE N == Cardinality(schema)
           More(ps) == ps \cup UNION {Further(schema, root, p) : p \in ps}
           Good == {ps \in SUBSET Seq(Hops(schema)) : \A p \in ps : IsPath(schema, root, p)}
           a == {<< >>}
           step == [t \in (1..N) \X Good |-> More(t[2])]
<1>1. N \in Nat
  BY FS_CardinalityType
<1>2. a \in Good
  <2>1. << >> \in Seq(Hops(schema)) /\ Len(<< >>) = 0
    OBVIOUS
  <2>2. IsPath(schema, root, << >>)
    BY <2>1 DEF IsPath
  <2>3. QED
    BY <2>1, <2>2
<1>3. ASSUME NEW ps \in Good PROVE More(ps) \in Good
  <2>1. ASSUME NEW p \in ps, NEW q \in Further(schema, root, p) PROVE IsPath(schema, root, q)
    <3>1. IsPath(schema, root, p)
      BY <1>3
    <3>2. p \in Seq(Hops(schema)) /\ DOMAIN p = 1..Len(p)
      BY <3>1, SeqDomain DEF IsPath
    <3>3. /\ \A k \in DOMAIN p : p[k].of # EndOf(root, p)
          /\ q \in UNION {{Append(p, Step(f, c)) : c \in f.models} : f \in FieldsOf(schema, EndOf(root, p))}
      BY <2>1 DEF Further
    <3>4. PICK f \in FieldsOf(schema, EndOf(root, p)) : \E c \in f.models : q = Append(p, Step(f, c))
      BY <3>3
    <3>5. PICK c \in f.models : q = Append(p, Step(f, c))
      BY <3>4
    <3>6. f \in schema /\ f.followed /\ f.of = EndOf(root, p)
      BY <3>4 DEF FieldsOf
    <3>7. Step(f, c) \in Hops(schema) /\ Step(f, c).of = EndOf(root, p)
      BY <3>5, <3>6, HopIs DEF Step
    <3>8. QED
      BY <3>1, <3>2, <3>3, <3>5, <3>7, PathLonger
  <2>2. \A p \in More(ps) : IsPath(schema, root, p)
    BY <1>3, <2>1
  <2>3. \A p \in More(ps) : p \in Seq(Hops(schema))
    BY <2>2 DEF IsPath
  <2>4. QED
    BY <2>2, <2>3
<1>4. step \in Steps(Good, N)
  <2> HIDE DEF Good, More
  <2>1. QED
    BY <1>3 DEF Steps
<1> HIDE DEF N, Good, a
<1>5. PICK g : IsRun(g, Good, N, a, step)
  <2> HIDE DEF step
  <2>1. QED
    BY <1>1, <1>2, <1>4, Recursion
<1>6. g \in [0..N -> Good] /\ g[0] = a /\ \A k \in 1..N : g[k] = More(g[k - 1])
  <2>1. g \in [0..N -> Good] /\ g[0] = a /\ \A k \in 1..N : g[k] = step[<<k, g[k - 1]>>]
    BY <1>5 DEF IsRun
  <2>2. ASSUME NEW k \in 1..N PROVE g[k] = More(g[k - 1])
    <3>1. k - 1 \in 0..N
      BY <1>1
    <3>2. <<k, g[k - 1]>> \in (1..N) \X Good
      BY <2>1, <3>1
    <3> HIDE DEF More
    <3>3. step[<<k, g[k - 1]>>] = More(g[k - 1])
      BY <3>2
    <3>4. QED
      BY <2>1, <3>3
  <2>3. QED
    BY <2>1, <2>2
<1> DEFINE Rec(h) == h = [k \in 0..N |-> IF k = 0 THEN a ELSE More(h[k - 1])]
           ps == CHOOSE h : Rec(h)
<1>7. Rec(ps)
  <2> HIDE DEF More
  <2>1. \A k \in 0..N : g[k] = IF k = 0 THEN a ELSE More(g[k - 1])
    <3>1. TAKE k \in 0..N
    <3>2. k # 0 => k \in 1..N
      BY <1>1
    <3>3. QED
      BY <1>6, <3>2
  <2>2. Rec(g)
    BY <1>6, <2>1
  <2>3. QED
    BY <2>2
<1>8. PathsFrom(schema, root) = ps[N]
  BY DEF PathsFrom, N, a
<1> HIDE DEF ps
<1>9. ps[0] = a /\ \A k \in 1..N : ps[k] = More(ps[k - 1])
  <2> HIDE DEF More
  <2>1. 0 \in 0..N /\ \A k \in 1..N : k \in 0..N /\ k # 0
    BY <1>1
  <2>2. QED
    BY <1>7, <2>1
<1>10. ps[N] \in Good
  <2> DEFINE Done == {k \in 0..N : ps[k] \in Good}
  <2>1. 0 \in Done
    BY <1>1, <1>2, <1>9
  <2>2. \A k \in 1..N : k - 1 \in Done => k \in Done
    <3> HIDE DEF More
    <3>1. QED
      BY <1>3, <1>9
  <2> HIDE DEF Done
  <2>3. 0..N \subseteq Done
    BY <1>1, <2>1, <2>2, UpTo
  <2>4. N \in 0..N
    BY <1>1
  <2>5. QED
    BY <2>3, <2>4 DEF Done
<1>11. \A p \in PathsFrom(schema, root) : IsPath(schema, root, p)
  BY <1>8, <1>10 DEF Good
<1>12. QED
  BY <1>8, <1>9, <1>11 DEF N, a

\* The paths found are all the paths.
LEMMA PathsAre ==
  ASSUME NEW schema, IsFiniteSet(schema), NEW root
  PROVE  \A p : p \in PathsFrom(schema, root) <=> IsPath(schema, root, p)
<1> DEFINE N == Cardinality(schema)
<1>1. PICK ps : /\ ps[0] = {<< >>}
                /\ \A n \in 1..N : ps[n] = ps[n - 1] \cup UNION {Further(schema, root, p) : p \in ps[n - 1]}
                /\ PathsFrom(schema, root) = ps[N]
                /\ \A p \in PathsFrom(schema, root) : IsPath(schema, root, p)
  BY PathsUnfold
<1>2. N \in Nat
  BY FS_CardinalityType
<1> HIDE DEF N
<1>3. \A p : IsPath(schema, root, p) => Len(p) <= N
  BY PathBounded DEF N
<1> DEFINE Done == {n \in 0..N : \A p : IsPath(schema, root, p) /\ Len(p) <= n => p \in ps[n]}
<1>4. 0 \in Done
  <2>1. ASSUME NEW p, IsPath(schema, root, p), Len(p) <= 0 PROVE p \in ps[0]
    <3>1. p \in Seq(Hops(schema)) /\ Len(p) \in Nat
      BY <2>1, LenIsNat DEF IsPath
    <3>2. p = << >>
      BY <2>1, <3>1
    <3>3. QED
      BY <1>1, <3>2
  <2>2. QED
    BY <1>2, <2>1
<1>5. ASSUME NEW n \in 1..N, n - 1 \in Done PROVE n \in Done
  <2>1. SUFFICES ASSUME NEW p, IsPath(schema, root, p), Len(p) <= n PROVE p \in ps[n]
    BY <1>2
  <2>2. Len(p) \in Nat /\ p \in Seq(Hops(schema))
    BY <2>1, LenIsNat DEF IsPath
  <2>3. CASE Len(p) <= n - 1
    BY <1>1, <1>5, <2>1, <2>3
  <2>4. CASE Len(p) = n
    <3>1. n \in 1..Len(p)
      BY <1>2, <2>4
    <3>2. PICK q : IsBefore(schema, root, p, n, q)
      BY <2>1, <3>1, PathBefore
    <3>3. /\ IsPath(schema, root, q) /\ Len(q) = n - 1 /\ EndOf(root, q) = p[n].of
          /\ \A k \in 1..Len(q) : q[k].of # p[n].of
          /\ p = Append(q, p[n])
      BY <2>4, <3>2 DEF IsBefore
    <3>4. q \in ps[n - 1]
      BY <1>2, <1>5, <3>3
    <3>5. DOMAIN q = 1..Len(q)
      BY <3>3, SeqDomain DEF IsPath
    <3>6. p[n] \in Hops(schema)
      BY <2>2, <3>1, ElementIn
    <3>7. PICK f \in schema : f.followed /\ \E c \in f.models : p[n] = Step(f, c)
      BY <3>6, HopIs
    <3>8. PICK c \in f.models : p[n] = Step(f, c)
      BY <3>7
    <3>9. f \in FieldsOf(schema, EndOf(root, q))
      BY <3>3, <3>7, <3>8 DEF FieldsOf, Step
    <3>10. ~\E k \in DOMAIN q : q[k].of = EndOf(root, q)
      BY <3>3, <3>5
    <3>11. p \in UNION {{Append(q, Step(g, d)) : d \in g.models} : g \in FieldsOf(schema, EndOf(root, q))}
      <4>1. p = Append(q, Step(f, c))
        <5>1. p = Append(q, p[n])
          BY <3>3, Zenon
        <5>2. p[n] = Step(f, c)
          BY <3>8
        <5>3. QED
          BY <5>1, <5>2, Zenon
      <4> DEFINE M == FieldsOf(schema, EndOf(root, q))
      <4>2. f \in M
        BY <3>9
      <4> HIDE DEF M
      <4>3. p \in UNION {{Append(q, Step(g, d)) : d \in g.models} : g \in M}
        BY <3>8, <4>1, <4>2
      <4>4. QED
        BY <4>3 DEF M
    <3>12. p \in Further(schema, root, q)
      BY <3>10, <3>11 DEF Further
    <3>13. QED
      BY <1>1, <3>4, <3>12
  <2>5. QED
    BY <1>2, <2>1, <2>2, <2>3, <2>4
<1> HIDE DEF Done
<1>6. 0..N \subseteq Done
  BY <1>2, <1>4, <1>5, UpTo
<1>7. \A p : IsPath(schema, root, p) => p \in PathsFrom(schema, root)
  BY <1>1, <1>2, <1>3, <1>6 DEF Done
<1>8. QED
  BY <1>1, <1>7

-----------------------------------------------------------------------------
(* What a model leads to.                                                  *)

Closed(schema, C) == \A d \in C : ChildModels(schema, d) \subseteq C

AllModels(schema, m) == {m} \cup UNION {f.models : f \in schema}

LEMMA ReachedIs ==
  ASSUME NEW schema, NEW m, NEW c
  PROVE  c \in Reached(schema, m) <=>
           c \in AllModels(schema, m)
           /\ \A C \in SUBSET AllModels(schema, m) : m \in C /\ Closed(schema, C) => c \in C
BY DEF Reached, AllModels, Closed

LEMMA StepEnds ==
  ASSUME NEW schema, NEW h \in Hops(schema)
  PROVE  h.model \in UNION {f.models : f \in schema}
BY HopTells

LEMMA EndIs ==
  ASSUME NEW schema, NEW root, NEW p, IsPath(schema, root, p)
  PROVE  /\ p = << >> => EndOf(root, p) = root /\ Len(p) = 0
         /\ p # << >> => /\ Len(p) \in 1..Len(p) /\ Len(p) > 0
                        /\ Last(p) = p[Len(p)] /\ EndOf(root, p) = p[Len(p)].model
         /\ EndOf(root, p) \in AllModels(schema, root)
         /\ p \in Seq(Hops(schema)) /\ Len(p) \in Nat
<1>1. p \in Seq(Hops(schema)) /\ Len(p) \in Nat
  BY LenIsNat DEF IsPath
<1>2. p = << >> => EndOf(root, p) = root /\ Len(p) = 0
  BY DEF EndOf
<1>3. p # << >> => Len(p) \in 1..Len(p) /\ Len(p) > 0
  BY <1>1
<1>4. Last(p) = p[Len(p)]
  BY DEF Last
<1>5. p # << >> => EndOf(root, p) = p[Len(p)].model
  BY <1>4 DEF EndOf
<1>6. EndOf(root, p) \in AllModels(schema, root)
  BY <1>1, <1>2, <1>3, <1>5, ElementIn, StepEnds DEF AllModels
<1>7. QED
  BY <1>1, <1>2, <1>3, <1>4, <1>5, <1>6

\* A path ends where a path ends that can go on.
LEMMA PathOnward ==
  ASSUME NEW schema, NEW root, NEW p, IsPath(schema, root, p)
  PROVE  \E q : /\ IsPath(schema, root, q) /\ EndOf(root, q) = EndOf(root, p)
                /\ \A k \in 1..Len(q) : q[k].of # EndOf(root, q)
<1>1. CASE \A k \in 1..Len(p) : p[k].of # EndOf(root, p)
  BY <1>1
<1>2. CASE \E k \in 1..Len(p) : p[k].of = EndOf(root, p)
  <2>1. PICK k \in 1..Len(p) : p[k].of = EndOf(root, p)
    BY <1>2
  <2>2. PICK q : /\ IsPath(schema, root, q) /\ EndOf(root, q) = p[k].of
                 /\ \A i \in 1..Len(q) : q[i].of # p[k].of
    BY PathBefore DEF IsBefore
  <2>3. QED
    BY <2>1, <2>2
<1>3. QED
  BY <1>1, <1>2

\* The models with paths are those that the root leads to.
LEMMA EndsReached ==
  ASSUME NEW schema, NEW root, NEW c
  PROVE  c \in Reached(schema, root) <=> \E p : IsPath(schema, root, p) /\ EndOf(root, p) = c
<1> DEFINE PathEnds == {d \in AllModels(schema, root) : \E p : IsPath(schema, root, p) /\ EndOf(root, p) = d}
<1>1. ASSUME NEW p, IsPath(schema, root, p) PROVE EndOf(root, p) \in Reached(schema, root)
  <2>1. ASSUME NEW C, root \in C, Closed(schema, C) PROVE EndOf(root, p) \in C
    <3>1. CASE p = << >>
      BY <1>1, <2>1, <3>1, EndIs
    <3>2. CASE p # << >>
      <4>1. /\ Len(p) \in 1..Len(p) /\ 1 \in 1..Len(p) /\ Len(p) \in 1..Len(p) /\ Len(p) > 0
            /\ EndOf(root, p) = p[Len(p)].model /\ p \in Seq(Hops(schema))
        <5>1. Len(p) \in Nat /\ Len(p) > 0 /\ EndOf(root, p) = p[Len(p)].model /\ p \in Seq(Hops(schema))
          BY <1>1, <3>2, EndIs
        <5>2. QED
          BY <5>1
      <4>2. p[1].of = root
        BY <1>1, <4>1 DEF IsPath
      <4>3. p[1].model \in C
        BY <2>1, <4>1, <4>2, ElementIn, HopTells DEF Closed
      <4>4. \A k \in 1..Len(p) : p[k].model \in C
        BY <1>1, <2>1, <4>1, <4>3, PathStaysIn DEF Closed
      <4>5. QED
        BY <4>1, <4>4
    <3>3. QED
      BY <3>1, <3>2
  <2>2. EndOf(root, p) \in AllModels(schema, root)
    BY <1>1, EndIs
  <2>3. QED
    BY <2>1, <2>2, ReachedIs
<1>2. root \in PathEnds
  <2>1. IsPath(schema, root, << >>)
    <3>1. << >> \in Seq(Hops(schema)) /\ Len(<< >>) = 0
      OBVIOUS
    <3>2. QED
      BY <3>1 DEF IsPath
  <2>2. EndOf(root, << >>) = root
    BY DEF EndOf
  <2>3. QED
    BY <2>1, <2>2 DEF AllModels
<1>3. Closed(schema, PathEnds)
  <2>1. SUFFICES ASSUME NEW d \in PathEnds, NEW e \in ChildModels(schema, d) PROVE e \in PathEnds
    BY DEF Closed
  <2>2. PICK p : IsPath(schema, root, p) /\ EndOf(root, p) = d
    BY <2>1
  <2>3. PICK q : /\ IsPath(schema, root, q) /\ EndOf(root, q) = d
                 /\ \A k \in 1..Len(q) : q[k].of # EndOf(root, q)
    BY <2>2, PathOnward
  <2>4. PICK f \in FieldsOf(schema, d) : /\ Step(f, e) \in Hops(schema)
                                         /\ Step(f, e).of = d /\ Step(f, e).model = e
    BY HopAlong
  <2>5. /\ IsPath(schema, root, Append(q, Step(f, e)))
        /\ EndOf(root, Append(q, Step(f, e))) = Step(f, e).model
    BY <2>3, <2>4, PathLonger
  <2>6. e \in AllModels(schema, root)
    BY <2>4, <2>5, EndIs
  <2>7. QED
    BY <2>4, <2>5, <2>6
<1>4. c \in Reached(schema, root) => c \in PathEnds
  BY <1>2, <1>3, ReachedIs
<1>5. QED
  BY <1>1, <1>4

-----------------------------------------------------------------------------
(* The walks to a model by its parents.                                    *)

IsWalk(schema, root, w) ==
  /\ w \in Seq(AllModels(schema, root)) /\ Len(w) > 0 /\ w[1] = root
  /\ \A k \in 1..Len(w) - 1 : w[k + 1] \in ChildModels(schema, w[k])
  /\ \A i, j \in 2..Len(w) : w[i] = w[j] => i = j

LEMMA WalksUnfold ==
  ASSUME NEW schema, IsFiniteSet(schema), NEW root
  PROVE  \E ws : /\ ws[0] = {<<root>>}
                 /\ \A n \in 1..Cardinality(schema) + 1 :
                      ws[n] = ws[n - 1] \cup UNION {WalkedFurther(schema, w) : w \in ws[n - 1]}
                 /\ Walks(schema, root) = ws[Cardinality(schema) + 1]
<1> DEFINE N == Cardinality(schema) + 1
           M == AllModels(schema, root)
           More(ws) == ws \cup UNION {WalkedFurther(schema, w) : w \in ws}
           Good == SUBSET (Seq(M) \ {<< >>})
           a == {<<root>>}
           step == [t \in (1..N) \X Good |-> More(t[2])]
<1>1. N \in Nat
  <2>1. Cardinality(schema) \in Nat
    BY FS_CardinalityType
  <2>2. QED
    BY <2>1
<1>2. a \in Good
  BY DEF AllModels
<1>3. ASSUME NEW ws \in Good PROVE More(ws) \in Good
  <2>1. ASSUME NEW w \in ws, NEW v \in WalkedFurther(schema, w) PROVE v \in Seq(M) \ {<< >>}
    <3>1. PICK c \in ChildModels(schema, Last(w)) : v = Append(w, c)
      BY <2>1 DEF WalkedFurther
    <3>2. c \in M
      BY DEF ChildModels, FieldsOf, AllModels
    <3>3. w \in Seq(M)
      BY <1>3
    <3> HIDE DEF M
    <3>4. QED
      BY <3>1, <3>2, <3>3
  <2> HIDE DEF M
  <2>2. QED
    BY <1>3, <2>1
<1>4. step \in Steps(Good, N)
  <2> HIDE DEF Good, More
  <2>1. QED
    BY <1>3 DEF Steps
<1> HIDE DEF N, Good, a
<1>5. PICK g : IsRun(g, Good, N, a, step)
  <2> HIDE DEF step
  <2>1. QED
    BY <1>1, <1>2, <1>4, Recursion
<1>6. g \in [0..N -> Good] /\ g[0] = a /\ \A k \in 1..N : g[k] = More(g[k - 1])
  <2>1. g \in [0..N -> Good] /\ g[0] = a /\ \A k \in 1..N : g[k] = step[<<k, g[k - 1]>>]
    BY <1>5 DEF IsRun
  <2>2. ASSUME NEW k \in 1..N PROVE g[k] = More(g[k - 1])
    <3>1. k - 1 \in 0..N
      BY <1>1
    <3>2. <<k, g[k - 1]>> \in (1..N) \X Good
      BY <2>1, <3>1
    <3> HIDE DEF More
    <3>3. step[<<k, g[k - 1]>>] = More(g[k - 1])
      BY <3>2
    <3>4. QED
      BY <2>1, <3>3
  <2>3. QED
    BY <2>1, <2>2
<1> DEFINE Rec(h) == h = [k \in 0..N |-> IF k = 0 THEN a ELSE More(h[k - 1])]
           ws == CHOOSE h : Rec(h)
<1>7. Rec(ws)
  <2> HIDE DEF More
  <2>1. \A k \in 0..N : g[k] = IF k = 0 THEN a ELSE More(g[k - 1])
    <3>1. TAKE k \in 0..N
    <3>2. k # 0 => k \in 1..N
      BY <1>1
    <3>3. QED
      BY <1>6, <3>2
  <2>2. Rec(g)
    BY <1>6, <2>1
  <2>3. QED
    BY <2>2
<1>8. Walks(schema, root) = ws[N]
  BY DEF Walks, N, a
<1> HIDE DEF ws
<1>9. ws[0] = a /\ \A k \in 1..N : ws[k] = More(ws[k - 1])
  <2> HIDE DEF More
  <2>1. 0 \in 0..N /\ \A k \in 1..N : k \in 0..N /\ k # 0
    BY <1>1
  <2>2. QED
    BY <1>7, <2>1
<1>10. QED
  BY <1>8, <1>9 DEF N, a

\* A walk is a shorter one and a child of where that ends.
LEMMA WalkBefore ==
  ASSUME NEW schema, NEW root, NEW w, IsWalk(schema, root, w), Len(w) # 1
  PROVE  /\ IsWalk(schema, root, Front(w)) /\ Len(Front(w)) = Len(w) - 1
         /\ w \in WalkedFurther(schema, Front(w))
         /\ Last(Front(w)) = w[Len(w) - 1] /\ Last(w) = w[Len(w)]
<1> DEFINE v == Front(w)
           n == Len(w)
<1>1. w \in Seq(AllModels(schema, root)) /\ n \in Nat /\ n > 1 /\ w # << >>
  <2>1. w \in Seq(AllModels(schema, root)) /\ Len(w) > 0 /\ Len(w) \in Nat
    BY LenIsNat DEF IsWalk
  <2>2. w # << >>
    BY <2>1
  <2>3. QED
    BY <2>1, <2>2
<1>2. /\ v \in Seq(AllModels(schema, root)) /\ Len(v) = n - 1 /\ Last(w) = w[n]
      /\ \A k \in 1..n - 1 : v[k] = w[k]
  BY <1>1, FrontIs
<1> HIDE DEF v, n
<1>3. IsWalk(schema, root, v)
  <2>1. v[1] = root
    BY <1>1, <1>2 DEF IsWalk
  <2>2. \A k \in 1..Len(v) - 1 : v[k + 1] \in ChildModels(schema, v[k])
    <3>1. TAKE k \in 1..Len(v) - 1
    <3>2. k \in 1..n - 1 /\ k + 1 \in 1..n - 1
      BY <1>1, <1>2
    <3>3. QED
      BY <1>2, <3>2 DEF IsWalk, n
  <2>3. \A i, j \in 2..Len(v) : v[i] = v[j] => i = j
    <3>1. \A i \in 2..Len(v) : i \in 2..n /\ i \in 1..n - 1
      BY <1>1, <1>2
    <3>2. QED
      BY <1>2, <3>1 DEF IsWalk, n
  <2>4. QED
    BY <1>1, <1>2, <2>1, <2>2, <2>3 DEF IsWalk
<1>4. Last(v) = w[n - 1]
  BY <1>1, <1>2 DEF Last
<1>5. w[n] \in ChildModels(schema, Last(v))
  <2>1. n - 1 \in 1..n - 1 /\ n - 1 + 1 = n
    BY <1>1
  <2>2. QED
    BY <1>4, <2>1 DEF IsWalk, n
<1>6. w[n] \notin ToSet(Tail(v))
  <2>1. SUFFICES ASSUME w[n] \in ToSet(Tail(v)) PROVE FALSE
    OBVIOUS
  <2>2. v # << >>
    BY <1>1, <1>2
  <2>3. Tail(v) \in Seq(AllModels(schema, root)) /\ Len(Tail(v)) = n - 2 /\ \A k \in 1..n - 2 : Tail(v)[k] = v[k + 1]
    BY <1>1, <1>2, <2>2
  <2>4. PICK k \in 1..n - 2 : w[n] = Tail(v)[k]
    <3> DEFINE t == Tail(v)
    <3>1. w[n] \in ToSet(t) /\ t \in Seq(AllModels(schema, root)) /\ Len(t) = n - 2
      BY <2>1, <2>3
    <3> HIDE DEF t
    <3>2. \E k \in 1..Len(t) : w[n] = t[k]
      BY <3>1, PathSet
    <3>3. QED
      BY <3>1, <3>2 DEF t
  <2>5. k + 1 \in 1..n - 1 /\ k + 1 \in 2..n /\ n \in 2..n /\ k + 1 # n
    BY <1>1
  <2>6. w[n] = w[k + 1]
    BY <1>2, <2>3, <2>4, <2>5
  <2>7. QED
    BY <2>5, <2>6 DEF IsWalk, n
<1>7. w = Append(v, w[n])
  <2>1. w[n] \in AllModels(schema, root)
    BY <1>1, ElementIn DEF n
  <2>2. /\ Append(v, w[n]) \in Seq(AllModels(schema, root)) /\ Len(Append(v, w[n])) = n
        /\ Append(v, w[n])[n] = w[n] /\ \A k \in 1..n - 1 : Append(v, w[n])[k] = w[k]
    BY <1>1, <1>2, <2>1
  <2>3. \A k \in 1..n : Append(v, w[n])[k] = w[k]
    BY <1>1, <2>2
  <2>4. QED
    BY <1>1, <2>2, <2>3 DEF n
<1>8. w \in WalkedFurther(schema, v)
  BY <1>5, <1>6, <1>7 DEF WalkedFurther
<1>9. QED
  BY <1>2, <1>3, <1>4, <1>8 DEF v, n

LEMMA WalkBounded ==
  ASSUME NEW schema, IsFiniteSet(schema), NEW root, NEW w, IsWalk(schema, root, w)
  PROVE  Len(w) - 1 <= Cardinality(schema) + 1
<1>1. Len(w) \in Nat /\ Len(w) > 0 /\ Cardinality(schema) \in Nat
  BY LenIsNat, FS_CardinalityType DEF IsWalk
<1>2. CASE Len(w) <= 2
  BY <1>1, <1>2
<1>3. CASE Len(w) > 2
  <2> DEFINE n == Len(w) - 2
             at == [k \in 1..n |-> w[k + 1]]
  <2>1. n \in Nat
    BY <1>1, <1>3
  <2>2. \A k \in 1..n : k + 1 \in 1..Len(w) - 1 /\ k + 1 \in 2..Len(w)
    BY <1>1
  <2>3. \A k \in 1..n : at[k] = w[k + 1]
    OBVIOUS
  <2> HIDE DEF at
  <2>4. \A k \in 1..n : \E f \in schema : f.of = at[k]
    <3>1. TAKE k \in 1..n
    <3>2. w[k + 1 + 1] \in ChildModels(schema, at[k])
      BY <2>2, <2>3 DEF IsWalk
    <3>3. QED
      BY <3>2 DEF ChildModels, FieldsOf
  <2>5. \A i, j \in 1..n : at[i] = at[j] => i = j
    <3>1. SUFFICES ASSUME NEW i \in 1..n, NEW j \in 1..n, at[i] = at[j] PROVE i = j
      OBVIOUS
    <3>2. i + 1 = j + 1
      BY <2>2, <2>3, <3>1 DEF IsWalk
    <3>3. QED
      BY <2>1, <3>2
  <2> HIDE DEF n
  <2>6. n <= Cardinality(schema)
    BY <2>1, <2>4, <2>5, NoMoreThanFields
  <2>7. QED
    BY <1>1, <2>1, <2>6 DEF n
<1>4. QED
  BY <1>1, <1>2, <1>3

\* All the walks are walked.
LEMMA WalksAre ==
  ASSUME NEW schema, IsFiniteSet(schema), NEW root, NEW w, IsWalk(schema, root, w)
  PROVE  w \in Walks(schema, root)
<1> DEFINE N == Cardinality(schema) + 1
<1>1. PICK ws : /\ ws[0] = {<<root>>}
                /\ \A n \in 1..N : ws[n] = ws[n - 1] \cup UNION {WalkedFurther(schema, v) : v \in ws[n - 1]}
                /\ Walks(schema, root) = ws[N]
  BY WalksUnfold
<1>2. N \in Nat
  <2>1. Cardinality(schema) \in Nat
    BY FS_CardinalityType
  <2>2. QED
    BY <2>1
<1> HIDE DEF N
<1> DEFINE Done == {n \in 0..N : \A v : IsWalk(schema, root, v) /\ Len(v) - 1 <= n => v \in ws[n]}
<1>3. 0 \in Done
  <2>1. ASSUME NEW v, IsWalk(schema, root, v), Len(v) - 1 <= 0 PROVE v \in ws[0]
    <3>1. v \in Seq(AllModels(schema, root)) /\ Len(v) \in Nat /\ Len(v) > 0 /\ v[1] = root
      BY <2>1, LenIsNat DEF IsWalk
    <3>2. Len(v) = 1
      <4>1. Len(v) - 1 <= 0
        BY <2>1
      <4>2. Len(v) \in Nat /\ Len(v) > 0
        BY <3>1
      <4> DEFINE l == Len(v)
      <4> HIDE DEF l, Done
      <4>3. l - 1 <= 0 /\ l \in Nat /\ l > 0
        BY <4>1, <4>2 DEF l
      <4>4. l = 1
        BY <4>3
      <4>5. QED
        BY <4>4 DEF l
    <3>3. v = <<root>>
      BY <3>1, <3>2
    <3>4. QED
      BY <1>1, <3>3
  <2>2. QED
    BY <1>2, <2>1
<1>4. ASSUME NEW n \in 1..N, n - 1 \in Done PROVE n \in Done
  <2>1. SUFFICES ASSUME NEW v, IsWalk(schema, root, v), Len(v) - 1 <= n PROVE v \in ws[n]
    BY <1>2
  <2>2. Len(v) \in Nat /\ n \in Nat
    BY <1>2, <2>1, LenIsNat DEF IsWalk
  <2>3. CASE Len(v) - 1 <= n - 1
    BY <1>1, <1>4, <2>1, <2>3
  <2>4. CASE Len(v) - 1 = n
    <3>1. Len(v) # 1
      BY <1>2, <2>4
    <3>2. /\ IsWalk(schema, root, Front(v)) /\ Len(Front(v)) = Len(v) - 1
          /\ v \in WalkedFurther(schema, Front(v))
      BY <2>1, <3>1, WalkBefore
    <3>3. Front(v) \in ws[n - 1]
      BY <1>4, <2>2, <2>4, <3>2
    <3>4. QED
      BY <1>1, <3>2, <3>3
  <2>5. QED
    BY <2>1, <2>2, <2>3, <2>4
<1> HIDE DEF Done
<1>5. 0..N \subseteq Done
  BY <1>2, <1>3, <1>4, UpTo
<1>6. N \in Done /\ Len(w) - 1 <= N
  BY <1>2, <1>5, WalkBounded DEF N
<1>7. QED
  BY <1>1, <1>6 DEF Done

-----------------------------------------------------------------------------
(* The files of the fields.                                                *)

\* A field of a model on a path to it makes the model a parent.
LEMMA ParentFound ==
  ASSUME NEW schema, IsFiniteSet(schema), NEW root, NEW f \in schema, NEW m \in f.models,
         f.followed, f.of \in Reached(schema, root), f.of \notin Reached(schema, m)
  PROVE  f.of \in Parents(schema, root, m)
<1>1. PICK o : IsPath(schema, root, o) /\ EndOf(root, o) = f.of
  BY EndsReached
<1>2. PICK p : /\ IsPath(schema, root, p) /\ EndOf(root, p) = f.of
               /\ \A k \in 1..Len(p) : p[k].of # EndOf(root, p)
  BY <1>1, PathOnward
<1> DEFINE n == Len(p)
           w == [k \in 1..n + 2 |-> IF k = 1 THEN root ELSE IF k = n + 2 THEN m ELSE p[k - 1].model]
<1>3. p \in Seq(Hops(schema)) /\ n \in Nat
  BY <1>2, LenIsNat DEF IsPath
<1>4. w[1] = root /\ w[n + 2] = m /\ \A k \in 1..n : w[k + 1] = p[k].model
  BY <1>3
<1>5. \A k \in 1..n : p[k] \in Hops(schema)
  BY <1>3, ElementIn
<1>6. w \in Seq(AllModels(schema, root)) /\ Len(w) = n + 2
  <2>1. m \in AllModels(schema, root) /\ root \in AllModels(schema, root)
    BY DEF AllModels
  <2>2. \A k \in 1..n : p[k].model \in AllModels(schema, root)
    BY <1>5, StepEnds DEF AllModels
  <2>3. \A k \in 1..n + 2 : w[k] \in AllModels(schema, root)
    <3>1. TAKE k \in 1..n + 2
    <3>2. k = 1 \/ k = n + 2 \/ (k - 1 \in 1..n /\ k - 1 + 1 = k)
      BY <1>3
    <3> HIDE DEF w, n
    <3>3. QED
      BY <1>4, <2>1, <2>2, <3>2
  <2>4. w = [k \in 1..n + 2 |-> w[k]] /\ n + 2 \in Nat
    BY <1>3
  <2> HIDE DEF w
  <2>5. QED
    BY <2>3, <2>4, FunctionIsSeq
<1>7. w[n + 1] = f.of
  <2>1. CASE p = << >>
    BY <1>2, <1>4, <2>1, EndIs
  <2>2. CASE p # << >>
    <3>1. n \in 1..n /\ EndOf(root, p) = p[n].model
      BY <1>2, <2>2, EndIs
    <3> HIDE DEF w, n
    <3>2. QED
      BY <1>2, <1>4, <3>1
  <2>3. QED
    BY <2>1, <2>2
<1> HIDE DEF w
<1>8. \A k \in 1..n : p[k].model # m
  <2>1. SUFFICES ASSUME NEW k \in 1..n, p[k].model = m PROVE FALSE
    OBVIOUS
  <2>2. p # << >> /\ n \in 1..n /\ n \in k..n
    <3>1. n > 0 /\ n \in k..n /\ n \in 1..n
      BY <1>3
    <3>2. QED
      BY <3>1
  <2>3. EndOf(root, p) = p[n].model
    BY <1>2, <2>2, EndIs
  <2>4. ASSUME NEW C, m \in C, Closed(schema, C) PROVE f.of \in C
    <3>1. \A i \in k..n : p[i].model \in C
      BY <1>2, <2>1, <2>4, PathStaysIn DEF Closed
    <3>2. QED
      BY <1>2, <2>2, <2>3, <3>1
  <2>5. f.of \in AllModels(schema, m)
    BY <1>2, <1>5, <2>2, <2>3, StepEnds DEF AllModels
  <2>6. f.of \in Reached(schema, m)
    BY <2>4, <2>5, ReachedIs
  <2>7. QED
    BY <2>6
<1>9. \A k \in 1..Len(w) - 1 : w[k + 1] \in ChildModels(schema, w[k])
  <2>1. TAKE k \in 1..Len(w) - 1
  <2>2. CASE k = n + 1
    <3>1. f \in FieldsOf(schema, f.of)
      BY DEF FieldsOf
    <3>2. m \in ChildModels(schema, f.of)
      BY <3>1 DEF ChildModels
    <3>3. k + 1 = n + 2
      BY <1>3, <2>2
    <3>4. QED
      BY <1>4, <1>7, <2>2, <3>2, <3>3
  <2>3. CASE k # n + 1
    <3>1. k \in 1..n
      BY <1>3, <1>6, <2>3
    <3>2. w[k] = p[k].of
      <4>1. CASE k = 1
        BY <1>2, <1>3, <1>4, <3>1, <4>1 DEF IsPath
      <4>2. CASE k # 1
        <5>1. k - 1 \in 1..n /\ k - 1 \in 1..Len(p) - 1 /\ k - 1 + 1 = k
          BY <1>3, <3>1, <4>2
        <5>2. p[k].of = p[k - 1].model
          BY <1>2, <5>1 DEF IsPath
        <5>3. w[k] = p[k - 1].model
          BY <1>4, <5>1
        <5>4. QED
          BY <5>2, <5>3
      <4>3. QED
        BY <4>1, <4>2
    <3>3. p[k].model \in ChildModels(schema, p[k].of)
      BY <1>5, <3>1, HopTells
    <3>4. QED
      BY <1>4, <3>1, <3>2, <3>3
  <2>4. QED
    BY <2>2, <2>3
\* The model after a step is where the next one is from.
<1>10. ASSUME NEW i \in 1..n, NEW j \in 1..n, p[i].model = p[j].model, i < j PROVE FALSE
  <2>1. i \in 1..Len(p) - 1 /\ i + 1 \in 1..n /\ i + 1 # j + 1
    BY <1>3, <1>10
  <2>2. p[i + 1].of = p[i].model
    BY <1>2, <2>1 DEF IsPath
  <2>3. CASE j = n
    <3>1. p # << >>
      BY <1>3, <1>10
    <3>2. EndOf(root, p) = p[n].model
      BY <1>2, <3>1, EndIs
    <3>3. QED
      BY <1>2, <1>10, <2>1, <2>2, <2>3, <3>2
  <2>4. CASE j # n
    <3>1. j \in 1..Len(p) - 1 /\ j + 1 \in 1..n
      BY <1>3, <2>4
    <3>2. p[j + 1].of = p[j].model
      BY <1>2, <3>1 DEF IsPath
    <3>3. i + 1 = j + 1
      BY <1>2, <1>10, <2>1, <2>2, <3>1, <3>2 DEF IsPath
    <3>4. QED
      BY <2>1, <3>3
  <2>5. QED
    BY <2>3, <2>4
<1>11. \A i, j \in 2..Len(w) : w[i] = w[j] => i = j
  <2>1. SUFFICES ASSUME NEW i \in 2..Len(w), NEW j \in 2..Len(w), w[i] = w[j] PROVE i = j
    OBVIOUS
  <2>2. ASSUME NEW k \in 2..Len(w) PROVE k = n + 2 \/ (k - 1 \in 1..n /\ w[k] = p[k - 1].model)
    <3>1. k = n + 2 \/ (k - 1 \in 1..n /\ k - 1 + 1 = k)
      BY <1>3, <1>6
    <3>2. QED
      BY <1>4, <3>1
  <2>3. CASE i = n + 2 /\ j = n + 2
    BY <2>3
  <2>4. CASE i # n + 2 /\ j # n + 2
    <3>1. i - 1 \in 1..n /\ j - 1 \in 1..n /\ p[i - 1].model = p[j - 1].model
      BY <2>1, <2>2, <2>4
    <3>2. ~(i - 1 < j - 1) /\ ~(j - 1 < i - 1)
      BY <1>10, <3>1
    <3>3. QED
      BY <1>3, <3>1, <3>2
  <2>5. ~(i = n + 2 /\ j # n + 2) /\ ~(i # n + 2 /\ j = n + 2)
    BY <1>4, <1>8, <2>1, <2>2
  <2>6. QED
    BY <2>3, <2>4, <2>5
<1>12. IsWalk(schema, root, w)
  <2>1. Len(w) > 0
    BY <1>3, <1>6
  <2>2. QED
    BY <1>4, <1>6, <1>9, <1>11, <2>1 DEF IsWalk
<1>13. Len(w) # 1
  BY <1>3, <1>6
<1>14. Last(Front(w)) = f.of /\ Last(w) = m
  <2>1. Last(Front(w)) = w[Len(w) - 1] /\ Last(w) = w[Len(w)]
    BY <1>12, <1>13, WalkBefore
  <2>2. Len(w) - 1 = n + 1
    BY <1>3, <1>6
  <2>3. QED
    BY <1>4, <1>6, <1>7, <2>1, <2>2
<1>15. w \in Walks(schema, root) \ {<<root>>}
  <2>1. Len(<<root>>) = 1
    OBVIOUS
  <2>2. QED
    BY <1>12, <1>13, <2>1, WalksAre
<1>16. <<f.of, m>> \in Edges(schema, root)
  BY <1>14, <1>15 DEF Edges
<1>17. QED
  BY <1>16 DEF Parents

\* The models have places in the order by name.
Alphabet(schema, before) == \A f \in schema : before[f.of] \in Nat

\* Of parents with an external field of the name one of these is taken.
LEMMA ExternalTaken ==
  ASSUME NEW schema, NEW root, NEW f \in schema, NEW m, NEW before,
         Alphabet(schema, before),
         f.of \in Parents(schema, root, m), f.output # {}
  PROVE  \E g \in ParentField(schema, root, m, f.name, before) :
           g \in schema /\ g.name = f.name /\ g.output # {}
<1> DEFINE external == {g \in FieldsNamed(schema, root, m, f.name) : g.output # {}}
           places   == {before[g.of] : g \in external}
<1>1. f \in external
  BY DEF FieldsNamed
<1>2. \A g \in external : g \in schema /\ g.name = f.name /\ g.output # {}
  BY DEF FieldsNamed
<1> HIDE DEF external
<1>3. places \subseteq Nat /\ places # {}
  BY <1>1, <1>2 DEF Alphabet
<1>4. PICK n \in places : \A k \in places : n <= k
  <2> HIDE DEF places
  <2>1. QED
    BY <1>3, LeastNat
<1>5. PICK g \in external : before[g.of] = n
  BY <1>4
<1>6. \A h \in external : before[g.of] <= before[h.of]
  BY <1>4, <1>5
<1>7. g \in ParentField(schema, root, m, f.name, before)
  <2>1. ParentField(schema, root, m, f.name, before) =
          {e \in external : \A h \in external : before[e.of] <= before[h.of]}
    BY <1>1 DEF ParentField, external
  <2>2. QED
    BY <1>6, <2>1
<1>8. QED
  BY <1>2, <1>7

LEMMA PathsOfModels ==
  ASSUME NEW schema, IsFiniteSet(schema), NEW root
  PROVE  /\ DOMAIN FieldsInfo(schema, root) = Reached(schema, root)
         /\ \A m \in DOMAIN FieldsInfo(schema, root) : \A p \in FieldsInfo(schema, root)[m] :
              IsPath(schema, root, p) /\ p # << >>
<1> DEFINE paths == PathsFrom(schema, root) \ {<< >>}
           info  == [m \in {root} \cup {Last(p).model : p \in paths} |-> {p \in paths : Last(p).model = m}]
<1>1. FieldsInfo(schema, root) = info
  BY DEF FieldsInfo
<1>2. \A p \in paths : IsPath(schema, root, p) /\ p # << >>
  BY PathsAre
<1>3. \A m \in DOMAIN info : \A p \in info[m] : IsPath(schema, root, p) /\ p # << >>
  BY <1>2
<1>4. \A c : c \in DOMAIN info <=> \E p : IsPath(schema, root, p) /\ EndOf(root, p) = c
  <2>1. ASSUME NEW c, c \in DOMAIN info PROVE \E p : IsPath(schema, root, p) /\ EndOf(root, p) = c
    <3>1. CASE c = root
      <4>1. root \in Reached(schema, root)
        BY ReachedIs DEF AllModels
      <4>2. QED
        BY <3>1, <4>1, EndsReached
    <3>2. CASE c # root
      <4>1. PICK p \in paths : c = Last(p).model
        BY <2>1, <3>2
      <4>2. QED
        BY <1>2, <4>1 DEF EndOf
    <3>3. QED
      BY <3>1, <3>2
  <2>2. ASSUME NEW p, IsPath(schema, root, p) PROVE EndOf(root, p) \in DOMAIN info
    <3>1. CASE p = << >>
      BY <3>1 DEF EndOf
    <3>2. CASE p # << >>
      <4>1. p \in paths
        BY <2>2, <3>2, PathsAre
      <4>2. QED
        BY <3>2, <4>1 DEF EndOf
    <3>3. QED
      BY <3>1, <3>2
  <2>3. QED
    BY <2>1, <2>2
<1> HIDE DEF info
<1>5. DOMAIN info = Reached(schema, root)
  BY <1>4, EndsReached
<1>6. QED
  BY <1>1, <1>3, <1>5

LEMMA FilesAreFound ==
  ASSUME NEW schema, IsFiniteSet(schema), NEW root, NEW before,
         Alphabet(schema, before)
  PROVE  FilesFound(schema, root, before)
<1> DEFINE info == FieldsInfo(schema, root)
<1>1. DOMAIN info = Reached(schema, root)
  BY PathsOfModels
<1>2. ASSUME NEW m \in DOMAIN info, NEW p \in info[m]
      PROVE  /\ p[1].of = root /\ \A k \in 2..Len(p) : p[k].of = p[k - 1].model
             /\ IsInjective([k \in DOMAIN p |-> p[k].of])
  <2>1. IsPath(schema, root, p) /\ p # << >>
    BY PathsOfModels
  <2>2. p \in Seq(Hops(schema)) /\ Len(p) \in Nat /\ Len(p) > 0 /\ DOMAIN p = 1..Len(p)
    BY <2>1, EndIs, SeqDomain
  <2>3. p[1].of = root
    BY <2>1, <2>2 DEF IsPath
  <2>4. \A k \in 2..Len(p) : p[k].of = p[k - 1].model
    <3>1. TAKE k \in 2..Len(p)
    <3>2. k - 1 \in 1..Len(p) - 1 /\ k - 1 + 1 = k
      BY <2>2
    <3>3. QED
      BY <2>1, <3>2 DEF IsPath
  <2>5. IsInjective([k \in DOMAIN p |-> p[k].of])
    BY <2>1, <2>2 DEF IsInjective, IsPath
  <2>6. QED
    BY <2>3, <2>4, <2>5
<1> DEFINE alike(f) == \A g \in schema : g.name = f.name /\ g.output # {} => g.output = f.output
<1>3. ASSUME NEW f \in schema, NEW m \in f.models, f.output # {}, f.followed,
             f.of \in DOMAIN info, f.of \notin Reached(schema, m), alike(f)
      PROVE  \E g \in ParentField(schema, root, m, f.name, before) : FileOf(g) = FileOf(f)
  <2>1. f.of \in Parents(schema, root, m)
    BY <1>1, <1>3, ParentFound
  <2>2. PICK g \in ParentField(schema, root, m, f.name, before) :
               g \in schema /\ g.name = f.name /\ g.output # {}
    <3> HIDE DEF alike, info
    <3>1. f.output # {}
      BY <1>3
    <3>2. QED
      BY <2>1, <3>1, ExternalTaken
  <2>3. g.output = f.output
    BY <1>3, <2>2
  <2>4. FileOf(g) = FileOf(f)
    BY <2>3 DEF FileOf
  <2>5. QED
    BY <2>2, <2>4
<1> HIDE DEF info
<1>4. QED
  BY <1>1, <1>2, <1>3 DEF FilesFound, info

=============================================================================
