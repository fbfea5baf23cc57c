----------------------------- MODULE ListFacts -----------------------------
(***************************************************************************)
(* What the proofs need to know about sequences that are defined step by   *)
(* step.  Induction goes by the least counterexample, since the library's  *)
(* induction theorems take an operator.                                    *)
(***************************************************************************)
EXTENDS Integers, Sequences, SequencesExt, WellFoundedInduction, SequenceTheorems, TLAPS

\* A set of natural numbers has a least one.
LEMMA LeastNat ==
  ASSUME NEW T, T \subseteq Nat, T # {}
  PROVE  \E n \in T : \A m \in T : n <= m
<1>1. PICK x \in T : \A y \in T : <<y, x>> \notin OpToRel(<, Nat)
  BY NatLessThanWellFounded, WFMin
<1>2. \A y \in T : y < x => <<y, x>> \in OpToRel(<, Nat)
  BY DEF OpToRel
<1>3. \A y \in T : ~(y < x)
  BY <1>1, <1>2
<1>4. QED
  BY <1>3

LEMMA GreatestUpTo ==
  ASSUME NEW n \in Nat, NEW T, T \subseteq 1..n, T # {}
  PROVE  \E p \in T : \A q \in T : q <= p
<1> DEFINE R == {n - t : t \in T}
<1>1. \A t \in T : n - t \in R /\ t \in Int /\ n - t \in Nat
  OBVIOUS
<1>2. \A r \in R : \E t \in T : r = n - t
  OBVIOUS
<1>3. R \subseteq Nat /\ R # {}
  BY <1>1, <1>2
<1> HIDE DEF R
<1>4. PICK r \in R : \A q \in R : r <= q
  BY <1>3, LeastNat
<1>5. PICK p \in T : r = n - p
  BY <1>2
<1>6. QED
  BY <1>1, <1>4, <1>5

LEMMA MaxIs ==
  ASSUME NEW S, S \subseteq Int, NEW p \in S, \A q \in S : q <= p
  PROVE  Max(S) = p
<1>1. \A q \in S : p >= q
  OBVIOUS
<1>2. \A r \in S : (\A q \in S : r >= q) => r = p
  OBVIOUS
<1>3. QED
  BY <1>1, <1>2 DEF Max

LEMMA MinIs ==
  ASSUME NEW S, S \subseteq Int, NEW p \in S, \A q \in S : p <= q
  PROVE  Min(S) = p
<1>1. \A r \in S : (\A q \in S : r <= q) => r = p
  OBVIOUS
<1>2. QED
  BY <1>1 DEF Min

\* Induction: what holds at 0 and at each next place holds up to n.
LEMMA UpTo ==
  ASSUME NEW n \in Nat, NEW T, 0 \in T, \A k \in 1..n : k - 1 \in T => k \in T
  PROVE  0..n \subseteq T
<1> DEFINE Bad == {k \in 0..n : k \notin T}
<1>1. SUFFICES ASSUME Bad # {} PROVE FALSE
  OBVIOUS
<1>2. PICK m \in Bad : \A k \in Bad : m <= k
  <2>1. Bad \subseteq Nat
    OBVIOUS
  <2> HIDE DEF Bad
  <2>2. QED
    BY <1>1, <2>1, LeastNat
<1>3. m \in 1..n /\ m \notin T
  OBVIOUS
<1>4. m - 1 \notin Bad
  <2> HIDE DEF Bad
  <2>1. QED
    BY <1>2, <1>3
<1>5. m - 1 \in T
  BY <1>3, <1>4
<1>6. QED
  BY <1>3, <1>5

\* A function that is defined from its value one place before exists.
IsRun(g, S, n, a, step) ==
  g \in [0..n -> S] /\ g[0] = a /\ \A k \in 1..n : g[k] = step[<<k, g[k - 1]>>]

Steps(S, n) == [(1..n) \X S -> S]

LEMMA Recursion ==
  ASSUME NEW S, NEW n \in Nat, NEW a \in S, NEW step \in Steps(S, n)
  PROVE  \E g : IsRun(g, S, n, a, step)
<1> DEFINE Good(m) == \E g \in [0..m -> S] : g[0] = a /\ \A k \in 1..m : g[k] = step[<<k, g[k - 1]>>]
           T == {m \in 0..n : Good(m)}
<1>1. 0 \in T
  <2> DEFINE g == [k \in 0..0 |-> a]
  <2>1. g \in [0..0 -> S] /\ g[0] = a
    OBVIOUS
  <2>2. \A k \in 1..0 : g[k] = step[<<k, g[k - 1]>>]
    OBVIOUS
  <2> HIDE DEF g
  <2>3. Good(0)
    BY <2>1, <2>2
  <2>4. QED
    BY <2>3
<1>2. ASSUME NEW m \in 1..n, m - 1 \in T PROVE m \in T
  <2>1. PICK g \in [0..(m - 1) -> S] : g[0] = a /\ \A k \in 1..(m - 1) : g[k] = step[<<k, g[k - 1]>>]
    BY <1>2
  <2> DEFINE h == [k \in 0..m |-> IF k = m THEN step[<<m, g[m - 1]>>] ELSE g[k]]
  <2>2. g[m - 1] \in S /\ step[<<m, g[m - 1]>>] \in S
    BY <2>1 DEF Steps
  <2>3. h \in [0..m -> S] /\ h[0] = a
    BY <2>1, <2>2
  <2>4. \A k \in 1..m : h[k] = step[<<k, h[k - 1]>>]
    <3>1. TAKE k \in 1..m
    <3>2. h[k - 1] = g[k - 1]
      OBVIOUS
    <3>3. CASE k = m
      <4>1. h[k] = step[<<m, g[m - 1]>>]
        BY <3>3
      <4>2. QED
        BY <3>2, <3>3, <4>1
    <3>4. CASE k # m
      <4>1. k \in 1..(m - 1) /\ h[k] = g[k]
        BY <3>4
      <4>2. QED
        BY <2>1, <3>2, <4>1
    <3>5. QED
      BY <3>3, <3>4
  <2>5. Good(m)
    BY <2>3, <2>4
  <2>6. QED
    BY <2>5
<1>3. 0..n \subseteq T
  <2> HIDE DEF T
  <2>1. QED
    BY <1>1, <1>2, UpTo
<1>4. Good(n)
  BY <1>3
<1>5. QED
  BY <1>4 DEF IsRun

\* The same with a place for every natural number.
Follows(g, n, a, st) == g[0] = a /\ \A k \in 1..n : g[k] = st[<<k, g[k - 1]>>]

LEMMA RunsAgree ==
  ASSUME NEW m \in Nat, NEW n \in Nat, m <= n, NEW a, NEW st, NEW g, NEW h,
         Follows(g, m, a, st), Follows(h, n, a, st)
  PROVE  g[m] = h[m]
<1> DEFINE Same == {k \in 0..m : g[k] = h[k]}
<1>1. 0 \in Same
  BY DEF Follows
<1>2. ASSUME NEW k \in 1..m, k - 1 \in Same PROVE k \in Same
  <2>1. k \in 1..n
    OBVIOUS
  <2>2. g[k] = st[<<k, g[k - 1]>>] /\ h[k] = st[<<k, h[k - 1]>>]
    BY <2>1 DEF Follows
  <2>3. g[k - 1] = h[k - 1]
    BY <1>2
  <2>4. QED
    BY <2>2, <2>3
<1> HIDE DEF Same
<1>3. 0..m \subseteq Same
  BY <1>1, <1>2, UpTo
<1>4. QED
  BY <1>3 DEF Same

Unfolding(g, S, a, st) ==
  g \in [Nat -> S] /\ g[0] = a /\ \A k \in Nat \ {0} : g[k] = st[<<k, g[k - 1]>>]

LEMMA RecursionOnNat ==
  ASSUME NEW S, NEW a \in S, NEW st \in [Nat \X S -> S]
  PROVE  \E g : Unfolding(g, S, a, st)
<1> DEFINE Run(h, n) == h \in [0..n -> S] /\ h[0] = a /\ \A k \in 1..n : h[k] = st[<<k, h[k - 1]>>]
<1>1. ASSUME NEW n \in Nat PROVE \E h : Run(h, n)
  <2> DEFINE part == [p \in (1..n) \X S |-> st[p]]
  <2>1. part \in Steps(S, n)
    BY DEF Steps
  <2>2. \A k \in 1..n, x \in S : part[<<k, x>>] = st[<<k, x>>]
    OBVIOUS
  <2> HIDE DEF part
  <2>3. PICK h : IsRun(h, S, n, a, part)
    BY <2>1, Recursion
  <2>4. ASSUME NEW k \in 1..n PROVE h[k] = st[<<k, h[k - 1]>>]
    <3>1. h[k - 1] \in S
      BY <2>3 DEF IsRun
    <3>2. QED
      BY <2>2, <2>3, <3>1 DEF IsRun
  <2>5. QED
    BY <2>3, <2>4 DEF IsRun
<1> DEFINE run(n) == CHOOSE h : Run(h, n)
           g == [n \in Nat |-> run(n)[n]]
<1>2. \A n \in Nat : Run(run(n), n)
  BY <1>1
<1>3. ASSUME NEW k \in Nat \ {0} PROVE run(k - 1)[k - 1] = run(k)[k - 1]
  <2>1. k \in Nat /\ k - 1 \in Nat /\ k - 1 <= k /\ k - 1 \in 0..(k - 1)
    OBVIOUS
  <2>2. Run(run(k - 1), k - 1) /\ Run(run(k), k)
    BY <1>2, <2>1
  <2>3. Follows(run(k - 1), k - 1, a, st) /\ Follows(run(k), k, a, st)
    <3> HIDE DEF run
    <3>1. QED
      BY <2>2 DEF Follows
  <2> HIDE DEF run
  <2>4. QED
    BY <2>1, <2>3, RunsAgree
<1>4. g \in [Nat -> S]
  <2>1. ASSUME NEW n \in Nat PROVE run(n)[n] \in S
    <3>1. Run(run(n), n)
      BY <1>2
    <3> HIDE DEF run
    <3>2. QED
      BY <3>1
  <2> HIDE DEF run
  <2>2. QED
    BY <2>1
<1>5. g[0] = a
  <2>1. Run(run(0), 0)
    BY <1>2
  <2> HIDE DEF run
  <2>2. QED
    BY <2>1
<1>6. ASSUME NEW k \in Nat \ {0} PROVE g[k] = st[<<k, g[k - 1]>>]
  <2>0. k \in Nat /\ k \in 1..k /\ k - 1 \in Nat
    OBVIOUS
  <2>1. Run(run(k), k) /\ k \in 1..k /\ k - 1 \in Nat
    BY <1>2, <2>0
  <2>2. run(k)[k] = st[<<k, run(k)[k - 1]>>]
    <3> HIDE DEF run
    <3>1. QED
      BY <2>1
  <2>3. g[k] = run(k)[k] /\ g[k - 1] = run(k - 1)[k - 1]
    <3> HIDE DEF run
    <3>1. QED
      BY <2>1
  <2>4. QED
    BY <1>3, <2>2, <2>3
<1> HIDE DEF g
<1>7. QED
  BY <1>4, <1>5, <1>6 DEF Unfolding

LEMMA ElementIn ==
  ASSUME NEW S, NEW s \in Seq(S), NEW k \in 1..Len(s)
  PROVE  s[k] \in S
OBVIOUS

LEMMA MemberOfSeq ==
  ASSUME NEW S, NEW s \in Seq(S), NEW x \in ToSet(s)
  PROVE  x \in S
BY DEF ToSet

LEMMA LenIsNat ==
  ASSUME NEW S, NEW s \in Seq(S)
  PROVE  Len(s) \in Nat
OBVIOUS

LEMMA SeqDomain ==
  ASSUME NEW S, NEW s \in Seq(S)
  PROVE  DOMAIN s = 1..Len(s) /\ Len(s) \in Nat
OBVIOUS

LEMMA PathSet ==
  ASSUME NEW S, NEW s \in Seq(S)
  PROVE  \A x : x \in ToSet(s) <=> \E i \in 1..Len(s) : x = s[i]
BY SeqDomain DEF ToSet

\* A sequence without its last element.
LEMMA FrontIs ==
  ASSUME NEW S, NEW s \in Seq(S), s # << >>
  PROVE  /\ Len(s) \in Nat \ {0} /\ Last(s) = s[Len(s)]
         /\ Front(s) \in Seq(S) /\ Len(Front(s)) = Len(s) - 1
         /\ \A i \in 1..Len(s) - 1 : Front(s)[i] = s[i]
<1>1. Len(s) \in Nat \ {0}
  OBVIOUS
<1>2. Front(s) = SubSeq(s, 1, Len(s) - 1)
  BY DEF Front
<1>3. /\ SubSeq(s, 1, Len(s) - 1) \in Seq(S) /\ Len(SubSeq(s, 1, Len(s) - 1)) = Len(s) - 1
      /\ \A i \in 1..Len(s) - 1 : SubSeq(s, 1, Len(s) - 1)[i] = s[i]
  <2> DEFINE m == Len(s) - 1
             t == SubSeq(s, 1, m)
  <2>1. m \in Nat /\ \A i \in 1..m : s[i] \in S
    BY <1>1
  <2> HIDE DEF m
  <2>2. /\ t \in Seq(S) /\ Len(t) = IF 1 <= m THEN m - 1 + 1 ELSE 0
        /\ \A i \in 1..m - 1 + 1 : t[i] = s[1 + i - 1]
    BY <2>1, SubSeqProperties
  <2> HIDE DEF t
  <2>3. \A i \in 1..m : i \in 1..m - 1 + 1 /\ 1 + i - 1 = i
    BY <2>1
  <2>4. t \in Seq(S) /\ Len(t) = m /\ \A i \in 1..m : t[i] = s[i]
    BY <2>1, <2>2, <2>3
  <2>5. QED
    BY <2>4 DEF m, t
<1>4. Last(s) = s[Len(s)]
  BY DEF Last
<1>5. QED
  BY <1>1, <1>2, <1>3, <1>4

LEMMA SeqInto ==
  ASSUME NEW S, NEW T, NEW s \in Seq(S), \A k \in 1..Len(s) : s[k] \in T
  PROVE  s \in Seq(T)
OBVIOUS

LEMMA FunctionIsSeq ==
  ASSUME NEW S, NEW n \in Nat, NEW s, s = [k \in 1..n |-> s[k]], \A k \in 1..n : s[k] \in S
  PROVE  s \in Seq(S) /\ Len(s) = n /\ DOMAIN s = 1..n
<1>1. s \in [1..n -> S]
  OBVIOUS
<1>2. QED
  BY <1>1

-----------------------------------------------------------------------------
(* FlattenSeq: the pieces one after the other.                             *)

\* The flattened sequence is built piece by piece.
LEMMA FlattenUnfolds ==
  ASSUME NEW S, NEW s \in Seq(Seq(S))
  PROVE  \E f \in [0..Len(s) -> Seq(S)] :
           /\ f[0] = << >>
           /\ \A k \in 1..Len(s) : f[k] = f[k - 1] \o s[k]
           /\ FlattenSeq(s) = f[Len(s)]
<1> DEFINE step == [p \in (1..Len(s)) \X Seq(S) |-> p[2] \o s[p[1]]]
<1>1. Len(s) \in Nat /\ << >> \in Seq(S) /\ \A k \in 1..Len(s) : s[k] \in Seq(S)
  BY ElementIn
<1>2. step \in Steps(Seq(S), Len(s))
  <2>1. \A p \in (1..Len(s)) \X Seq(S) : p[2] \o s[p[1]] \in Seq(S)
    BY <1>1
  <2>2. QED
    BY <2>1 DEF Steps
<1>3. PICK f : IsRun(f, Seq(S), Len(s), << >>, step)
  <2> HIDE DEF step
  <2>1. QED
    BY <1>1, <1>2, Recursion
<1>4. \A k \in 1..Len(s) : f[k] = f[k - 1] \o s[k]
  <2>1. TAKE k \in 1..Len(s)
  <2>2. k - 1 \in 0..Len(s) /\ f \in [0..Len(s) -> Seq(S)]
    BY <1>1, <1>3 DEF IsRun
  <2>3. <<k, f[k - 1]>> \in (1..Len(s)) \X Seq(S)
    BY <2>2
  <2>4. step[<<k, f[k - 1]>>] = f[k - 1] \o s[k]
    BY <2>3
  <2>5. QED
    BY <1>3, <2>4 DEF IsRun
<1>5. f \in [0..Len(s) -> Seq(S)] /\ f[0] = << >>
  BY <1>3 DEF IsRun
<1>6. CASE Len(s) = 0
  <2>1. FlattenSeq(s) = << >>
    BY <1>6 DEF FlattenSeq
  <2>2. QED
    BY <1>5, <1>4, <1>6, <2>1
<1>7. CASE Len(s) # 0
  <2> DEFINE Rec(g) == g = [i \in 1..Len(s) |-> IF i = 1 THEN s[i] ELSE g[i - 1] \o s[i]]
             g == CHOOSE g : Rec(g)
             h == [i \in 1..Len(s) |-> f[i]]
  <2>1. \A i \in 1..Len(s) : h[i] = IF i = 1 THEN s[i] ELSE h[i - 1] \o s[i]
    <3>1. TAKE i \in 1..Len(s)
    <3>2. CASE i = 1
      <4>1. f[1] = f[1 - 1] \o s[1]
        BY <1>4, <3>2
      <4>2. f[1] = << >> \o s[1] /\ s[1] \in Seq(S) /\ h[1] = f[1]
        BY <1>1, <1>5, <3>2, <4>1
      <4>3. << >> \o s[1] = s[1]
        BY <4>2
      <4>4. QED
        BY <3>2, <4>2, <4>3
    <3>3. CASE i # 1
      <4>1. h[i] = f[i] /\ h[i - 1] = f[i - 1] /\ f[i] = f[i - 1] \o s[i]
        <5>1. i \in 1..Len(s) /\ i - 1 \in 1..Len(s)
          BY <3>3
        <5>2. QED
          BY <1>4, <5>1
      <4>2. QED
        BY <3>3, <4>1
    <3>4. QED
      BY <3>2, <3>3
  <2>2. h = [i \in 1..Len(s) |-> IF i = 1 THEN s[i] ELSE h[i - 1] \o s[i]]
    BY <2>1
  <2>3. Rec(g)
    <3>1. Rec(h)
      BY <2>2
    <3> HIDE DEF h
    <3>2. QED
      BY <3>1
  <2>4. FlattenSeq(s) = g[Len(s)]
    BY <1>7 DEF FlattenSeq
  <2> HIDE DEF g, h
  <2> DEFINE T == {k \in 0..Len(s) : k # 0 => g[k] = f[k]}
  <2>5. 0 \in T
    BY <1>1
  <2>6. ASSUME NEW k \in 1..Len(s), k - 1 \in T PROVE k \in T
    <3>1. g[k] = IF k = 1 THEN s[k] ELSE g[k - 1] \o s[k]
      BY <2>3
    <3>2. h[k] = IF k = 1 THEN s[k] ELSE h[k - 1] \o s[k]
      BY <2>1
    <3>3. h[k] = f[k] /\ (k # 1 => h[k - 1] = f[k - 1])
      BY DEF h
    <3>4. k # 1 => g[k - 1] = f[k - 1]
      BY <2>6
    <3>5. QED
      BY <3>1, <3>2, <3>3, <3>4
  <2>7. 0..Len(s) \subseteq T
    <3> HIDE DEF T
    <3>1. QED
      BY <1>1, <2>5, <2>6, UpTo
  <2>8. g[Len(s)] = f[Len(s)]
    BY <1>1, <1>7, <2>7
  <2>9. QED
    BY <1>5, <1>4, <2>4, <2>8
<1>8. QED
  BY <1>6, <1>7

\* The n pieces s lie one after the other in c, each from its place in at on.
Laid(s, at, n, c) ==
  /\ \A k \in 1..n : \A i \in 1..Len(s[k]) : at[k] + i \in 1..Len(c) /\ c[at[k] + i] = s[k][i]
  /\ \A p \in 1..Len(c) : \E k \in 1..n : \E i \in 1..Len(s[k]) : p = at[k] + i
  /\ \A k \in 1..n : at[k] + Len(s[k]) <= Len(c)

LEMMA LaidOneMore ==
  ASSUME NEW S, NEW n \in Nat \ {0}, NEW a \in Seq(S), NEW b \in Seq(S), NEW c, c = a \o b,
         NEW s, s[n] = b, \A k \in 1..n : Len(s[k]) \in Nat,
         NEW at, at[n] = Len(a), \A k \in 1..n : at[k] \in Nat,
         Laid(s, at, n - 1, a)
  PROVE  Laid(s, at, n, c)
<1>1. /\ Len(c) = Len(a) + Len(b) /\ Len(a) \in Nat /\ Len(b) \in Nat
      /\ \A p \in 1..Len(a) : c[p] = a[p]
      /\ \A i \in 1..Len(b) : c[Len(a) + i] = b[i]
  OBVIOUS
<1>2. \A k \in 1..n : k # n => k \in 1..(n - 1)
  OBVIOUS
<1>3. ASSUME NEW k \in 1..n, k # n
      PROVE  /\ \A i \in 1..Len(s[k]) : at[k] + i \in 1..Len(c) /\ c[at[k] + i] = s[k][i]
             /\ at[k] + Len(s[k]) <= Len(c)
  <2>1. /\ \A i \in 1..Len(s[k]) : at[k] + i \in 1..Len(a) /\ a[at[k] + i] = s[k][i]
        /\ at[k] + Len(s[k]) <= Len(a)
    BY <1>2, <1>3 DEF Laid
  <2>2. \A p \in 1..Len(a) : p \in 1..Len(c)
    BY <1>1
  <2>3. at[k] + Len(s[k]) <= Len(c)
    BY <1>1, <2>1
  <2>4. QED
    BY <1>1, <2>1, <2>2, <2>3
<1>4. /\ \A i \in 1..Len(s[n]) : at[n] + i \in 1..Len(c) /\ c[at[n] + i] = s[n][i]
      /\ at[n] + Len(s[n]) <= Len(c)
  BY <1>1
<1>5. ASSUME NEW p \in 1..Len(c) PROVE \E k \in 1..n : \E i \in 1..Len(s[k]) : p = at[k] + i
  <2>1. CASE p <= Len(a)
    <3>1. p \in 1..Len(a)
      BY <1>1, <2>1
    <3>2. PICK k \in 1..(n - 1) : \E i \in 1..Len(s[k]) : p = at[k] + i
      BY <3>1 DEF Laid
    <3>3. k \in 1..n
      OBVIOUS
    <3>4. QED
      BY <3>2, <3>3
  <2>2. CASE p > Len(a)
    <3>1. p - Len(a) \in 1..Len(b) /\ p = Len(a) + (p - Len(a)) /\ n \in 1..n
      BY <1>1, <2>2
    <3>2. QED
      BY <3>1
  <2>3. QED
    BY <1>1, <2>1, <2>2
<1>6. QED
  BY <1>3, <1>4, <1>5 DEF Laid

\* Where each piece begins in the flattened sequence: element i of piece k is
\* element at[k] + i, there are no others, and earlier pieces come first.
LEMMA FlattenPlaces ==
  ASSUME NEW S, NEW s \in Seq(Seq(S))
  PROVE  /\ FlattenSeq(s) \in Seq(S)
         /\ \E at \in [1..Len(s) -> Nat] :
              /\ Laid(s, at, Len(s), FlattenSeq(s))
              /\ \A k, l \in 1..Len(s) : k < l => at[k] + Len(s[k]) <= at[l]
<1>1. PICK f \in [0..Len(s) -> Seq(S)] :
        /\ f[0] = << >>
        /\ \A k \in 1..Len(s) : f[k] = f[k - 1] \o s[k]
        /\ FlattenSeq(s) = f[Len(s)]
  BY FlattenUnfolds
<1> DEFINE at == [k \in 1..Len(s) |-> Len(f[k - 1])]
           Bad == {n \in 0..Len(s) : ~Laid(s, at, n, f[n])}
<1>2. Len(s) \in Nat /\ \A k \in 1..Len(s) : k - 1 \in 0..Len(s)
  OBVIOUS
<1>3. \A k \in 1..Len(s) : s[k] \in Seq(S) /\ Len(s[k]) \in Nat
  BY ElementIn, LenIsNat
<1>4. \A k \in 1..Len(s) : f[k - 1] \in Seq(S) /\ Len(f[k - 1]) \in Nat
  BY <1>2, LenIsNat
<1>5. at \in [1..Len(s) -> Nat] /\ \A k \in 1..Len(s) : at[k] = Len(f[k - 1])
  BY <1>4
<1> HIDE DEF at
<1>6. Bad = {}
  <2>1. SUFFICES ASSUME Bad # {} PROVE FALSE
    OBVIOUS
  <2>2. PICK n \in Bad : \A k \in Bad : n <= k
    <3>1. Bad \subseteq Nat
      OBVIOUS
    <3> HIDE DEF Bad
    <3>2. QED
      BY <2>1, <3>1, LeastNat
  <2>3. n \in 0..Len(s) /\ ~Laid(s, at, n, f[n])
    OBVIOUS
  <2>4. Laid(s, at, 0, f[0])
    BY <1>1 DEF Laid
  <2>5. n \in 1..Len(s) /\ n - 1 \in 0..Len(s) /\ n \in Nat \ {0}
    BY <1>2, <2>3, <2>4
  <2>6. Laid(s, at, n - 1, f[n - 1])
    <3>1. n - 1 \notin Bad
      <4> HIDE DEF Bad
      <4>1. QED
        BY <2>2, <2>5
    <3>2. QED
      BY <2>5, <3>1
  <2>7. \A k \in 1..n : k \in 1..Len(s)
    BY <2>5, <1>2
  <2>8. /\ f[n] = f[n - 1] \o s[n] /\ f[n - 1] \in Seq(S) /\ s[n] \in Seq(S)
        /\ \A k \in 1..n : Len(s[k]) \in Nat /\ at[k] \in Nat
        /\ at[n] = Len(f[n - 1])
    BY <1>1, <1>3, <1>4, <1>5, <2>5, <2>7
  <2>9. Laid(s, at, n, f[n])
    BY <2>5, <2>6, <2>8, LaidOneMore
  <2>10. QED
    BY <2>3, <2>9
<1>7. \A k, l \in 1..Len(s) : k < l => at[k] + Len(s[k]) <= at[l]
  <2>1. TAKE k, l \in 1..Len(s)
  <2>2. HAVE k < l
  <2>3. l - 1 \in 0..Len(s) /\ k \in 1..(l - 1)
    BY <2>2
  <2>4. Laid(s, at, l - 1, f[l - 1])
    BY <2>3, <1>6
  <2>5. QED
    BY <2>3, <2>4, <1>5 DEF Laid
<1>8. Len(s) \in 0..Len(s)
  BY <1>2
<1>9. Laid(s, at, Len(s), FlattenSeq(s)) /\ FlattenSeq(s) \in Seq(S)
  BY <1>1, <1>6, <1>8
<1>10. QED
  BY <1>5, <1>7, <1>9

\* The elements of the flattened sequence are those of the pieces.
LEMMA FlattenElements ==
  ASSUME NEW S, NEW s \in Seq(Seq(S))
  PROVE  \A x : x \in ToSet(FlattenSeq(s)) <=> \E k \in 1..Len(s) : x \in ToSet(s[k])
<1> DEFINE c == FlattenSeq(s)
<1>1. c \in Seq(S) /\ \E at \in [1..Len(s) -> Nat] : Laid(s, at, Len(s), c)
  BY FlattenPlaces
<1>2. \A k \in 1..Len(s) : DOMAIN s[k] = 1..Len(s[k])
  BY ElementIn
<1> HIDE DEF c
<1>3. PICK at \in [1..Len(s) -> Nat] : Laid(s, at, Len(s), c)
  BY <1>1
<1>4. DOMAIN c = 1..Len(c)
  BY <1>1
<1>5. ASSUME NEW k \in 1..Len(s), NEW x \in ToSet(s[k]) PROVE x \in ToSet(c)
  <2>1. PICK i \in 1..Len(s[k]) : x = s[k][i]
    BY <1>2, <1>5 DEF ToSet
  <2>2. at[k] + i \in 1..Len(c) /\ c[at[k] + i] = x
    BY <1>3, <2>1 DEF Laid
  <2>3. QED
    BY <1>4, <2>2 DEF ToSet
<1>6. ASSUME NEW x \in ToSet(c) PROVE \E k \in 1..Len(s) : x \in ToSet(s[k])
  <2>1. PICK p \in 1..Len(c) : x = c[p]
    BY <1>4, <1>6 DEF ToSet
  <2>2. PICK k \in 1..Len(s) : \E i \in 1..Len(s[k]) : p = at[k] + i
    BY <1>3 DEF Laid
  <2>3. PICK i \in 1..Len(s[k]) : p = at[k] + i
    BY <2>2
  <2>4. x = s[k][i]
    BY <1>3, <2>1, <2>3 DEF Laid
  <2>5. QED
    BY <1>2, <2>3, <2>4 DEF ToSet
<1>7. QED
  BY <1>5, <1>6 DEF c

LEMMA ConcatSet ==
  ASSUME NEW S, NEW a \in Seq(S), NEW b \in Seq(S)
  PROVE  a \o b \in Seq(S) /\ ToSet(a \o b) = ToSet(a) \cup ToSet(b)
<1>1. /\ a \o b \in Seq(S)
      /\ DOMAIN a = 1..Len(a) /\ DOMAIN b = 1..Len(b) /\ DOMAIN (a \o b) = 1..(Len(a) + Len(b))
      /\ Len(a) \in Nat /\ Len(b) \in Nat
      /\ \A k \in 1..Len(a) : (a \o b)[k] = a[k]
      /\ \A k \in 1..Len(b) : (a \o b)[Len(a) + k] = b[k]
  OBVIOUS
<1> DEFINE c == a \o b
<1> HIDE DEF c
<1>2. /\ \A k \in 1..Len(a) : k \in 1..(Len(a) + Len(b))
      /\ \A k \in 1..Len(b) : Len(a) + k \in 1..(Len(a) + Len(b))
      /\ \A k \in 1..(Len(a) + Len(b)) : k \in 1..Len(a) \/ \E j \in 1..Len(b) : k = Len(a) + j
  <2>1. ASSUME NEW k \in 1..(Len(a) + Len(b)), k \notin 1..Len(a) PROVE \E j \in 1..Len(b) : k = Len(a) + j
    <3>1. k - Len(a) \in 1..Len(b) /\ k = Len(a) + (k - Len(a))
      BY <1>1, <2>1
    <3>2. QED
      BY <3>1
  <2>2. QED
    BY <1>1, <2>1
<1>3. ToSet(a) \subseteq ToSet(c) /\ ToSet(b) \subseteq ToSet(c)
  BY <1>1, <1>2 DEF ToSet, c
<1>4. ASSUME NEW x \in ToSet(c) PROVE x \in ToSet(a) \cup ToSet(b)
  <2>1. PICK k \in 1..(Len(a) + Len(b)) : x = c[k]
    BY <1>1, <1>4 DEF ToSet, c
  <2>2. CASE k \in 1..Len(a)
    <3>1. x = a[k] /\ k \in DOMAIN a
      BY <1>1, <2>1, <2>2 DEF c
    <3>2. QED
      BY <3>1 DEF ToSet
  <2>3. CASE k \notin 1..Len(a)
    <3>1. PICK j \in 1..Len(b) : k = Len(a) + j
      BY <1>2, <2>3
    <3>2. x = b[j] /\ j \in DOMAIN b
      BY <1>1, <2>1, <3>1 DEF c
    <3>3. QED
      BY <3>2 DEF ToSet
  <2>4. QED
    BY <2>2, <2>3
<1>5. ToSet(c) = ToSet(a) \cup ToSet(b)
  BY <1>3, <1>4
<1>6. QED
  BY <1>1, <1>5 DEF c

\* When the flattened sequence repeats nothing, no two pieces share an element
\* and no piece repeats one.
LEMMA FlattenApart ==
  ASSUME NEW S, NEW s \in Seq(Seq(S)), IsInjective(FlattenSeq(s)),
         NEW k \in 1..Len(s), NEW l \in 1..Len(s),
         NEW i \in 1..Len(s[k]), NEW j \in 1..Len(s[l]), s[k][i] = s[l][j]
  PROVE  k = l /\ i = j
<1> DEFINE c == FlattenSeq(s)
<1>1. /\ c \in Seq(S)
      /\ \E at \in [1..Len(s) -> Nat] :
           /\ Laid(s, at, Len(s), c)
           /\ \A m, n \in 1..Len(s) : m < n => at[m] + Len(s[m]) <= at[n]
  BY FlattenPlaces
<1>2. IsInjective(c) /\ Len(s) \in Nat /\ Len(s[k]) \in Nat /\ Len(s[l]) \in Nat
  BY ElementIn, LenIsNat
<1> HIDE DEF c
<1>3. PICK at \in [1..Len(s) -> Nat] :
        /\ Laid(s, at, Len(s), c)
        /\ \A m, n \in 1..Len(s) : m < n => at[m] + Len(s[m]) <= at[n]
  BY <1>1
<1>4. at[k] + i \in 1..Len(c) /\ at[l] + j \in 1..Len(c) /\ c[at[k] + i] = c[at[l] + j]
  BY <1>3 DEF Laid
<1>5. DOMAIN c = 1..Len(c)
  BY <1>1
<1>6. at[k] + i = at[l] + j
  BY <1>2, <1>4, <1>5 DEF IsInjective
<1>7. (k < l => at[k] + Len(s[k]) <= at[l]) /\ (l < k => at[l] + Len(s[l]) <= at[k])
  BY <1>3
<1>8. at[k] \in Nat /\ at[l] \in Nat
  BY <1>3
<1>9. ~(k < l)
  <2>1. SUFFICES ASSUME at[k] + Len(s[k]) <= at[l] PROVE FALSE
    BY <1>7
  <2>2. QED
    BY <1>2, <1>6, <1>8, <2>1
<1>10. ~(l < k)
  <2>1. SUFFICES ASSUME at[l] + Len(s[l]) <= at[k] PROVE FALSE
    BY <1>7
  <2>2. QED
    BY <1>2, <1>6, <1>8, <2>1
<1>11. k = l
  BY <1>2, <1>9, <1>10
<1>12. QED
  BY <1>6, <1>8, <1>11

\* Place i of piece k, places in order, and elements in order.
PlaceOf(s, k, i)   == k \in 1..Len(s) /\ i \in 1..Len(s[k])
Before(k, i, l, j) == k < l \/ (k = l /\ i < j)
InOrder(c, x, y)   == \E p, q \in 1..Len(c) : p < q /\ c[p] = x /\ c[q] = y

\* Elements of two pieces, or of one, are in their order in the flattened
\* sequence.
LEMMA FlattenOrder ==
  ASSUME NEW S, NEW s \in Seq(Seq(S)), NEW k, NEW i, NEW l, NEW j,
         PlaceOf(s, k, i), PlaceOf(s, l, j), Before(k, i, l, j)
  PROVE  InOrder(FlattenSeq(s), s[k][i], s[l][j])
<1> DEFINE c == FlattenSeq(s)
<1>1. \E at \in [1..Len(s) -> Nat] :
           /\ Laid(s, at, Len(s), c)
           /\ \A m, n \in 1..Len(s) : m < n => at[m] + Len(s[m]) <= at[n]
  BY FlattenPlaces
<1>0. /\ k \in 1..Len(s) /\ l \in 1..Len(s) /\ i \in 1..Len(s[k]) /\ j \in 1..Len(s[l])
      /\ k < l \/ (k = l /\ i < j)
  BY DEF PlaceOf, Before
<1>2. Len(s) \in Nat /\ Len(s[k]) \in Nat /\ Len(s[l]) \in Nat
  BY <1>0, ElementIn, LenIsNat
<1> HIDE DEF c
<1>3. PICK at \in [1..Len(s) -> Nat] :
        /\ Laid(s, at, Len(s), c)
        /\ \A m, n \in 1..Len(s) : m < n => at[m] + Len(s[m]) <= at[n]
  BY <1>1
<1>4. /\ at[k] + i \in 1..Len(c) /\ c[at[k] + i] = s[k][i]
      /\ at[l] + j \in 1..Len(c) /\ c[at[l] + j] = s[l][j]
  BY <1>0, <1>3 DEF Laid
<1>5. at[k] \in Nat /\ at[l] \in Nat
  BY <1>0, <1>3
<1>6. at[k] + i < at[l] + j
  <2>1. CASE k < l
    <3>1. at[k] + Len(s[k]) <= at[l]
      BY <1>0, <1>3, <2>1
    <3>2. QED
      BY <1>0, <1>2, <1>5, <3>1
  <2>2. CASE k = l /\ i < j
    BY <1>0, <1>2, <1>5, <2>2
  <2>3. QED
    BY <1>0, <2>1, <2>2
<1>7. QED
  BY <1>4, <1>6 DEF c, InOrder

\* Those of a sequence that are kept, in their order.
LEMMA KeptOf ==
  ASSUME NEW S, NEW n \in Nat, NEW s, s = [k \in 1..n |-> s[k]],
         \A k \in 1..n : s[k] \in Seq(S)
  PROVE  /\ FlattenSeq(s) \in Seq(S)
         /\ \A x : x \in ToSet(FlattenSeq(s)) <=> \E k \in 1..n : x \in ToSet(s[k])
<1>1. s \in Seq(Seq(S)) /\ Len(s) = n
  BY FunctionIsSeq
<1>2. QED
  BY <1>1, FlattenPlaces, FlattenElements

LEMMA IndexOf ==
  ASSUME NEW S, NEW s \in Seq(S), NEW x \in ToSet(s)
  PROVE  \E k \in 1..Len(s) : s[k] = x
BY DEF ToSet

\* The two elements at two places of the flattened sequence are in this order
\* in two pieces, or in one.
LEMMA FlattenOrigin ==
  ASSUME NEW S, NEW s \in Seq(Seq(S)),
         NEW p \in 1..Len(FlattenSeq(s)), NEW q \in 1..Len(FlattenSeq(s)), p < q
  PROVE  \E k, i, l, j : /\ PlaceOf(s, k, i) /\ PlaceOf(s, l, j) /\ Before(k, i, l, j)
                         /\ FlattenSeq(s)[p] = s[k][i] /\ FlattenSeq(s)[q] = s[l][j]
<1> DEFINE c == FlattenSeq(s)
<1>1. c \in Seq(S) /\ \E at \in [1..Len(s) -> Nat] :
           /\ Laid(s, at, Len(s), c)
           /\ \A m, n \in 1..Len(s) : m < n => at[m] + Len(s[m]) <= at[n]
  BY FlattenPlaces
<1>2. p \in 1..Len(c) /\ q \in 1..Len(c) /\ p \in Int /\ q \in Int
  BY <1>1
<1> HIDE DEF c
<1>3. PICK at \in [1..Len(s) -> Nat] :
        /\ Laid(s, at, Len(s), c)
        /\ \A m, n \in 1..Len(s) : m < n => at[m] + Len(s[m]) <= at[n]
  BY <1>1
<1>4. PICK k \in 1..Len(s) : \E i \in 1..Len(s[k]) : p = at[k] + i
  BY <1>2, <1>3 DEF Laid
<1>5. PICK l \in 1..Len(s) : \E j \in 1..Len(s[l]) : q = at[l] + j
  BY <1>2, <1>3 DEF Laid
<1>6. PICK i \in 1..Len(s[k]) : p = at[k] + i
  BY <1>4
<1>7. PICK j \in 1..Len(s[l]) : q = at[l] + j
  BY <1>5
<1>8. c[p] = s[k][i] /\ c[q] = s[l][j]
  BY <1>3, <1>6, <1>7 DEF Laid
<1>9. /\ Len(s) \in Nat /\ Len(s[k]) \in Nat /\ Len(s[l]) \in Nat /\ at[k] \in Nat /\ at[l] \in Nat
      /\ k \in Nat /\ l \in Nat
  <2>1. Len(s) \in Nat /\ at[k] \in Nat /\ at[l] \in Nat /\ k \in Nat /\ l \in Nat
    <3>1. Len(s) \in Nat
      BY LenIsNat
    <3>2. k \in Nat /\ l \in Nat
      BY <3>1
    <3>3. QED
      BY <1>3, <3>1, <3>2
  <2>2. s[k] \in Seq(S) /\ s[l] \in Seq(S)
    BY ElementIn
  <2>3. QED
    BY <2>1, <2>2, LenIsNat
<1>10. ~(l < k)
  <2>1. SUFFICES ASSUME l < k PROVE FALSE
    OBVIOUS
  <2>2. at[l] + Len(s[l]) <= at[k]
    BY <1>3, <2>1
  <2>3. j <= Len(s[l]) /\ i >= 1 /\ i \in Int /\ j \in Int
    BY <1>9
  <2>4. q <= at[k] /\ at[k] < p
    <3> DEFINE m == Len(s[l])
               x == at[k]
               y == at[l]
    <3>1. x \in Nat /\ y \in Nat /\ m \in Nat /\ y + m <= x /\ j <= m /\ p = x + i /\ q = y + j
      BY <1>6, <1>7, <1>9, <2>2, <2>3
    <3> HIDE DEF m, x, y
    <3>2. q <= x /\ x < p
      BY <2>3, <3>1
    <3>3. QED
      BY <3>2 DEF x
  <2>5. QED
    BY <1>2, <1>9, <2>4
<1>11. Before(k, i, l, j)
  <2>1. CASE k < l
    BY <2>1 DEF Before
  <2>2. CASE k = l
    <3>1. i < j
      BY <1>2, <1>6, <1>7, <1>9, <2>2
    <3>2. QED
      BY <2>2, <3>1 DEF Before
  <2>3. QED
    BY <1>9, <1>10, <2>1, <2>2
<1>12. PlaceOf(s, k, i) /\ PlaceOf(s, l, j)
  BY DEF PlaceOf
<1>13. QED
  BY <1>8, <1>11, <1>12 DEF c
=============================================================================
