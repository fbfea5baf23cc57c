------------------------------- MODULE Binary -------------------------------
(***************************************************************************)
(* Numbers as sets of bits, of any length.                                 *)
(***************************************************************************)
EXTENDS Integers, FiniteSetsExt

Pow2[n \in Nat] == IF n = 0 THEN 1 ELSE 2 * Pow2[n - 1]

\* A number after it is halved n times.
Halved(v) ==
  LET half[n \in Nat] == IF n = 0 THEN v ELSE half[n - 1] \div 2
  IN half

BitsOf(v) == {n \in 0..v : Halved(v)[n] % 2 = 1}

\* What the bits below n are worth.
Worth(bits) ==
  LET sum[n \in Nat] == IF n = 0 THEN 0 ELSE sum[n - 1] + (IF n - 1 \in bits THEN Pow2[n - 1] ELSE 0)
  IN sum

ValueOf(bits) == IF bits = {} THEN 0 ELSE Worth(bits)[Max(bits) + 1]

=============================================================================
