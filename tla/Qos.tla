-------------------------------- MODULE Qos --------------------------------
(***************************************************************************)
(* Quality of service: hierarchical token buckets, the filters that choose *)
(* frames, and the streams and traffic classes of a port.                  *)
(*                                                                         *)
(* The classes of an HTB tree are a sequence of [id, rate, ceil, prio,     *)
(* parent], where parent is the place of the class above, which comes      *)
(* first, and 0 for a class of the root.                                   *)
(***************************************************************************)
EXTENDS Integers, Sequences, FiniteSets, SequencesExt

Children(t, k) == {m \in DOMAIN t : t[m].parent = k}

Leaves(t) == {k \in DOMAIN t : Children(t, k) = {}}

RateSum(t, ks) ==
  LET sum[n \in 0..Len(t)] == IF n = 0 THEN 0 ELSE sum[n - 1] + (IF n \in ks THEN t[n].rate ELSE 0)
  IN sum[Len(t)]

\* check_default: a leaf, wherever it is.
DefaultAccepted(t, default) == \A d \in default : \E k \in Leaves(t) : t[k].id = d

HtbIdsUnique(t)   == IsInjective([k \in DOMAIN t |-> t[k].id])
HtbPriosUnique(t) == IsInjective([k \in DOMAIN t |-> t[k].prio])

CeilsAboveRates(t) == \A k \in DOMAIN t : t[k].ceil >= t[k].rate

\* check_rate_consistency and check_ceil_consistency descend to every class.
\* Mutant: only the classes of the root are compared with their children.
RatesConsistentAtRoot(t) ==
  \A k \in Children(t, 0) \ Leaves(t) : RateSum(t, Children(t, k)) <= t[k].rate

RatesConsistent(t) ==
  \A k \in DOMAIN t \ Leaves(t) : RateSum(t, Children(t, k)) <= t[k].rate

CeilsConsistent(t) ==
  \A k \in DOMAIN t : \A m \in Children(t, k) : t[m].ceil <= t[k].ceil

HtbAccepted(t, default) ==
  /\ DefaultAccepted(t, default)
  /\ HtbPriosUnique(t)
  /\ CeilsAboveRates(t)
  /\ HtbIdsUnique(t)
  /\ RatesConsistent(t)
  /\ CeilsConsistent(t)

\* validate_htb, when the interface is connected; 0 is no speed.
FitsLink(t, speed) == speed = 0 \/ RateSum(t, Children(t, 0)) <= speed

-----------------------------------------------------------------------------
(* Frame filters: [vlans, pcps, ports], lists in the order written.        *)

PcpAccepted(p) == p \in 0..7

\* Ports written as a list are not looked at, single ports and ranges are.
PortsAccepted(f) == Len(f.ports) = 1 => f.ports[1] > 0

FilterAccepted(f) ==
  (\A v \in ToSet(f.vlans) : v \in 0..4095) /\ (\A p \in ToSet(f.pcps) : PcpAccepted(p)) /\ PortsAccepted(f)

-----------------------------------------------------------------------------
(* Traffic classes, streams and policers.                                  *)

TrafficClassValid(c) ==
  /\ ToSet(c.pcps) \cup ToSet(c.ipvs) \subseteq 0..7
  /\ c.pcps # << >> \/ c.ipvs # << >>

\* A policer has the colors that its rates make.
PolicerAccepted(p) ==
  /\ p.cir > 0 /\ p.cbs > 0
  /\ CASE p.type = "single_rate_two_color"   -> p.eir = 0 /\ p.ebs >= 0 /\ ~p.coupling
       [] p.type = "single_rate_three_color" -> p.eir = 0 /\ p.ebs > 0 /\ p.coupling
       [] p.type = "double_rate_three_color" -> p.eir > 0 /\ p.ebs > 0

StreamAccepted(s) ==
  /\ \A f \in ToSet(s.filters) : FilterAccepted(f)
  /\ \A p \in s.policer : PolicerAccepted(p)
  /\ s.ipv \subseteq 0..7

-----------------------------------------------------------------------------
(* Properties.                                                             *)

\* A class and those above it.
Above(t, k) ==
  LET up[m \in DOMAIN t] == {m} \cup (IF t[m].parent = 0 THEN {} ELSE up[t[m].parent]) IN up[k]

\* In an accepted tree that fits its link every leaf can be given its rate at
\* the same time: the rates of the leaves below a class add up to no more than
\* its own, all of them to no more than the speed of the link, and no class
\* above has a ceiling that is lower than the rate.
RatesCanBeGiven(t, default, speed) ==
  HtbAccepted(t, default) /\ FitsLink(t, speed) =>
    /\ \A k \in DOMAIN t : RateSum(t, {m \in Leaves(t) : k \in Above(t, m)}) <= t[k].rate
    /\ speed # 0 => RateSum(t, Leaves(t)) <= speed
    /\ \A k \in DOMAIN t : \A m \in Above(t, k) : t[k].rate <= t[m].ceil

=============================================================================
