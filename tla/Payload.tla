------------------------------ MODULE Payload ------------------------------
(***************************************************************************)
(* Where signals lie: signals in groups, both in PDUs, PDUs in the frames  *)
(* of CAN and LIN buses.  Positions and ranges are in bits, half open; an  *)
(* instance that is not placed has no position.  The lengths of PDUs and   *)
(* frames are in bytes.                                                    *)
(***************************************************************************)
EXTENDS Integers, Sequences, FiniteSets, SequencesExt

\* An instance: at is a set of at most one position.
Placed(at, bits) == [at |-> at, bits |-> bits]

Bits(r) == r[1]..(r[2] - 1)

Start(at) == CHOOSE p \in at : TRUE

\* collect_bit_ranges: the ranges of the instances that are placed.
Ranges(s) ==
  FlattenSeq([k \in DOMAIN s |->
    IF s[k].at = {} THEN << >> ELSE << <<Start(s[k].at), Start(s[k].at) + s[k].bits>> >>])

Within(ranges, length) == \A k \in DOMAIN ranges : ranges[k][2] <= length * 8

\* check_bit_ranges_no_overlap compares every pair.
\* Mutant: neighbours in the list are compared.
NoOverlapNext(ranges) ==
  \A i, j \in DOMAIN ranges : j = i + 1 => ranges[i][1] >= ranges[j][2] \/ ranges[j][1] >= ranges[i][2]

NoOverlap(ranges) ==
  \A i, j \in DOMAIN ranges : i < j => ranges[i][1] >= ranges[j][2] \/ ranges[j][1] >= ranges[i][2]

-----------------------------------------------------------------------------
(* PDUs.                                                                   *)

\* A signal group: [at, members].  It takes up the room to the end of its
\* last member, also before its first one; without a placed member, none.
Footprint(g) == Max({0} \cup {r[2] : r \in ToSet(Ranges(g.members))})

GroupInstance(g) == Placed(IF Footprint(g) = 0 THEN {} ELSE g.at, Footprint(g))

\* A standard PDU: [name, length, signals, groups].
PlacedRanges(signals, groups) ==
  Ranges(signals) \o Ranges([k \in DOMAIN groups |-> GroupInstance(groups[k])])

StandardAccepted(p) ==
  LET ranges == PlacedRanges(p.signals, p.groups)
  IN /\ \A g \in ToSet(p.groups) : NoOverlap(Ranges(g.members))
     /\ Within(ranges, p.length)
     /\ NoOverlap(ranges)

\* A multiplexed PDU: [name, length, selector, static, mux], with at most one
\* static PDU and a list of [value, pdu].  Only the selector is compared, with
\* each group and with the signals (not the groups) of the static PDU.
SelectorApart(p) ==
  p.selector.at # {} =>
    /\ \A g \in ToSet(p.mux) : NoOverlap(Ranges(<<p.selector>>) \o PlacedRanges(g.pdu.signals, g.pdu.groups))
    /\ \A s \in p.static : NoOverlap(Ranges(<<p.selector>>) \o Ranges(s.signals))

MultiplexedAccepted(p) ==
  /\ \A q \in {g.pdu : g \in ToSet(p.mux)} \cup p.static : StandardAccepted(q)
  /\ IsInjective([k \in DOMAIN p.mux |-> p.mux[k].value])
  /\ \A g \in ToSet(p.mux) : g.value < 2^p.selector.bits
  /\ SelectorApart(p)

\* A container PDU: [name, length, idBits, lengthBits, contained].
ContainerAccepted(p) ==
  /\ p.idBits % 8 = 0 /\ p.lengthBits % 8 = 0
  /\ p.length >= Len(p.contained) * ((p.idBits + p.lengthBits) \div 8)
  /\ p.idBits = 0 /\ p.lengthBits = 0 => Len(p.contained) = 1
  /\ p.idBits = 0 <=> p.lengthBits = 0

PduAccepted(p) ==
  /\ p.type = "standard"    => StandardAccepted(p)
  /\ p.type = "multiplexed" => MultiplexedAccepted(p)

-----------------------------------------------------------------------------
(* Frames: [name, type, length, id, format, remote, pdus], where pdus is a *)
(* list of [ref, at].                                                      *)

FdLengths == 0..8 \cup {12, 16, 20, 24, 32, 48, 64}

CanIdAccepted(f) == f.id \in 0..(IF f.format = "standard_11bit" THEN 2^11 - 1 ELSE 2^29 - 1)

PositionsDiffer(f) ==
  LET placed == SelectSeq(f.pdus, LAMBDA x : x.at # {})
  IN IsInjective([k \in DOMAIN placed |-> placed[k].at])

FrameAccepted(f) ==
  /\ PositionsDiffer(f)
  /\ CASE f.type = "can"    -> /\ f.length \in 0..8
                               /\ CanIdAccepted(f)
                               /\ f.remote => f.length = 0
       [] f.type = "can_fd" -> f.length \in FdLengths /\ CanIdAccepted(f)
       [] f.type = "lin"    -> f.length \in 1..8 /\ f.id \in 0..63

\* A CAN bus: [name, rate, fd, fdRate, frames], the rates in kilobits.
CanBusAccepted(b) ==
  /\ b.rate \in {10, 20, 50, 100, 125, 250, 500, 1000}
  /\ b.fd <=> b.fdRate # {}
  /\ b.fdRate \subseteq {2000, 4000, 5000, 8000}
  /\ ~b.fd => \A f \in ToSet(b.frames) : f.type # "can_fd"
  /\ IsInjective([k \in DOMAIN b.frames |-> <<b.frames[k].id, b.frames[k].format>>])

\* A LIN bus: [name, rate, frames, tables], a table being a list of names.
LinBusAccepted(b) ==
  /\ b.rate \in {1200, 2400, 4800, 9600, 10400, 19200}
  /\ \A t \in ToSet(b.tables) : ToSet(t) \subseteq {f.name : f \in ToSet(b.frames)}

-----------------------------------------------------------------------------
(* The channels: [pdus, containers, cans, lins].                           *)

Names(s) == [k \in DOMAIN s |-> s[k].name]

PduNamed(c, n) == CHOOSE p \in ToSet(c.pdus) : p.name = n

FrameRanges(c, f) == Ranges([k \in DOMAIN f.pdus |-> Placed(f.pdus[k].at, PduNamed(c, f.pdus[k].ref).length * 8)])

FramesOf(c) == UNION {ToSet(b.frames) : b \in ToSet(c.cans) \cup ToSet(c.lins)}

RefsKnown(c) == \A f \in FramesOf(c) : \A x \in ToSet(f.pdus) : x.ref \in ToSet(Names(c.pdus))

PlacementsAccepted(c) ==
  \A f \in FramesOf(c) : Within(FrameRanges(c, f), f.length) /\ NoOverlap(FrameRanges(c, f))

ChannelsAccepted(c) ==
  /\ \A p \in ToSet(c.pdus) : PduAccepted(p)
  /\ \A p \in ToSet(c.containers) : ContainerAccepted(p)
  /\ \A f \in FramesOf(c) : FrameAccepted(f)
  /\ \A b \in ToSet(c.cans) : CanBusAccepted(b)
  /\ \A b \in ToSet(c.lins) : LinBusAccepted(b)
  /\ IsInjective(Names(c.pdus)) /\ IsInjective(Names(c.cans)) /\ IsInjective(Names(c.lins))
  /\ RefsKnown(c)
  /\ PlacementsAccepted(c)

-----------------------------------------------------------------------------
(* Properties.                                                             *)

Shifted(bits, by) == {by + i : i \in bits}

GroupBits(g) ==
  LET r == IF g.at = {} THEN << >> ELSE Ranges(g.members)
  IN [k \in DOMAIN r |-> Shifted(Bits(r[k]), Start(g.at))]

\* The bits of a PDU that its signals are sent in: one set for every signal,
\* those in groups among them.
SignalBits(p) ==
  [k \in DOMAIN Ranges(p.signals) |-> Bits(Ranges(p.signals)[k])]
  \o FlattenSeq([n \in DOMAIN p.groups |-> GroupBits(p.groups[n])])

\* Those of a frame, for each of the standard PDUs that are placed in it.
PduBits(c, x) ==
  LET p    == PduNamed(c, x.ref)
      bits == IF p.type = "standard" /\ x.at # {} THEN SignalBits(p) ELSE << >>
  IN [n \in DOMAIN bits |-> Shifted(bits[n], Start(x.at))]

FrameSignals(c, f) == FlattenSeq([k \in DOMAIN f.pdus |-> PduBits(c, f.pdus[k])])

Disjoint(sets) == \A i, j \in DOMAIN sets : i < j => sets[i] \cap sets[j] = {}

\* In accepted channels the signals of all standard PDUs that are placed in a
\* frame have bits of their own, inside the frame, although signals, groups
\* and PDUs are checked at three different levels.
SignalsHaveOwnBits(c) ==
  ChannelsAccepted(c) =>
    \A f \in FramesOf(c) : LET s == FrameSignals(c, f)
                           IN Disjoint(s) /\ UNION ToSet(s) \subseteq 0..(f.length * 8 - 1)

SelectorBits(p) == UNION {Bits(r) : r \in ToSet(Ranges(<<p.selector>>))}

\* Whatever the selector of an accepted multiplexed PDU says, it chooses one
\* group at most, and neither that group nor the signals of the static PDU
\* write over the selector.  The signal groups of the static PDU may.
SelectorReadable(p) ==
  MultiplexedAccepted(p) =>
    \A v \in 0..(2^p.selector.bits - 1) :
      LET active == {g \in ToSet(p.mux) : g.value = v}
      IN /\ Cardinality({k \in DOMAIN p.mux : p.mux[k].value = v}) <= 1
         /\ \A g \in active : SelectorBits(p) \cap (UNION ToSet(SignalBits(g.pdu))) = {}
         /\ \A s \in p.static : SelectorBits(p) \cap (UNION {Bits(r) : r \in ToSet(Ranges(s.signals))}) = {}

\* "Ensure mux group and static signals do not overlap the selector": it does
\* not hold of all signals of the static PDU.
SelectorUntouched(p) ==
  MultiplexedAccepted(p) =>
    \A q \in {g.pdu : g \in ToSet(p.mux)} \cup p.static : SelectorBits(p) \cap (UNION ToSet(SignalBits(q))) = {}

=============================================================================
