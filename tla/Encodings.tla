----------------------------- MODULE Encodings -----------------------------
(***************************************************************************)
(* Signals as values: which bit lengths, initial values and text encodings *)
(* a signal accepts, and what a raw value then reads as.  A bit mask is    *)
(* the set of its bits.                                                    *)
(***************************************************************************)
EXTENDS Binary, Integers, Sequences, FiniteSets, SequencesExt

Widths == [uint8 |-> 8, uint16 |-> 16, uint32 |-> 32, uint64 |-> 64,
           int8 |-> 8, int16 |-> 16, int32 |-> 32, int64 |-> 64,
           float32 |-> 32, float64 |-> 64, char |-> 8, bytearray |-> 8]

Float    == {"float32", "float64"}
Unsigned == {"uint8", "uint16", "uint32", "uint64"}
Signed   == {"int8", "int16", "int32", "int64"}
Complex  == {"char", "bytearray"}

BitLengthAccepted(type, bits) ==
  CASE type \in Complex -> bits >= Widths[type] /\ bits % Widths[type] = 0
    [] type \in Float   -> bits = Widths[type]
    [] OTHER            -> bits <= Widths[type]

\* _raw_value_bounds and the bounds of an integer initial value.
Lowest(type, bits)  == IF type \in Unsigned THEN 0 ELSE -Pow2[bits - 1]
Highest(type, bits) == IF type \in Unsigned THEN Pow2[bits] - 1 ELSE Pow2[bits - 1] - 1

Raw(s) == Lowest(s.type, s.bits)..Highest(s.type, s.bits)

\* An entry or a state: [label, from, to], value standing for both.
RangesApart(entries) ==
  \A i, j \in DOMAIN entries : i < j => entries[i].from > entries[j].to \/ entries[j].from > entries[i].to

Bounded(entries) == \A e \in ToSet(entries) : e.from <= e.to

Labels(entries) == [k \in DOMAIN entries |-> entries[k].label]

TextTableAccepted(entries) == Bounded(entries) /\ RangesApart(entries)

\* A group: [name, mask, states].  Only the two ends of a state are compared
\* with the mask.
\* Mutant: the states of a group may overlap.
BitfieldGroupOverlapping(g) ==
  /\ Bounded(g.states)
  /\ IsInjective(Labels(g.states))
  /\ \A s \in ToSet(g.states) : BitsOf(s.from) \cup BitsOf(s.to) \subseteq g.mask

BitfieldGroupAccepted(g) ==
  /\ Bounded(g.states)
  /\ IsInjective(Labels(g.states))
  /\ \A s \in ToSet(g.states) : BitsOf(s.from) \cup BitsOf(s.to) \subseteq g.mask
  /\ RangesApart(g.states)

MasksApart(s) == \A i, j \in DOMAIN s : i < j => s[i].mask \cap s[j].mask = {}

BitfieldsAccepted(groups) ==
  /\ \A g \in ToSet(groups) : BitfieldGroupAccepted(g)
  /\ IsInjective([k \in DOMAIN groups |-> groups[k].name])
  /\ MasksApart(groups)

FlagsAccepted(flags) == IsInjective(Labels(flags)) /\ MasksApart(flags)

\* The encoding fits the signal.
EncodingFits(s) ==
  CASE s.encoding.type = "none"                -> TRUE
    [] s.encoding.type = "text_table"          ->
         \A e \in ToSet(s.encoding.items) : {e.from, e.to} \subseteq Raw(s)
    [] s.encoding.type \in {"bitfield_text_table", "bitmask_flags"} ->
         \A g \in ToSet(s.encoding.items) : ValueOf(g.mask) <= Pow2[s.bits] - 1

EncodingAccepted(e) ==
  CASE e.type = "none"                -> TRUE
    [] e.type = "text_table"          -> TextTableAccepted(e.items)
    [] e.type = "bitfield_text_table" -> BitfieldsAccepted(e.items)
    [] e.type = "bitmask_flags"       -> FlagsAccepted(e.items)

\* A signal: [type, bits, factor, lower, upper, initial, encoding], where
\* lower, upper and initial are sets of at most one number.
SignalAccepted(s) ==
  /\ s.factor # 0
  /\ BitLengthAccepted(s.type, s.bits)
  /\ \A l \in s.lower : \A u \in s.upper : l <= u
  /\ s.type \in Unsigned \cup Signed => s.initial \subseteq Raw(s)
  /\ s.encoding.type # "none" => s.type \in Unsigned \cup Signed
  /\ EncodingAccepted(s.encoding)
  /\ EncodingFits(s)

-----------------------------------------------------------------------------
(* Properties.                                                             *)

\* The bits that a raw value is sent as, and what is read from them again.
Pattern(s, v) == IF v >= 0 THEN BitsOf(v) ELSE BitsOf(v + Pow2[s.bits])

ReadBack(s, bits) ==
  LET n == ValueOf(bits)
  IN IF s.type \in Signed /\ (s.bits - 1) \in bits THEN n - Pow2[s.bits] ELSE n

Active(entries, v) == {k \in DOMAIN entries : v \in entries[k].from..entries[k].to}

\* What is read at the bits of a group: raw & mask.
At(g, v) == ValueOf(BitsOf(v) \cap g.mask)

\* What an accepted integer signal can hold survives being sent, its initial
\* value first of all.  No raw value reads as two entries of a text table or as
\* two states of a bit field group, and any choice of states of the groups can
\* be sent together.  It may read as none, and two entries may have one label.
EncodingsRead(s) ==
  SignalAccepted(s) =>
    /\ s.type \in Unsigned \cup Signed =>
         \A v \in s.initial \cup Raw(s) :
           Pattern(s, v) \subseteq 0..(s.bits - 1) /\ ReadBack(s, Pattern(s, v)) = v
    /\ s.encoding.type = "text_table" =>
         \A v \in Raw(s) : Cardinality(Active(s.encoding.items, v)) <= 1
    /\ s.encoding.type = "bitfield_text_table" =>
         LET groups == s.encoding.items
             states == UNION {DOMAIN g.states : g \in ToSet(groups)}
         IN /\ \A v \in 0..(Pow2[s.bits] - 1) : \A g \in ToSet(groups) : Cardinality(Active(g.states, At(g, v))) <= 1
            /\ \A pick \in [DOMAIN groups -> states] :
                 (\A k \in DOMAIN groups : pick[k] \in DOMAIN groups[k].states) =>
                   \E v \in 0..(Pow2[s.bits] - 1) : \A k \in DOMAIN groups :
                     pick[k] \in Active(groups[k].states, At(groups[k], v))

\* "Exactly one state is active per group at any time": a signal may hold a
\* value that no state of a group stands for.
OneStateActive(s) ==
  SignalAccepted(s) /\ s.encoding.type = "bitfield_text_table" =>
    \A v \in 0..(Pow2[s.bits] - 1) : \A g \in ToSet(s.encoding.items) : Active(g.states, At(g, v)) # {}

\* "labels must be unique within the table": nobody compares them.
LabelsDiffer(s) ==
  SignalAccepted(s) /\ s.encoding.type = "text_table" => IsInjective(Labels(s.encoding.items))

=============================================================================
