-------------------------- MODULE StateManagement --------------------------
(***************************************************************************)
(* Network management groups: who takes part, over which paths the NM PDU  *)
(* of a group reaches its members, and when a group is refused.            *)
(*                                                                         *)
(* A network is [groups, profiles, pdus, buses, ecus]:                     *)
(*   groups    [name, pdu, profile]                                        *)
(*   profiles  [name, cycle, timeout, burst], burst being a set of at most *)
(*             one <<count, cycle, duration>>                              *)
(*   pdus      [name, usage, flags, contained]                             *)
(*   buses     [kind, name, rate, frames, memberships], the rate in bits   *)
(*             per millisecond, a frame [id, packed, length, cycles] with  *)
(*             an identifier that no other bus of the name has             *)
(*   ecus      [name, memberships, controllers], a controller              *)
(*             [name, memberships, sends, receives, ifaces] with the PDUs  *)
(*             of its sockets, and an interface [kind, bus, master, sends, *)
(*             receives] with frame identifiers                            *)
(* A membership: [group, role, bits].                                      *)
(***************************************************************************)
EXTENDS Integers, Sequences, FiniteSets, SequencesExt

\* observer_owns_no_bit and no_duplicate_bits; bits is a list.
MembershipAccepted(r) == (r.role = "observer" => r.bits = << >>) /\ IsInjective(r.bits)

ProfileAccepted(p) ==
  /\ p.timeout > p.cycle
  /\ \A b \in p.burst : b[2] < p.cycle /\ b[1] * b[2] <= b[3]

-----------------------------------------------------------------------------
(* The effective members of a group.                                       *)

Member(r, kind, of, ecu) ==
  {[kind |-> kind, of |-> of, ecu |-> ecu, role |-> r.role, bit |-> b] :
     b \in IF r.role = "observer" THEN {"none"}
           ELSE IF r.bits = << >> THEN {of} ELSE ToSet(r.bits)}

Of(g, refs) == {r \in refs : r.group = g}

EffectiveMembers(n, g) ==
  LET ofEcu(e)    == UNION {Member(r, "ecu", e.name, e.name) : r \in Of(g, e.memberships)}
      ofCtl(e, c) == UNION {Member(r, "controller", c.name, e.name) : r \in Of(g, c.memberships)}
      ofBus(b)    == UNION {Member(r, "bus", b.name, "none") : r \in Of(g, b.memberships)}
  IN (UNION {ofEcu(e) \cup (UNION {ofCtl(e, c) : c \in e.controllers}) : e \in n.ecus})
     \cup (UNION {ofBus(b) : b \in n.buses})

Participants(n, g) == {m \in EffectiveMembers(n, g) : m.role = "participant"}

References(n) ==
  (UNION {e.memberships \cup (UNION {c.memberships : c \in e.controllers}) : e \in n.ecus})
  \cup (UNION {b.memberships : b \in n.buses})

-----------------------------------------------------------------------------
(* Paths.  Buses and frames are found by the name of the bus alone.        *)

BusNamed(n, name) == {b \in n.buses : b.name = name}

LinNames(n) == {b.name : b \in {b \in n.buses : b.kind = "lin"}}

PdusOn(n, bus, ids) ==
  UNION {UNION {f.packed : f \in {f \in b.frames : f.id \in ids}} : b \in BusNamed(n, bus)}

WithContained(n, names) == names \cup (UNION {p.contained : p \in {p \in n.pdus : p.name \in names}})

SentBy(n, e) ==
  UNION {WithContained(n, c.sends) \cup (UNION {PdusOn(n, i.bus, i.sends) : i \in c.ifaces}) : c \in e.controllers}

ReceivedBy(n, e) ==
  UNION {WithContained(n, c.receives) \cup (UNION {PdusOn(n, i.bus, i.receives) : i \in c.ifaces}) : c \in e.controllers}

Interfaces(e) == UNION {c.ifaces : c \in e.controllers}

AttachedTo(n, ecu) == UNION {{i.bus : i \in Interfaces(e)} : e \in {e \in n.ecus : e.name = ecu}}

-----------------------------------------------------------------------------
(* The checks of one group.                                                *)

BasicsAccepted(n, g) ==
  /\ Participants(n, g.name) # {}
  /\ \E p \in n.pdus : p.name = g.pdu /\ p.usage = "network_management"
  /\ \E t \in n.profiles : t.name = g.profile

\* Silent when the NM PDU has no flags at all.
BitsAccepted(n, g) ==
  \A p \in n.pdus : p.name = g.pdu /\ p.flags # {} =>
    \A m \in Participants(n, g.name) : m.bit \in p.flags

WholeBuses(n, g) == {m.of : m \in {m \in Participants(n, g.name) : m.kind = "bus"}} \ LinNames(n)

\* Mutant: only a membership of the ECU itself is looked at.
OneVariantEcuOnly(n, g) ==
  \A m \in Participants(n, g.name) :
    m.kind = "ecu" => AttachedTo(n, m.ecu) \cap WholeBuses(n, g) = {}

OneVariantPerBus(n, g) ==
  \A m \in Participants(n, g.name) :
    m.kind \in {"ecu", "controller"} => AttachedTo(n, m.ecu) \cap WholeBuses(n, g) = {}

EcuMemberReached(n, g, m) ==
  \A e \in n.ecus : e.name = m.ecu =>
    /\ m.role = "participant" => g.pdu \in SentBy(n, e)
    /\ g.pdu \in ReceivedBy(n, e)

\* A LIN bus: an ECU that masters it sends or receives the PDU somewhere.
LinBusReached(n, g, name) ==
  \E e \in n.ecus :
    /\ \E i \in Interfaces(e) : i.kind = "lin" /\ i.bus = name /\ i.master
    /\ g.pdu \in SentBy(n, e) \cup ReceivedBy(n, e)

CanBusReached(n, g, name) ==
  \A b \in BusNamed(n, name) :
    {f.id : f \in {f \in b.frames : g.pdu \in f.packed}}
      \cap UNION {i.sends : i \in {i \in UNION {Interfaces(e) : e \in n.ecus} : i.bus = name}} # {}

MemberReached(n, g, m) ==
  /\ m.kind = "bus" /\ m.of \in LinNames(n)    => LinBusReached(n, g, m.of)
  /\ m.kind = "bus" /\ m.of \notin LinNames(n) => CanBusReached(n, g, m.of)
  /\ m.kind # "bus"                            => EcuMemberReached(n, g, m)

GroupAccepted(n, g) ==
  /\ BasicsAccepted(n, g)
  /\ BitsAccepted(n, g)
  /\ OneVariantPerBus(n, g)
  /\ \A m \in EffectiveMembers(n, g.name) : MemberReached(n, g, m)

\* Only warned about, with the bus it is on: a frame of the NM PDU whose cyclic
\* timing is not the cycle of the profile, or whose cycle is too short to send
\* it in (47 bits and the payload).
FrameBits(length) == 47 + 8 * length

Cadence(cycles, cycle) == IF cycles = {} THEN cycle ELSE Min(cycles)

NmFrames(g, b) == {f \in b.frames : g.pdu \in f.packed}

TimingWarnings(n, g) ==
  {b.name : b \in {b \in n.buses : b.kind = "can" /\ \E t \in n.profiles : t.name = g.profile /\
     \E f \in NmFrames(g, b) : \/ f.cycles \ {t.cycle} # {}
                               \/ Cadence(f.cycles, t.cycle) * b.rate < FrameBits(f.length)}}

NamesDiffer(S) == \A x, y \in S : x.name = y.name => x = y

StateManagementAccepted(n) ==
  /\ NamesDiffer(n.groups) /\ NamesDiffer(n.profiles)
  /\ \A r \in References(n) : MembershipAccepted(r)
  /\ \A p \in n.profiles : ProfileAccepted(p)
  /\ {r.group : r \in References(n)} \subseteq {g.name : g \in n.groups}
  /\ \A g \in n.groups : GroupAccepted(n, g)

-----------------------------------------------------------------------------
(* Properties.                                                             *)

\* How an ECU gets or gives a PDU: at a socket, or on a bus.
Bindings(n, e, pdu) ==
  {"socket" : c \in {c \in e.controllers : pdu \in WithContained(n, c.sends \cup c.receives)}}
  \cup {i.bus : i \in {i \in Interfaces(e) : pdu \in PdusOn(n, i.bus, i.sends \cup i.receives)}}

\* In an accepted network whoever takes part in a group has its say and hears
\* the others: a CAN bus is one participant or each of its ECUs is, never both;
\* the master of a LIN bus knows the group from another binding, as long as
\* LIN carries no NM PDU and no two buses share a name; and where there is no
\* warning about a CAN bus its NM frames are through before the others give up.
NmPdus(n) == {g.pdu : g \in n.groups}

MembersInformed(n) ==
  StateManagementAccepted(n) /\ NamesDiffer(n.buses) =>
    \A g \in n.groups : \A b \in n.buses :
      LET inGroup == \E m \in Participants(n, g.name) : m.kind = "bus" /\ m.of = b.name
      IN /\ inGroup /\ b.kind = "can" =>
              \A e \in n.ecus : (\E i \in Interfaces(e) : i.bus = b.name) =>
                \A m \in Participants(n, g.name) : m.ecu # e.name
         /\ inGroup /\ b.kind = "lin" /\ (\A f \in b.frames : f.packed \cap NmPdus(n) = {}) =>
              \E e \in n.ecus : /\ \E i \in Interfaces(e) : i.bus = b.name /\ i.master
                                /\ Bindings(n, e, g.pdu) \ {b.name} # {}
         /\ b.kind = "can" /\ b.name \notin TimingWarnings(n, g) =>
              \A f \in NmFrames(g, b) : \A t \in {t \in n.profiles : t.name = g.profile} :
                /\ Cadence(f.cycles, t.cycle) < t.timeout
                /\ FrameBits(f.length) < t.timeout * b.rate

=============================================================================
