----------------------------- MODULE Forwarding -----------------------------
(***************************************************************************)
(* PDU and frame forwarders of the controllers: the references they use,   *)
(* the carriers they may send to, and the search for forwarding cycles.    *)
(*                                                                         *)
(* A network is [pdus, frames, sockets, ifaces, fwds]:                     *)
(*   pdus     [name, length, contained], contained being empty unless the  *)
(*            PDU is a container, and otherwise a set of one list of names *)
(*   frames   in the order of the buses: [name, bus, id, length, packed]   *)
(*   sockets  [ecu, ctrl, name, sends, receives, group], with names of     *)
(*            PDUs; group has the endpoint address if that is multicast    *)
(*   ifaces   CAN interfaces: [ecu, ctrl, bus, sends], with frame ids      *)
(*            both in the order of ECUs and controllers                    *)
(*   fwds     [kind, ecu, ctrl, at, ref, egresses]: kind "pdu" on a socket *)
(*            or "can" on the interface of a bus, forwarding the PDU or    *)
(*            the frame ref; first those of the sockets, then the others,  *)
(*            each in the order of ECUs and controllers                    *)
(* An egress: [kind, to, id, extract]; "can" goes to the frame id on the   *)
(* bus to, "eth" to the socket to; extract has at most one name.           *)
(***************************************************************************)
EXTENDS Integers, Sequences, FiniteSets, SequencesExt

PduEntry(n, name) == {p \in n.pdus : p.name = name}

\* The catalogues are dictionaries: of several frames with one name, or with
\* one identifier on one bus, the last is found.
LastOf(ks) == IF ks = {} THEN {} ELSE {Max(ks)}

LastEntry(s, ks) == {s[k] : k \in LastOf(ks)}

FrameByName(n, name) == LastEntry(n.frames, {k \in DOMAIN n.frames : n.frames[k].name = name})

FrameById(n, bus, id) ==
  LastEntry(n.frames, {k \in DOMAIN n.frames : n.frames[k].bus = bus /\ n.frames[k].id = id})

\* The only PDU of a frame, if it has only one.
SinglePdu(f) == IF Len(f.packed) = 1 THEN {f.packed[1]} ELSE {}

\* The name of the PDU that comes in at a forwarder, and the one that leaves.
Ingress(n, w) == IF w.kind = "pdu" THEN {w.ref} ELSE UNION {SinglePdu(f) : f \in FrameByName(n, w.ref)}

AfterExtract(refs, egress) == IF egress.extract = {} THEN refs ELSE egress.extract

-----------------------------------------------------------------------------
(* validate_pdu_deployment_refs, validate_forwarder_refs.                  *)

DeploymentsKnown(n) == \A s \in ToSet(n.sockets) : \A r \in s.sends \cup s.receives : PduEntry(n, r) # {}

\* Nothing is said about an extract when the PDU that comes in is not known.
ExtractAccepted(n, ref, egress) ==
  \A x \in egress.extract : \A r \in ref : \A p \in PduEntry(n, r) :
    \E c \in p.contained : Cardinality({k \in DOMAIN c : c[k] = x}) = 1

Fits(n, ref, egress) ==
  LET leaving == IF egress.extract = {} \/ UNION {PduEntry(n, r) : r \in ref} = {} THEN ref ELSE egress.extract
  IN \A f \in FrameById(n, egress.to, egress.id) : \A r \in leaving : \A p \in PduEntry(n, r) : p.length <= f.length

RefsAccepted(n, w) ==
  /\ IF w.kind = "pdu" THEN PduEntry(n, w.ref) # {} ELSE FrameByName(n, w.ref) # {}
  /\ \A e \in ToSet(w.egresses) :
       /\ ExtractAccepted(n, Ingress(n, w), e)
       /\ e.kind = "can" => FrameById(n, e.to, e.id) # {} /\ Fits(n, Ingress(n, w), e)

\* _check_egress_uniqueness, when the forwarder is read.
EgressesDiffer(w) ==
  IsInjective([k \in DOMAIN w.egresses |-> <<w.egresses[k].kind, w.egresses[k].to, w.egresses[k].id>>])

\* One forwarder for a PDU at a socket and for a frame at an interface.
ForwardersDiffer(n) ==
  IsInjective([k \in DOMAIN n.fwds |->
    <<n.fwds[k].kind, n.fwds[k].ecu, n.fwds[k].ctrl, n.fwds[k].at, n.fwds[k].ref>>])

-----------------------------------------------------------------------------
(* validate_forwarder_locality.  Carriers are found by the name of the     *)
(* controller, whatever its ECU: again the last one.                       *)

SocketsAt(n, ctrl, name) ==
  LastEntry(n.sockets, {k \in DOMAIN n.sockets : n.sockets[k].ctrl = ctrl /\ n.sockets[k].name = name})

IfacesAt(n, ctrl, bus) ==
  LastEntry(n.ifaces, {k \in DOMAIN n.ifaces : n.ifaces[k].ctrl = ctrl /\ n.ifaces[k].bus = bus})

LocalEth(n, w, e) ==
  \E r \in AfterExtract(Ingress(n, w), e) : \E s \in SocketsAt(n, w.ctrl, e.to) : r \in s.sends

\* Without a single packed PDU there is nothing an extract could be taken from.
EthResolvable(n, w) == Ingress(n, w) # {}

LocalCan(n, w, e) ==
  \E i \in IfacesAt(n, w.ctrl, e.to) : e.id \in i.sends /\ FrameById(n, e.to, e.id) # {}

LocalAccepted(n, w) ==
  \A e \in ToSet(w.egresses) :
    IF e.kind = "eth" THEN EthResolvable(n, w) /\ LocalEth(n, w, e) ELSE LocalCan(n, w, e)

-----------------------------------------------------------------------------
(* detect_forwarder_cycles.                                                *)

\* The two indexes keep the last forwarder of a key.  For a CAN frame the key
\* is the bus and the identifier: one forwarder, of all the controllers that
\* receive it.
PduForwarderAt(n, ctrl, socket, ref) ==
  LastOf({k \in DOMAIN n.fwds : /\ n.fwds[k].kind = "pdu" /\ n.fwds[k].ctrl = ctrl
                                /\ n.fwds[k].at = socket /\ n.fwds[k].ref = ref})

CanForwarderAt(n, bus, id) ==
  LastOf({k \in DOMAIN n.fwds : /\ n.fwds[k].kind = "can" /\ n.fwds[k].at = bus
                                /\ \E f \in FrameByName(n, n.fwds[k].ref) : f.id = id})

\* Mutant: an egress to a CAN bus ends the walk.
NeighboursEthOnly(n, k) ==
  UNION {UNION {PduForwarderAt(n, n.fwds[k].ctrl, e.to, r) : r \in AfterExtract(Ingress(n, n.fwds[k]), e)} :
           e \in {e \in ToSet(n.fwds[k].egresses) : e.kind = "eth"}}

NextForwarders(n, k) ==
  LET w == n.fwds[k]
  IN UNION {IF e.kind = "can" THEN CanForwarderAt(n, e.to, e.id)
            ELSE UNION {PduForwarderAt(n, w.ctrl, e.to, r) : r \in AfterExtract(Ingress(n, w), e)} :
              e \in ToSet(w.egresses)}

\* Three colours: gray forwarders are those on the path that is followed, black
\* ones are done.
Colours(path, black, cycle) == [path |-> path, black |-> black, cycle |-> cycle]

\* What can be visited from here: a neighbour of the last forwarder on the path,
\* or any forwarder when a new path is begun.
Ahead(n, st) ==
  (IF st.path = << >> THEN DOMAIN n.fwds ELSE NextForwarders(n, Last(st.path))) \ st.black

\* _dfs, _visit_neighbour, detect: go on to a white forwarder, or go back.
VisitNext(n, st) ==
  LET v == CHOOSE v \in Ahead(n, st) : TRUE
  IN IF st.cycle \/ (Ahead(n, st) = {} /\ st.path = << >>) THEN st
     ELSE IF Ahead(n, st) = {} THEN Colours(Front(st.path), st.black \cup {Last(st.path)}, FALSE)
     ELSE IF v \in ToSet(st.path) THEN Colours(st.path, st.black, TRUE)
     ELSE Colours(Append(st.path, v), st.black, FALSE)

\* Every forwarder is entered once and left once.
CycleFound(n) ==
  LET search[k \in 0..2 * Len(n.fwds)] ==
        IF k = 0 THEN Colours(<< >>, {}, FALSE) ELSE VisitNext(n, search[k - 1])
  IN search[2 * Len(n.fwds)].cycle

ForwardingAccepted(n) ==
  /\ \A k \in DOMAIN n.fwds : EgressesDiffer(n.fwds[k])
  /\ ForwardersDiffer(n)
  /\ DeploymentsKnown(n)
  /\ \A k \in DOMAIN n.fwds : RefsAccepted(n, n.fwds[k])
  /\ \A k \in DOMAIN n.fwds : LocalAccepted(n, n.fwds[k])
  /\ ~CycleFound(n)

-----------------------------------------------------------------------------
(* Properties.                                                             *)

SocketKey(x, name) == <<x.ecu, x.ctrl, name>>

\* What is sent on a socket is heard there, and on every other socket with the
\* same multicast address ("unicast/multicast follows the target's
\* endpoint_address").
HeardAt(n, from, at) ==
  \/ from = at
  \/ \E s, t \in ToSet(n.sockets) :
       SocketKey(s, s.name) = from /\ SocketKey(t, t.name) = at /\ s.group # {} /\ s.group = t.group

\* What really receives: every forwarder of the frame on its bus, whatever its
\* controller, and every forwarder of the PDU at a socket that hears it,
\* whatever its ECU.
Receives(n, k, m) ==
  LET w == n.fwds[k]
      v == n.fwds[m]
  IN \E e \in ToSet(w.egresses) :
       IF e.kind = "can"
       THEN v.kind = "can" /\ v.at = e.to /\ \E f \in ToSet(n.frames) : f.name = v.ref /\ f.bus = v.at /\ f.id = e.id
       ELSE /\ v.kind = "pdu" /\ HeardAt(n, SocketKey(w, e.to), SocketKey(v, v.at))
            /\ v.ref \in AfterExtract(Ingress(n, w), e)

\* Forwarders of which each sends to one of them: there is a loop among them.
Circular(n) ==
  \E ks \in SUBSET DOMAIN n.fwds : ks # {} /\ \A k \in ks : \E m \in ks : Receives(n, k, m)

FrameNamesApart(n) == IsInjective([k \in DOMAIN n.frames |-> n.frames[k].name])

\* "Verifies the forwarder graph is acyclic": nothing that is forwarded comes
\* back to its forwarder, even when every frame has a name of its own.
ForwardingEnds(n) == FrameNamesApart(n) /\ ForwardingAccepted(n) => ~Circular(n)

\* No two forwarders share a key of an index: no two on a bus with frames of
\* one identifier, and controllers with names of their own.
KeysApart(n) ==
  /\ \A k, m \in DOMAIN n.fwds : n.fwds[k].ctrl = n.fwds[m].ctrl => n.fwds[k].ecu = n.fwds[m].ecu
  /\ \A k, m \in DOMAIN n.fwds :
       k < m /\ n.fwds[k].kind = "can" /\ n.fwds[m].kind = "can" /\ n.fwds[k].at = n.fwds[m].at =>
         \A f \in FrameByName(n, n.fwds[k].ref), g \in FrameByName(n, n.fwds[m].ref) : f.id # g.id

\* No forwarder is at a socket that hears what forwarders send on another one.
SocketsApart(n) ==
  \A k, m \in DOMAIN n.fwds : \A e \in ToSet(n.fwds[k].egresses) :
    LET from == SocketKey(n.fwds[k], e.to)
        at   == SocketKey(n.fwds[m], n.fwds[m].at)
    IN e.kind # "can" /\ n.fwds[m].kind = "pdu" /\ HeardAt(n, from, at) => from = at

\* Forwarding ends when the search can tell the forwarders apart, on all the
\* buses and at the sockets of one controller; loops over the sockets of two
\* ECUs it does not see.
ForwardingEndsIfApart(n) == KeysApart(n) /\ SocketsApart(n) => ForwardingEnds(n)

ForwardingEndsOverEthernet(n) == KeysApart(n) => ForwardingEnds(n)

=============================================================================
