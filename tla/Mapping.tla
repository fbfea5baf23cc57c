------------------------------ MODULE Mapping ------------------------------
(***************************************************************************)
(* The forward mapping: which ARXML element corresponds to a FLYNC element *)
(* and how sure that is (scripts/mapping_v3).                              *)
(***************************************************************************)
EXTENDS Arxml

Property(key, leaves, required) == [key |-> key, leaves |-> leaves, required |-> required]

RuleFor(tags, properties) == [tags |-> tags, properties |-> properties]

\* RULES, a category of each kind: without properties, with required ones, with
\* optional ones, with several leaves for one, and the one with rules of its own.
RuleOfCategory(category) ==
  CASE category = "ecu"           -> RuleFor({"ECU-INSTANCE", "MACHINE-DESIGN", "MACHINE"}, {})
    [] category = "can_frame"     -> RuleFor({"CAN-FRAME-TRIGGERING", "CAN-FRAME"},
                                          {Property("can_id", {"IDENTIFIER"}, TRUE),
                                           Property("length", {"FRAME-LENGTH"}, TRUE)})
    [] category = "pdu"           -> RuleFor({"I-SIGNAL-I-PDU", "MULTIPLEXED-I-PDU", "CONTAINER-I-PDU", "N-PDU"},
                                          {Property("length", {"LENGTH"}, TRUE),
                                           Property("pdu_id", {"HEADER-ID-LONG-HEADER", "HEADER-ID"}, FALSE)})
    [] category = "vlan"          -> RuleFor({"VLAN", "ETHERNET-PHYSICAL-CHANNEL"}, {Property("id", {"VLAN-IDENTIFIER"}, TRUE)})
    [] category = "someip_method" -> RuleFor({"CLIENT-SERVER-OPERATION"}, {Property("id", {"METHOD-IDENTIFIER", "METHOD-ID"}, TRUE)})
    [] category = "someip_field"  -> RuleFor({"FIELD"}, {Property("getter_id", {"GETTER-IDENTIFIER"}, TRUE),
                                                      Property("setter_id", {"SETTER-IDENTIFIER"}, TRUE),
                                                      Property("notifier_id", {"NOTIFIER-IDENTIFIER"}, TRUE)})
    [] category = "socket"        -> RuleFor({"SOCKET-ADDRESS"},
                                          {Property("port_no", {"PORT-NUMBER"}, TRUE), Property("protocol", {"PROTOCOL"}, TRUE),
                                           Property("endpoint_address", {"IPV-4-ADDRESS"}, TRUE)})

\* The properties of a rule the FLYNC element has a value for.
Given(e) == {p \in RuleOfCategory(e.category).properties : p.key \in DOMAIN e.properties}

Available(doc, e) == WithTags(doc, RuleOfCategory(e.category).tags)

-----------------------------------------------------------------------------
(* The candidates.                                                         *)

Similar(name, part) == name # << >> /\ part \in SubSeqs(name)

\* An anchor of its own is also that the names are equal.
ContextAnchors(doc, e, c) ==
  {<<"context", k>> : k \in {k \in DOMAIN e.context : e.context[k] \in ToSet(Hierarchy(doc, c))}}
  \cup IF doc[c].name = e.name THEN {<<"name">>} ELSE {}

Agreeing(doc, e, c) == {p \in Given(e) : SomeSame(e.properties[p.key], Values(doc, c, p.leaves))}

\* A port, and a whole number that several elements have, only support.
OnlySupports(doc, e, p) ==
  \/ p.key = "port_no"
  \/ /\ e.properties[p.key].int
     /\ Cardinality({c \in Available(doc, e) : p \in Agreeing(doc, e, c)}) > 1

EndpointFound(doc, e, c) ==
  /\ e.category = "socket" /\ "endpoint_address" \in DOMAIN e.properties
  /\ \E r \in ReferencesOf(doc, c) : \E t \in Resolve(doc, r, c).targets :
       SomeSame(e.properties["endpoint_address"], Values(doc, t, {"IPV-4-ADDRESS"}))

Anchors(doc, e, c) ==
  Cardinality(ContextAnchors(doc, e, c))
  + Cardinality({p \in Agreeing(doc, e, c) : ~OnlySupports(doc, e, p)})
  + IF EndpointFound(doc, e, c) THEN 1 ELSE 0

Supporting(doc, e, c) ==
  Cardinality({p \in Agreeing(doc, e, c) : OnlySupports(doc, e, p)})
  + IF Similar(doc[c].name, e.name) THEN 1 ELSE 0

\* Mutant: any credible candidate will do.
FirstCandidate(doc, e) ==
  LET credible == {c \in Available(doc, e) : Anchors(doc, e, c) > 0}
  IN {c \in credible : \A d \in credible : c <= d}

\* select_candidates: the strongest of those with an anchor.
SelectCandidates(doc, e) ==
  LET credible == {c \in Available(doc, e) : Anchors(doc, e, c) > 0}
      stronger(c, d) == \/ Anchors(doc, e, c) > Anchors(doc, e, d)
                        \/ /\ Anchors(doc, e, c) = Anchors(doc, e, d)
                           /\ Supporting(doc, e, c) > Supporting(doc, e, d)
  IN {c \in credible : \A d \in credible : ~stronger(d, c)}

-----------------------------------------------------------------------------
(* The evidence and the status.                                            *)

\* Strong evidence is any but that of names, types and contexts.
Evidence(result, required, strong) == [result |-> result, required |-> required, strong |-> strong]

Compared(doc, candidates, expected, leaves, required) ==
  LET actual == UNION {Values(doc, c, leaves) : c \in candidates}
  IN Evidence(CASE actual = {}                -> "missing"
                [] SomeSame(expected, actual) -> "match"
                [] OTHER                      -> "mismatch", required, TRUE)

ReferenceResult(resolution) ==
  CASE resolution.state = "resolved"  -> "match"
    [] resolution.state = "ambiguous" -> "ambiguous"
    [] OTHER                          -> "unresolved"

AmbiguityEvidence(candidates) ==
  IF Cardinality(candidates) > 1 THEN {Evidence("ambiguous", TRUE, FALSE)} ELSE {}

ReferenceEvidence(doc, candidates) ==
  {Evidence(ReferenceResult(Resolve(doc, r.ref, r.of)), FALSE, TRUE) :
     r \in UNION {{[of |-> c, ref |-> r] : r \in ReferencesOf(doc, c)} : c \in candidates}}

\* _special_evidence: what is known of a socket from where it is declared.
SocketLeaves ==
  [port |-> {"PORT-NUMBER"}, protocol |-> {"PROTOCOL", "TCP-UDP-CONFIG"}, ip |-> {"IPV-4-ADDRESS"}, vlan |-> {"VLAN-IDENTIFIER"}]

SocketEvidence(doc, e, candidates) ==
  IF e.category # "socket" THEN {}
  ELSE {Compared(doc, candidates, e.socket[k], SocketLeaves[k], k # "vlan") : k \in DOMAIN e.socket}

EvidenceOf(doc, e, candidates) ==
  {Compared(doc, candidates, e.properties[p.key], p.leaves, p.required) : p \in Given(e)}
  \cup AmbiguityEvidence(candidates) \cup SocketEvidence(doc, e, candidates)
  \cup ReferenceEvidence(doc, candidates)

\* calculate_status
Status(candidates, evidence) ==
  CASE candidates = {} -> "Not mapped"
    [] /\ candidates # {}
       /\ \A x \in evidence : x.required => x.result = "match"
       /\ \E x \in evidence : x.result = "match" /\ x.strong
       /\ \A x \in evidence : x.result # "ambiguous" -> "Mapped"
    [] OTHER -> "Partial"

Row(doc, e) ==
  LET candidates == SelectCandidates(doc, e)
  IN [elements |-> candidates, status |-> Status(candidates, EvidenceOf(doc, e, candidates))]

-----------------------------------------------------------------------------
(* Properties.                                                             *)

\* An element a row has nothing to do with: no element below it, of no type the
\* rule looks for, and no reference could mean it.
Unrelated(doc, tags, x) ==
  /\ doc[x].name # << >> /\ doc[x].tag \notin tags
  /\ \A n \in DOMAIN doc : doc[n].parent # x
  /\ \A n \in DOMAIN doc : \A r \in doc[n].refs : Last(r.path) # doc[x].name

Except(doc, x) == [n \in DOMAIN doc \ {x} |-> doc[n]]

\* Whatever speaks for c speaks for d, too.
FitsAsWell(doc, e, c, d) ==
  /\ doc[c].name = e.name => doc[d].name = e.name
  /\ Similar(doc[c].name, e.name) => Similar(doc[d].name, e.name)
  /\ \A k \in DOMAIN e.context : e.context[k] \in ToSet(Hierarchy(doc, c)) => e.context[k] \in ToSet(Hierarchy(doc, d))
  /\ Agreeing(doc, e, c) \subseteq Agreeing(doc, e, d)
  /\ EndpointFound(doc, e, c) => EndpointFound(doc, e, d)

\* What "Mapped" stands for: one element, with the values FLYNC demands and
\* without a reference that could mean two, while there is no other element that
\* all of its evidence fits.  A row does not depend on unrelated elements.
MappedTruly(doc, e) ==
  LET row == Row(doc, e) IN
  /\ row.status = "Mapped" =>
       \E c \in row.elements :
         /\ row.elements = {c}
         /\ {p \in Given(e) : p.required} \subseteq Agreeing(doc, e, c)
         /\ \A r \in ReferencesOf(doc, c) : Resolve(doc, r, c).state # "ambiguous"
         /\ \A d \in Available(doc, e) \ {c} : ~FitsAsWell(doc, e, c, d)
  /\ \A x \in DOMAIN doc :
       Unrelated(doc, RuleOfCategory(e.category).tags, x) => Row(Except(doc, x), e) = row

=============================================================================
