----------------------------- MODULE Projection -----------------------------
(***************************************************************************)
(* The reverse mapping: which FLYNC concepts an ARXML element may be an    *)
(* instance of, and whether what they need can be recovered from it        *)
(* (scripts/mapping_reverse).                                              *)
(***************************************************************************)
EXTENDS Mapping

Recoverable(name, leaves) == [name |-> name, leaves |-> leaves]

Concept(name, domain, tags, properties, required, lost, ancestors) ==
  [name |-> name, domain |-> domain, tags |-> tags, properties |-> properties,
   required |-> required, lost |-> lost, ancestors |-> ancestors]

Accessor(has, flag, id, leaf) == [has |-> has, flag |-> flag, id |-> id, leaf |-> leaf]

Accessors == {Accessor("has_getter", "HAS-GETTER", "getter_id", "GETTER-IDENTIFIER"),
              Accessor("has_setter", "HAS-SETTER", "setter_id", "SETTER-IDENTIFIER"),
              Accessor("has_notifier", "HAS-NOTIFIER", "notifier_id", "NOTIFIER-IDENTIFIER")}

Length == {Recoverable("length", {"LENGTH"})}

OfField == {Recoverable(a.id, {a.leaf}) : a \in Accessors} \cup {Recoverable(a.has, {a.flag}) : a \in Accessors}

\* CONCEPTS, those that correspond to the categories of Mapping and those that
\* share a type with another.
Concepts ==
  {Concept("ecu", "adaptive", {"MACHINE-DESIGN", "MACHINE", "ECU-INSTANCE"}, {}, {"name"}, {"author", "compatible_version"}, {}),
   Concept("can_frame", "classic", {"CAN-FRAME", "CAN-FRAME-TRIGGERING"},
           {Recoverable("can_id", {"IDENTIFIER"}), Recoverable("length", {"FRAME-LENGTH"})}, {"name", "can_id", "length"}, {}, {}),
   Concept("pdu", "shared", {"I-SIGNAL-I-PDU", "N-PDU"}, Length, {"name", "length"}, {}, {}),
   Concept("multiplexed_pdu", "shared", {"MULTIPLEXED-I-PDU"}, Length, {"name", "length"}, {}, {}),
   Concept("container_pdu", "adaptive", {"CONTAINER-I-PDU"}, Length, {"name", "length"}, {}, {}),
   Concept("ethernet_interface", "adaptive", {"ETHERNET-COMMUNICATION-CONNECTOR", "ETHERNET-PHYSICAL-CHANNEL"}, {}, {"name"}, {}, {}),
   Concept("topology_connection", "shared", {"CONNECTION", "ETHERNET-COMMUNICATION-CONNECTOR"}, {}, {"name"}, {"source_topology_type"}, {}),
   Concept("vlan", "adaptive", {"VLAN"}, {Recoverable("vlan_id", {"VLAN-IDENTIFIER"})}, {"name", "vlan_id"}, {}, {}),
   Concept("socket", "adaptive", {"SOCKET-ADDRESS"},
           {Recoverable("port", {"PORT-NUMBER"}), Recoverable("protocol", {"PROTOCOL"})}, {"name", "port", "protocol"}, {}, {}),
   Concept("someip_method", "adaptive", {"CLIENT-SERVER-OPERATION"},
           {Recoverable("method_id", {"METHOD-IDENTIFIER", "METHOD-ID"})}, {"name", "method_id"}, {}, {"METHODS"}),
   Concept("someip_field", "adaptive", {"FIELD"}, OfField, {"name"}, {}, {"FIELDS"})}

\* project_element, without filters.
Fitting(doc, i) ==
  {s \in Concepts :
     /\ doc[i].tag \in s.tags
     /\ s.ancestors = {} \/ \E n \in ToSet(Front(Chain(doc, i))) : doc[n].tag \in s.ancestors}

\* Mutant: several values are none.
RecoveredSingle(doc, i, s) ==
  LET values(p) == Values(doc, i, p.leaves)
  IN [name \in {p.name : p \in {p \in s.properties : Cardinality(values(p)) = 1}} |->
        values(CHOOSE p \in s.properties : p.name = name)]

\* The values of what can be recovered, besides the name.
Recovered(doc, i, s) ==
  LET values(p) == Values(doc, i, p.leaves)
  IN [name \in {p.name : p \in {p \in s.properties : values(p) # {}}} |->
        values(CHOOSE p \in s.properties : p.name = name)]

\* The values are compared as they are written.
Flagged(recovered, name) ==
  name \in DOMAIN recovered /\ \E v \in recovered[name] : recovered[name] = {v} /\ v.word = "true"

Missing(doc, i, s) ==
  LET recovered == Recovered(doc, i, s)
  IN {r \in s.required : r # "name" /\ r \notin DOMAIN recovered}
     \cup {a.id : a \in {a \in Accessors : s.name = "someip_field" /\ Flagged(recovered, a.has) /\ a.id \notin DOMAIN recovered}}
     \cup s.lost

\* Mutant: what the references lead to is not looked at.
ReverseStatusUnresolved(doc, i) ==
  LET fitting == Fitting(doc, i)
  IN CASE fitting = {}             -> "Unsupported"
       [] Cardinality(fitting) > 1 -> "Ambiguous"
       [] Cardinality(fitting) = 1 /\ \E s \in fitting : Missing(doc, i, s) # {} -> "Partial"
       [] OTHER                    -> "Projected"

\* calculate_reverse_status, for the elements with a name; others have no row.
ReverseStatus(doc, i) ==
  LET fitting == Fitting(doc, i)
  IN CASE fitting = {}             -> "Unsupported"
       [] Cardinality(fitting) > 1 -> "Ambiguous"
       [] /\ Cardinality(fitting) = 1
          /\ \/ \E s \in fitting : Missing(doc, i, s) # {}
             \/ \E r \in ReferencesOf(doc, i) : Resolve(doc, r, i).state # "resolved" -> "Partial"
       [] OTHER                    -> "Projected"

-----------------------------------------------------------------------------
(* Properties.                                                             *)

\* The reverse mapping takes back what the forward mapping found: the element
\* a FLYNC element with all its required values was mapped to is projected to
\* one concept, unless references lead nowhere, the concept always loses
\* something, or it is only looked for elsewhere (methods below METHODS), and
\* every value both look for is among the recovered ones.  Of what is called
\* projected, mapped or not, each reference leads to one element of its path or
\* of its last name: nothing it needs is missing or could be two things.
ComesBack(doc, e) ==
  LET row == Row(doc, e) IN
  /\ \A c \in Named(doc) : ReverseStatus(doc, c) = "Projected" =>
       \A r \in ReferencesOf(doc, c) : \E t \in Named(doc) :
         /\ Resolve(doc, r, c).targets = {t}
         /\ AutosarPath(doc, t) = r.path \/ doc[t].name = Last(r.path)
  /\ row.status = "Mapped" /\ {p \in RuleOfCategory(e.category).properties : p.required} \subseteq Given(e) =>
      \A c \in row.elements :
        doc[c].name # << >> =>
          /\ \A s \in Fitting(doc, c) : \A p \in Given(e) : \A q \in s.properties :
               p.required /\ p.leaves = q.leaves =>
                 q.name \in DOMAIN Recovered(doc, c, s) /\ SomeSame(e.properties[p.key], Recovered(doc, c, s)[q.name])
          /\ Fitting(doc, c) # {} /\ (\A r \in ReferencesOf(doc, c) : Resolve(doc, r, c).state = "resolved")
               => ReverseStatus(doc, c) = IF \E s \in Fitting(doc, c) : s.lost # {} THEN "Partial" ELSE "Projected"

=============================================================================
