----------------------------- MODULE Datatypes -----------------------------
(***************************************************************************)
(* Datatypes of parameters in the mapping: the tree an ARXML type unfolds  *)
(* to, and what is compared of it.  A tree is a function from the positions*)
(* in it, the numbers of the children on the way there, to kinds.          *)
(***************************************************************************)
EXTENDS Mapping

Primitives ==
  {"boolean", "uint8", "uint16", "uint32", "uint64", "int8", "int16", "int32", "int64", "float32", "float64"}

\* DatatypeNode
Datatype(kind, children) ==
  [p \in {<< >>} \cup UNION {{<<k>> \o q : q \in DOMAIN children[k]} : k \in DOMAIN children} |->
     IF p = << >> THEN kind ELSE children[Head(p)][Tail(p)]]

\* _primitive_from_name, for names that say one primitive at most.
PrimitiveOf(name) ==
  IF ToSet(name) \cap Primitives = {} THEN "primitive" ELSE CHOOSE p \in ToSet(name) \cap Primitives : TRUE

Category(doc, i, word) == \E v \in Values(doc, i, {"CATEGORY"}) : v.word = word

KindOf(doc, i) ==
  CASE doc[i].tag = "APPLICATION-PRIMITIVE-DATA-TYPE" -> PrimitiveOf(doc[i].name)
    [] doc[i].tag = "APPLICATION-RECORD-DATA-TYPE" \/ Category(doc, i, "STRUCTURE") -> "struct"
    [] doc[i].tag = "APPLICATION-ARRAY-DATA-TYPE" \/ Category(doc, i, "ARRAY") -> "array"
    [] doc[i].tag = "TYPEDEF"                  -> "typedef"
    [] doc[i].tag = "UNION-DATA-TYPE"          -> "union"
    [] doc[i].tag = "STRING-DATA-TYPE"         -> "string"
    [] doc[i].tag = "IMPLEMENTATION-DATA-TYPE" -> PrimitiveOf(doc[i].name)
    [] OTHER                                   -> "unknown"

\* The references to types, in the order of their texts (rank).
TypeReferences(doc, i) ==
  SetToSortSeq({r \in ReferencesOf(doc, i) : r.type}, LAMBDA r, s : r.rank < s.rank)

\* What is at a position: a type, or 0 and why there is none.
Spot(i, kind, visited) == [type |-> i, kind |-> kind, visited |-> visited]

Absent == Spot(0, "absent", {})

TypeNode(doc, i, visited) ==
  IF i \in visited THEN Spot(0, "cycle", {}) ELSE Spot(i, KindOf(doc, i), visited \cup {i})

\* What a reference leads to, given what it resolves to.
Behind(doc, found, visited) ==
  IF found.state = "resolved" THEN TypeNode(doc, CHOOSE t \in found.targets : TRUE, visited) ELSE Spot(0, found.state, {})

ChildNode(doc, node, k) ==
  IF node.type = 0 \/ k \notin DOMAIN TypeReferences(doc, node.type) THEN Absent
  ELSE Behind(doc, Resolve(doc, TypeReferences(doc, node.type)[k], node.type), node.visited)

\* normalize_arxml_datatype, at a position.
NodeAt(doc, i, p) ==
  LET node[n \in 0..Len(p)] ==
        IF n = 0 THEN TypeNode(doc, i, {}) ELSE ChildNode(doc, node[n - 1], p[n])
  IN node[Len(p)]

Found(result) == Evidence(result, TRUE, TRUE)

SameKind(left, right) == left = right \/ (left \in Primitives /\ right = "primitive")

\* Mutant: only the type itself is compared.
CompareRoots(doc, left, i) ==
  {Found(IF SameKind(left[<< >>], NodeAt(doc, i, << >>).kind) THEN "match" ELSE "mismatch")}

\* compare_datatypes: not below what is absent or did not resolve; what only the
\* ARXML type has is not looked at.
CompareKinds(left, kinds) ==
  LET looked    == {p \in DOMAIN left : p = << >> \/ kinds[Front(p)] \notin {"absent", "ambiguous", "missing"}}
      result(p) ==
        CASE kinds[p] = "absent"    -> "missing"
          [] kinds[p] = "ambiguous" -> "ambiguous"
          [] kinds[p] = "missing"   -> "unresolved"
          [] OTHER                  -> IF SameKind(left[p], kinds[p]) THEN "match" ELSE "mismatch"
  IN {Found(result(p)) : p \in looked}

CompareTypes(doc, left, i) == CompareKinds(left, [p \in DOMAIN left |-> NodeAt(doc, i, p).kind])

-----------------------------------------------------------------------------
(* _resolve_datatype: a parameter is found by its name alone.              *)

Prototypes(doc, e) ==
  LET called(tag) == {i \in WithTags(doc, {tag}) : doc[i].name = e.name}
  IN IF called("ARGUMENT-DATA-PROTOTYPE") # {} THEN called("ARGUMENT-DATA-PROTOTYPE")
     ELSE called("VARIABLE-DATA-PROTOTYPE")

ReferredType(doc, e, found) ==
  IF found.state = "resolved" THEN CompareTypes(doc, e.datatype, CHOOSE t \in found.targets : TRUE)
  ELSE {Found(ReferenceResult(found))}

TypeEvidence(doc, e, c) ==
  LET refs == {r \in ReferencesOf(doc, c) : r.type}
  IN IF refs = {} THEN {Found("missing")} ELSE UNION {ReferredType(doc, e, Resolve(doc, r, c)) : r \in refs}

DatatypeRow(doc, e) ==
  LET candidates == Prototypes(doc, e)
  IN [elements |-> candidates,
      status |-> Status(candidates, AmbiguityEvidence(candidates)
                                    \cup UNION {TypeEvidence(doc, e, c) : c \in candidates})]

-----------------------------------------------------------------------------
(* Properties.                                                             *)

\* The type that a reference of a type leads to, the types that are reached by
\* position; no element has number 0.
TargetOf(found) == IF found.state = "resolved" THEN CHOOSE t \in found.targets : TRUE ELSE 0

TypeBelow(doc, i, k) ==
  IF i = 0 \/ k \notin DOMAIN TypeReferences(doc, i) THEN 0 ELSE TargetOf(Resolve(doc, TypeReferences(doc, i)[k], i))

TypeAt(doc, i, p) ==
  LET type[n \in 0..Len(p)] == IF n = 0 THEN i ELSE TypeBelow(doc, type[n - 1], p[n])
  IN type[Len(p)]

\* A type n at a position is of the kind and not below itself.
TypeFits(doc, left, t, p, n) ==
  /\ n # 0 /\ SameKind(left[p], KindOf(doc, n))
  /\ \A k \in 0..Len(p) - 1 : TypeAt(doc, t, SubSeq(p, 1, k)) # n

\* A parameter is mapped when there is one prototype of its name, and only if
\* every type reference of it leads, uniquely, to a type with a type of the same
\* kind at every position of the datatype, none of them below itself.
TypesFound(doc, e) ==
  LET row == DatatypeRow(doc, e)
  IN row.status = "Mapped" =>
       \E c \in row.elements :
         /\ row.elements = {c} /\ (\E r \in ReferencesOf(doc, c) : r.type)
         /\ \A r \in ReferencesOf(doc, c) : r.type =>
              \E t \in DOMAIN doc :
                /\ Resolve(doc, r, c).targets = {t}
                /\ \A p \in DOMAIN e.datatype : TypeFits(doc, e.datatype, t, p, TypeAt(doc, t, p))

=============================================================================
