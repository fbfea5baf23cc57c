------------------------------- MODULE Arxml -------------------------------
(***************************************************************************)
(* The index over ARXML files that both mappings are built on: what an     *)
(* element owns, where it is, and what a reference leads to.               *)
(*                                                                         *)
(* A document is a function from numbers to nodes; a node says of which    *)
(* node it is a child, 0 being a file, and has the leaves and references   *)
(* that are written in it.  Names, words and paths are sequences of parts. *)
(* Named siblings of one tag have different names, as AUTOSAR demands.     *)
(***************************************************************************)
EXTENDS Naturals, Sequences, SequencesExt, FiniteSets

\* A node and its parents, from the file down.
Chain(doc, i) ==
  LET chain[n \in DOMAIN doc] ==
        IF doc[n].parent = 0 THEN <<n>> ELSE Append(chain[doc[n].parent], n)
  IN chain[i]

\* Those of a sequence that are in a set.
Among(s, keep) == FlattenSeq([k \in DOMAIN s |-> IF s[k] \in keep THEN <<s[k]>> ELSE << >>])

Named(doc) == {n \in DOMAIN doc : doc[n].name # << >>}
NamesOf(doc, nodes) == [k \in DOMAIN nodes |-> doc[nodes[k]].name]

Hierarchy(doc, i) == NamesOf(doc, Among(Front(Chain(doc, i)), Named(doc)))

PackagePath(doc, i) ==
  NamesOf(doc, Among(Chain(doc, i), {n \in Named(doc) : doc[n].tag = "AR-PACKAGE"}))

\* A node without name has no path.
AutosarPath(doc, i) == Append(Hierarchy(doc, i), doc[i].name)

\* owned_descendants: what lies below a named node belongs to that one.
Owned(doc, i) ==
  {n \in DOMAIN doc :
     LET chain == Chain(doc, n) IN
     \E k \in DOMAIN chain : /\ chain[k] = i
                             /\ \A j \in k + 1..Len(chain) : doc[chain[j]].name = << >>}

Values(doc, i, leaves) == {v.value : v \in {v \in UNION {doc[n].leaves : n \in Owned(doc, i)} : v.leaf \in leaves}}

ReferencesOf(doc, i) == UNION {doc[n].refs : n \in Owned(doc, i)}

WithTags(doc, tags) == {i \in DOMAIN doc : doc[i].tag \in tags}

Resolution(state, targets) == [state |-> state, targets |-> targets]

Decide(targets) ==
  Resolution(CASE Cardinality(targets) = 1 -> "resolved"
               [] Cardinality(targets) > 1 -> "ambiguous"
               [] OTHER                    -> "missing", targets)

\* resolve: by path, else by the last name; a relative reference prefers the
\* package of its owner.
Resolve(doc, ref, owner) ==
  LET fitting == {i \in DOMAIN doc : doc[i].name # << >> /\ (ref.dest = "any" \/ doc[i].tag = ref.dest)}
      exact   == {i \in fitting : AutosarPath(doc, i) = ref.path}
      byName  == {i \in fitting : doc[i].name = Last(ref.path)}
      nearby  == {i \in byName : IsPrefix(PackagePath(doc, owner), PackagePath(doc, i))}
  IN Decide(CASE exact # {}                                     -> exact
              [] exact = {} /\ ~ref.absolute /\ nearby # {}     -> nearby
              [] OTHER                                          -> byName)

-----------------------------------------------------------------------------
(* Scalars.                                                                *)

\* normalize_scalar: a number in any notation is the number it is, a word is
\* the word, and truth values are the words "true" and "false".  A scalar has
\* the number (a set) or the word, whether the number is an integer, and the
\* way it is written.
Scalar(v) == <<v.number, v.word>>

Same(v, w) == Scalar(v) = Scalar(w)

SomeSame(v, values) == \E w \in values : Same(v, w)

=============================================================================
