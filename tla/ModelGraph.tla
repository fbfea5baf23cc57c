----------------------------- MODULE ModelGraph -----------------------------
(***************************************************************************)
(* The dependency graph over the types of a model: which models there are, *)
(* by which paths they are reached, which model is whose parent, and what  *)
(* a file of a field is validated as (sdk/utils/model_dependencies.py).    *)
(*                                                                         *)
(* A schema is a set of fields.  Of the annotation of a field the models   *)
(* in it are left, in whatever lists, dictionaries and unions.             *)
(***************************************************************************)
EXTENDS Naturals, Sequences, SequencesExt, FiniteSets

\* output: what External says of the field, {} if it is not external.
\* References and implied fields are not followed.
Field(of, name, models, output, followed) ==
  [of |-> of, name |-> name, models |-> models, output |-> output, followed |-> followed]

FieldsOf(schema, m) == {f \in schema : f.of = m /\ f.followed}

ChildModels(schema, m) == UNION {f.models : f \in FieldsOf(schema, m)}

-----------------------------------------------------------------------------
(* The paths through the tree.                                             *)

Step(f, m) == [of |-> f.of, field |-> f.name, model |-> m]

EndOf(root, p) == IF p = << >> THEN root ELSE Last(p).model

\* One field further; a model that is on the way already has no children.
Further(schema, root, p) ==
  IF \E k \in DOMAIN p : p[k].of = EndOf(root, p) THEN {}
  ELSE UNION {{Append(p, Step(f, c)) : c \in f.models} : f \in FieldsOf(schema, EndOf(root, p))}

\* On the way to a model every field is of another model.
PathsFrom(schema, root) ==
  LET paths[n \in 0..Cardinality(schema)] ==
        IF n = 0 THEN {<< >>}
        ELSE LET shorter == paths[n - 1]
             IN shorter \cup UNION {Further(schema, root, p) : p \in shorter}
  IN paths[Cardinality(schema)]

\* fields_info: the models with the paths to them; there is none to the root.
FieldsInfo(schema, root) ==
  LET paths == PathsFrom(schema, root) \ {<< >>}
  IN [m \in {root} \cup {Last(p).model : p \in paths} |-> {p \in paths : Last(p).model = m}]

-----------------------------------------------------------------------------
(* Parents.                                                                *)

\* walk_structure: a model that is on the way already is not walked again, and
\* the edge to it is not recorded.  collect_edges: the root is not on the way.
WalkedFurther(schema, w) == {Append(w, c) : c \in ChildModels(schema, Last(w)) \ ToSet(Tail(w))}

Walks(schema, root) ==
  LET walks[n \in 0..Cardinality(schema) + 1] ==
        IF n = 0 THEN {<<root>>}
        ELSE LET shorter == walks[n - 1]
             IN shorter \cup UNION {WalkedFurther(schema, w) : w \in shorter}
  IN walks[Cardinality(schema) + 1]

Edges(schema, root) == {<<Last(Front(w)), Last(w)>> : w \in Walks(schema, root) \ {<<root>>}}

\* reverse_tree
Parents(schema, root, child) == {e[1] : e \in {e \in Edges(schema, root) : e[2] = child}}

FieldsNamed(schema, root, child, name) ==
  {f \in schema : f.of \in Parents(schema, root, child) /\ f.name = name}

\* Mutant: the first parent by name, whether the field is external or not.
FirstParentField(schema, root, child, name, before) ==
  LET fields == FieldsNamed(schema, root, child, name)
  IN {f \in fields : \A g \in fields : before[f.of] <= before[g.of]}

\* parent_from_child, field_info_from_child: of the parents with a field of the
\* name one whose field is external, then the first by name (before).
ParentField(schema, root, child, name, before) ==
  LET fields    == FieldsNamed(schema, root, child, name)
      external  == {f \in fields : f.output # {}}
      preferred == IF external # {} THEN external ELSE fields
  IN {f \in preferred : \A g \in preferred : before[f.of] <= before[g.of]}

\* rebuild_type_from_parent and normalize_child_to_parent: in a file of a field
\* is a model as it is, the value of the field, or the value under its name.
FileOf(f) ==
  CASE "single_file" \notin f.output -> "model"
    [] "ommit_root" \in f.output     -> "value"
    [] OTHER                         -> "named value"

-----------------------------------------------------------------------------
(* Properties.                                                             *)

\* All the models that a model leads to, itself included: every set of models
\* with the model and the children of its members has them.
Reached(schema, m) ==
  LET all == {m} \cup UNION {f.models : f \in schema}
  IN {c \in all : \A closed \in SUBSET all :
        m \in closed /\ (\A d \in closed : ChildModels(schema, d) \subseteq closed) => c \in closed}

\* The files of an external field are validated as what its annotation says,
\* although they are looked up by the name of the field and the model in it
\* alone, where other parents may have an inline field of the name; unless the
\* external fields of a name differ, or the model of the field leads back to it.
\* The paths are known of all the models the root leads to and of no others,
\* and follow fields from the root, to no model's fields twice.
FilesFound(schema, root, before) ==
  LET info == FieldsInfo(schema, root)
      alike(f) == \A g \in schema : g.name = f.name /\ g.output # {} => g.output = f.output
  IN /\ DOMAIN info = Reached(schema, root)
     /\ \A m \in DOMAIN info : \A p \in info[m] :
          /\ p[1].of = root /\ \A k \in 2..Len(p) : p[k].of = p[k - 1].model
          /\ IsInjective([k \in DOMAIN p |-> p[k].of])
     /\ \A f \in schema : \A m \in f.models :
          f.output # {} /\ f.followed /\ f.of \in DOMAIN info /\ f.of \notin Reached(schema, m) /\ alike(f) =>
            \E g \in ParentField(schema, root, m, f.name, before) : FileOf(g) = FileOf(f)

=============================================================================
