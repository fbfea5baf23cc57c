--------------------------- MODULE WorkspaceLoad ---------------------------
(***************************************************************************)
(* How FLYNCWorkspace turns the files of a workspace into a model: the     *)
(* part of flync_workspace.py that load_workspace, the fallback of         *)
(* update_document and the reload of one ECU directory have in common.     *)
(*                                                                         *)
(* The workspace is a root directory with a list of ECU directories.  Each *)
(* ECU has one required scalar document (ecu_metadata, file 0) and a       *)
(* folder that holds one document per list item (switches, files 1..NS in  *)
(* the order sorted(iterdir()) gives them).  A value that fails to load is *)
(* None, written NoModel here.                                             *)
(***************************************************************************)
EXTENDS Integers, Sequences, FiniteSets

CONSTANTS
  NE,        \* number of ECU directories, numbered in name order
  NS,        \* number of switch file names an ECU directory can hold
  Vals,      \* what a document can say, as far as a reader can tell
  NoVal,     \* payload of a document that says nothing usable
  NoModel    \* Python's None where a model is expected

ASSUME SizeAssumption == NE \in Nat /\ NS \in Nat

ECU  == 1..NE
Item == 1..NS
Meta == 0
Dir  == NS + 1                   \* the file number of an ECU directory itself

Doc     == {<<e, i>> : e \in ECU, i \in 0..NS}
DirNode == {<<e, Dir>> : e \in ECU}
Node    == Doc \cup DirNode

(***************************************************************************)
(* Documents.  "shallow": one top-level field of the document is invalid   *)
(* and optional, validate_with_policy removes it.  "nested": the invalid   *)
(* value sits deeper, so removing it also removes it from the cached AST.  *)
(* "pruned": a cached AST after that removal; never on disk.  "fatal": the *)
(* model cannot be built.  "empty": an empty YAML file.  "garbled": not    *)
(* YAML.                                                                   *)
(***************************************************************************)
Usable   == {"clean", "shallow", "nested", "pruned"}
Unusable == {"fatal", "empty", "garbled", "absent", "unopened"}

Content == [kind : Usable, val : Vals] \cup [kind : Unusable, val : {NoVal}]

Absent   == [kind |-> "absent", val |-> NoVal]
Unopened == [kind |-> "unopened", val |-> NoVal]

Text == {c \in Content : c.kind \notin {"pruned", "unopened"}}

\* The model validate_with_policy builds from an AST.  A removed field is
\* gone from the model, whether the removal happened now or earlier.
ValueModel == [val : Vals, whole : BOOLEAN]

ModelOf(c) == IF c.kind \in Usable
                THEN [val |-> c.val, whole |-> c.kind = "clean"]
                ELSE NoModel

DiagOf(c) == IF c.kind \in {"shallow", "nested", "fatal"} THEN "error" ELSE "clean"

\* Every mapping and list below the top level is shared between the data that
\* is validated and documents[uri].ast, and delete_at_loc works in place.
AstAfter(c) == IF c.kind = "nested" THEN [c EXCEPT !.kind = "pruned"] ELSE c

-----------------------------------------------------------------------------
(* Lists.  Only items that loaded are appended, and the position recorded  *)
(* for an item is the length of the list when its turn comes.              *)

Rank(S, i) == Cardinality({j \in S : j < i})

At(S, k) == CHOOSE i \in S : Rank(S, i) = k - 1

ListOf(S, f) == [k \in 1..Cardinality(S) |-> f[At(S, k)]]

\* Mutant: trusts the position.
SpliceInRangeOnly(list, pos, child) ==
  IF pos < Len(list) THEN [list EXCEPT ![pos + 1] = child] ELSE list

\* _splice_branch for a list field: the value goes to the recorded position,
\* or to the end when the list is not that long any more.
Splice(list, pos, child) ==
  IF pos < Len(list) THEN [list EXCEPT ![pos + 1] = child] ELSE Append(list, child)

\* Splicing None and filtering it out again.
Without(list, pos) ==
  IF pos < Len(list)
    THEN SubSeq(list, 1, pos) \o SubSeq(list, pos + 2, Len(list))
    ELSE list

-----------------------------------------------------------------------------
(* One ECU directory, from what each of its documents looks like.          *)

ItemModel == [file : Item, model : ValueModel]
EcuModel  == [ecu : ECU, meta : ValueModel, switches : Seq(ItemModel)]
EcuValue  == EcuModel \cup {NoModel}

\* None is no model.
ASSUME NoneAssumption == NoModel \notin ValueModel \cup ItemModel \cup EcuModel

ItemValue(i, c) == IF ModelOf(c) = NoModel
                     THEN NoModel
                     ELSE [file |-> i, model |-> ModelOf(c)]

Present(seen, e) == {i \in Item : seen[<<e, i>>].kind # "absent"}
Loading(seen, e) == {i \in Present(seen, e) : ModelOf(seen[<<e, i>>]) # NoModel}
Raising(seen, e) == {i \in Present(seen, e) : seen[<<e, i>>].kind = "garbled"}

\* The files of the switches folder that get a LoadNode.  A file that cannot
\* be parsed raises out of the list loader, and the loader of the Optional
\* field swallows the exception: the field is left out, the rest unvisited.
Visited(seen, e) == {i \in Present(seen, e) : \A j \in Raising(seen, e) : i <= j}

Switches(seen, e) ==
  IF Raising(seen, e) = {}
    THEN ListOf(Loading(seen, e), [i \in Item |-> ItemValue(i, seen[<<e, i>>])])
    ELSE << >>

LoadEcu(seen, e) ==
  IF ModelOf(seen[<<e, Meta>>]) = NoModel
    THEN NoModel
    ELSE [ecu |-> e, meta |-> ModelOf(seen[<<e, Meta>>]), switches |-> Switches(seen, e)]

\* Mutant: nodes (and diagnostics) only for what loaded.
NodesOfLoadedOnly(seen, e) == {<<e, i>> : i \in Loading(seen, e) \cup {Meta, Dir}}

\* ecu_metadata has a LoadNode even when its file is missing.
NodesOf(seen, e) == {<<e, i>> : i \in Visited(seen, e) \cup {Meta, Dir}}

NoNode == -1

KeyOf(seen, n) ==
  IF n[2] \in Item THEN Rank(Loading(seen, n[1]), n[2]) ELSE 0

NodeDiag(seen, n) ==
  IF n[2] = Dir THEN IF LoadEcu(seen, n[1]) = NoModel THEN "error" ELSE "clean"
  ELSE IF seen[n].kind = "garbled" THEN "absent" ELSE DiagOf(seen[n])

-----------------------------------------------------------------------------
(* The whole workspace, from the files on disk.                            *)

LoadingEcus(seen) == {e \in ECU : LoadEcu(seen, e) # NoModel}
LoadModel(seen)   == ListOf(LoadingEcus(seen), [e \in ECU |-> LoadEcu(seen, e)])

FullKey(seen, n) ==
  IF n \in DirNode THEN Rank(LoadingEcus(seen), n[1]) ELSE KeyOf(seen, n)

FullNodes(seen) == UNION {NodesOf(seen, e) : e \in ECU}

NothingGarbled(files) == \A d \in Doc : files[d].kind # "garbled"
=============================================================================
