------------------------------- MODULE Saving -------------------------------
(***************************************************************************)
(* Saving a model as the files of a workspace, one field at a time, and    *)
(* loading those files again (load_flync_model and __load_from_path of     *)
(* sdk/workspace/flync_workspace.py).                                      *)
(*                                                                         *)
(* A schema gives for every type of model its implied name and its         *)
(* external fields; the models of single files have none.  A name is the   *)
(* sequence of its parts between dots.  Files are a function from paths,   *)
(* which are sequences of names, to contents.                              *)
(***************************************************************************)
EXTENDS Naturals, Sequences, SequencesExt, FiniteSets

\* style: "folder", "named" (one file with the field's name as root) or "whole"
\* (one file without a root).
External(name, path, style, list, of, optional) ==
  [name |-> name, path |-> path, style |-> style, list |-> list, of |-> of, optional |-> optional]

\* implied: "folder" or "file" if the name is that of the folder or file, or "none".
ModelType(implied, fields) == [implied |-> implied, fields |-> fields]

\* A model: own are the facts of its fields that are not external, parts the
\* values of each external field, at most one if the field is no list.
Model(type, name, own, parts) == [type |-> type, name |-> name, own |-> own, parts |-> parts]

Yaml == "flync.yaml"

-----------------------------------------------------------------------------
(* Saving.                                                                 *)

NameFact(name) == {<<"name", name>>}

\* Mutant: names are left to the file names.
FactsUnnamed(schema, v) == v.own

\* __get_model_content, without the external fields: implied names are left out.
Facts(schema, v) ==
  v.own \cup (IF schema[v.type].implied = "none" /\ v.name # << >> THEN NameFact(v.name) ELSE {})

\* The levels of types that models can have; no type has external fields of its own.
Levels(schema) == Cardinality(DOMAIN schema)

Parts(v) == UNION {ToSet(v.parts[k]) : k \in DOMAIN v.parts}

\* The models a number of levels below a model.
BelowBy(schema, v) ==
  LET below[n \in 0..Levels(schema)] == IF n = 0 THEN {v} ELSE UNION {Parts(w) : w \in below[n - 1]}
  IN below

ModelsIn(schema, v) == UNION {BelowBy(schema, v)[n] : n \in 0..Levels(schema)}

NoRoot == "no root"

\* __save_content_to_file, at a path without extension.
SaveFile(path, root, items) ==
  IF root = NoRoot /\ items[1] = {} THEN << >>
  ELSE <<[path |-> path, content |-> [root |-> root, items |-> items]]>>

Under(path, writes) == [n \in DOMAIN writes |-> [writes[n] EXCEPT !.path = path \o @]]

\* load_flync_model with __get_model_content: what is written for an external
\* field, at paths below that of the model; saved is that for models.
FieldWrites(schema, f, values, saved) ==
  LET next == <<<<f.path>>>>
  IN CASE values = << >>       -> << >>
       [] values # << >> /\ f.style = "folder" /\ f.list ->
            FlattenSeq([j \in DOMAIN values |-> Under(Append(next, values[j].name), saved[values[j]])])
       [] values # << >> /\ ~(f.style = "folder" /\ f.list) /\ (f.style = "named" \/ f.list) ->
            SaveFile(next, f.name, [j \in DOMAIN values |-> Facts(schema, values[j])])
       [] OTHER -> Under(next, saved[values[1]])

\* The external fields come first, then the rest of the model.
Writes(schema, v, saved) ==
  LET fields == schema[v.type].fields
  IN FlattenSeq([k \in DOMAIN fields |-> FieldWrites(schema, fields[k], v.parts[k], saved)])
       \o SaveFile(<< >>, NoRoot, <<Facts(schema, v)>>)

\* What is written for the models in v, of as many levels as a number says.
SavedBy(schema, v) ==
  LET saved[n \in 0..Levels(schema)] ==
        [w \in ModelsIn(schema, v) |-> IF n = 0 THEN << >> ELSE Writes(schema, w, saved[n - 1])]
  IN saved

\* with_suffix: the extension takes the place of the last part of the name.
FileName(name) == Append(IF Len(name) > 1 THEN Front(name) ELSE name, Yaml)
FileAt(path)   == Append(Front(path), FileName(Last(path)))

Save(schema, v) ==
  LET writes == SavedBy(schema, v)[Levels(schema)][v]
  IN [n \in DOMAIN writes |-> [writes[n] EXCEPT !.path = FileAt(@)]]

\* generate_configs: a file that is there is overwritten.
Stored(files, writes) ==
  LET at(path) == {n \in DOMAIN writes : writes[n].path = path}
      last(S)  == CHOOSE n \in S : \A m \in S : m <= n
  IN [path \in DOMAIN files \cup {writes[n].path : n \in DOMAIN writes} |->
        IF at(path) = {} THEN files[path] ELSE writes[last(at(path))].content]

-----------------------------------------------------------------------------
(* Loading.                                                                *)

IsFolder(files, path) == \E p \in DOMAIN files : Len(p) > Len(path) /\ SubSeq(p, 1, Len(path)) = path

\* sorted(iterdir()), folders and FLYNC files: a file whose name has more parts
\* is not recognised.  order has the names there can be, sorted.
Entries(files, path, order) ==
  LET folder(n) == IF IsFolder(files, Append(path, n)) THEN <<n>> ELSE << >>
      file(n)   == IF Len(n) = 1 /\ Append(path, Append(n, Yaml)) \in DOMAIN files THEN <<Append(n, Yaml)>> ELSE << >>
  IN FlattenSeq([k \in DOMAIN order |-> folder(order[k]) \o file(order[k])])

Loaded(values) == [raised |-> FALSE, values |-> values]
Raised         == [raised |-> TRUE, values |-> << >>]

\* The name that is implied by a path or read from a file.
NameAt(type, path, facts) ==
  LET own == {f[2] : f \in {f \in facts : f[1] = "name"}}
  IN CASE type.implied = "folder" -> Last(path)
       [] type.implied = "file"   -> Front(Last(path))
       [] OTHER                   -> IF own = {} THEN << >> ELSE CHOOSE n \in own : TRUE

Built(schema, t, path, facts, parts) ==
  Model(t, NameAt(schema[t], path, facts), {f \in facts : f[1] # "name"}, parts)

\* The content of a file as one of the field's shape; other content is no model.
FactsIn(files, path, root) ==
  IF path \in DOMAIN files /\ files[path].root = root THEN files[path].items ELSE << >>

\* __handle_external_field_load and the handlers of lists and Optional.  The
\* folder of a list must be there; what is raised below an Optional field is
\* swallowed together with the field.  loaded has the models of types at paths.
LoadField(schema, order, files, f, path, loaded) ==
  LET next    == Append(path, <<f.path>>)
      file    == Append(path, <<f.path, Yaml>>)
      entries == Entries(files, next, order)
      items   == [k \in DOMAIN entries |-> loaded[<<f.of, Append(next, entries[k])>>]]
      named   == FactsIn(files, file, f.name)
      result  ==
        CASE f.style = "folder" /\ f.list ->
               IF ~IsFolder(files, next) \/ (\E k \in DOMAIN items : items[k].raised) THEN Raised
               ELSE Loaded(FlattenSeq([k \in DOMAIN items |-> items[k].values]))
          [] f.style = "folder" /\ ~f.list -> loaded[<<f.of, next>>]
          [] f.style = "named"  -> Loaded([k \in DOMAIN named |-> Built(schema, f.of, file, named[k], << >>)])
          [] OTHER              -> loaded[<<f.of, file>>]
  IN IF f.optional /\ result.raised THEN Loaded(<< >>) ELSE result

\* __load_from_path: nothing if a field is missing that the type asks for.
LoadOne(schema, order, files, t, path, loaded) ==
  LET fields  == schema[t].fields
      results == [k \in DOMAIN fields |-> LoadField(schema, order, files, fields[k], path, loaded)]
      facts   == UNION ToSet(FactsIn(files, path, NoRoot))
      missing(k) == ~fields[k].optional /\ ~(fields[k].style = "folder" /\ fields[k].list) /\ results[k].values = << >>
      empty   == fields = << >> /\ facts = {} /\ schema[t].implied = "none"
  IN CASE \E k \in DOMAIN fields : results[k].raised -> Raised
       [] /\ \A k \in DOMAIN fields : ~results[k].raised
          /\ empty \/ (\E k \in DOMAIN fields : missing(k)) -> Loaded(<< >>)
       [] OTHER -> Loaded(<<Built(schema, t, path, facts, [k \in DOMAIN fields |-> results[k].values])>>)

\* The parts that the names of files and folders can have.
NameParts(schema, order) ==
  {Yaml} \cup (UNION {ToSet(n) : n \in ToSet(order)}) \cup (UNION {{f.path : f \in ToSet(schema[t].fields)} : t \in DOMAIN schema})

\* The models that are found at paths, of as many levels as a number says.
LoadedBy(schema, order, files) ==
  LET loaded[n \in 0..Levels(schema)] ==
        [x \in (DOMAIN schema) \X Seq(Seq(NameParts(schema, order))) |->
           IF n = 0 THEN Loaded(<< >>) ELSE LoadOne(schema, order, files, x[1], x[2], loaded[n - 1])]
  IN loaded

Load(schema, order, files, t) == LoadedBy(schema, order, files)[Levels(schema)][<<t, << >>>>]

-----------------------------------------------------------------------------
(* Properties.                                                             *)

Ordered(order, names) == names = FlattenSeq([k \in DOMAIN order |-> IF order[k] \in ToSet(names) THEN <<order[k]>> ELSE << >>])

\* What files can hold of a model: what the type asks for is there; the items of
\* a folder have different names, no dot in those of files, and are in directory
\* order; no file would be empty, and a model with external fields has no others.
FitsFiles(schema, order, w) ==
  /\ w.parts # << >> => Facts(schema, w) = {}
  /\ \A k \in DOMAIN w.parts :
       LET f      == schema[w.type].fields[k]
           values == w.parts[k]
       IN /\ ~f.optional => values # << >>
          /\ f.style = "folder" /\ f.list => Ordered(order, [j \in DOMAIN values |-> values[j].name])
          /\ schema[f.of].fields = << >> /\ f.style # "named" =>
               \A x \in ToSet(values) : Len(x.name) <= 1 /\ Facts(schema, x) # {}

Savable(schema, order, v) == \A w \in ModelsIn(schema, v) : FitsFiles(schema, order, w)

\* Loading what was saved gives the model again, also where the files of an
\* earlier model with no other files are overwritten.
SavedComesBack(schema, order, before, v) ==
  LET writes == Save(schema, v)
      old    == Stored(<< >>, Save(schema, before))
  IN Savable(schema, order, v) /\ DOMAIN old \subseteq {writes[n].path : n \in DOMAIN writes} =>
       Load(schema, order, Stored(old, writes), v.type) = Loaded(<<v>>)

=============================================================================
