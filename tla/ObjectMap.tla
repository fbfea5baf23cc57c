----------------------------- MODULE ObjectMap -----------------------------
(***************************************************************************)
(* The object map of a workspace: which model an object id leads to, while *)
(* documents are reloaded one by one (Workspace).                          *)
(*                                                                         *)
(* An id is the path of an object, here the sequence of its segments; the  *)
(* item of a list is found by its position in the directory and by its     *)
(* name.  Objects inside one document share the fate of the document and   *)
(* are left out, as are the sources and the index of children.             *)
(***************************************************************************)
EXTENDS Workspace, SequencesExt, TLC

CONSTANTS EcuName, FileName   \* the names of ECU directories and switch files

ASSUME NameAssumption ==
  /\ EcuName \in [ECU -> STRING] /\ IsInjective(EcuName)
  /\ FileName \in [Item -> STRING] /\ IsInjective(FileName)

\* str(index): different positions are written differently.
ASSUME PositionAssumption ==
  /\ \A j \in 0..(NE + NS) : ToString(j) \in STRING
  /\ \A j, k \in 0..(NE + NS) : ToString(j) = ToString(k) => j = k

VARIABLES
  objects,   \* [id -> model]
  paths      \* object_paths of the LoadNode of each document

mapVars == <<objects, paths>>

Extended(ids, segment) == [k \in DOMAIN ids |-> Append(ids[k], segment)]

\* add_list_item_object_path, with the default list_objects_mode.
ItemPaths(ids, position, name) == Extended(ids, ToString(position)) \o Extended(ids, name)

EcuPaths(e) == ItemPaths(<< <<"ecus">> >>, e - 1, EcuName[e])

\* The position is that in the directory, whether the files before it load or
\* not; files without LoadNode have no paths.
DocPaths(seen, d) ==
  CASE d[2] = Meta                    -> Extended(EcuPaths(d[1]), "ecu_metadata")
    [] d[2] \in Visited(seen, d[1])   ->
         ItemPaths(Extended(EcuPaths(d[1]), "switches"), Rank(Present(seen, d[1]), d[2]), FileName[d[2]])
    [] OTHER                          -> << >>

\* _add_object_to_path: at the first id that is registered it returns.
Register(map, ids, value) ==
  LET new == {ids[k] : k \in {k \in DOMAIN ids : \A j \in 1..k : ids[j] \notin DOMAIN map}}
  IN [id \in new \cup DOMAIN map |-> IF id \in new THEN value ELSE map[id]]

\* _purge_object_subtree
Purge(map, ids) ==
  [id \in {id \in DOMAIN map : \A p \in ToSet(ids) : ~IsPrefix(p, id)} |-> map[id]]

\* _remap_model_ids, for the ids an old model is registered under.
Remap(map, ids, old, new) ==
  [id \in DOMAIN map |-> IF id \in ToSet(ids) /\ map[id] = old THEN new ELSE map[id]]

-----------------------------------------------------------------------------
(* What loading registers: [ids, value], in order.                         *)

Entry(ids, value) == [ids |-> ids, value |-> value]

\* A document from which nothing is read is not registered, one from which no
\* model can be built is, with None.
DocEntry(seen, d) ==
  IF seen[d].kind \in {"absent", "empty", "garbled"} THEN << >>
  ELSE <<Entry(DocPaths(seen, d), ModelOf(seen[d]))>>

\* The list that was read is registered, not the one of the model.
EcuEntries(seen, e) ==
  FlattenSeq(ListOf(Visited(seen, e), [i \in Item |-> DocEntry(seen, <<e, i>>)]))
  \o <<Entry(Extended(EcuPaths(e), "switches"),
             IF Raising(seen, e) = {} THEN Switches(seen, e) ELSE NoModel)>>
  \o DocEntry(seen, <<e, Meta>>)
  \o <<Entry(EcuPaths(e), LoadEcu(seen, e))>>

RegisterAll(map, entries) ==
  LET after[k \in 0..Len(entries)] ==
        IF k = 0 THEN map ELSE Register(after[k - 1], entries[k].ids, entries[k].value)
  IN after[Len(entries)]

FullMap(seen) ==
  RegisterAll(<< >>, FlattenSeq([e \in ECU |-> EcuEntries(seen, e)])
                     \o << Entry(<< <<"ecus">> >>, LoadModel(seen)), Entry(<< << >> >>, LoadModel(seen)) >>)

FullPaths(seen) == [d \in Doc |-> DocPaths(seen, d)]

-----------------------------------------------------------------------------
(* update_document.                                                        *)

StartsOver(d) ==
  \/ key[d] = NoNode \/ disk[d].kind \in {"absent", "garbled"}
  \/ ReloadRaises(d) \/ ~UniqueEcus(RootList(UpdateEcu(d), d[1]))

MapAfterReset ==
  /\ objects' = IF NothingGarbled(disk) THEN FullMap(disk) ELSE << >>
  /\ paths' = IF NothingGarbled(disk) THEN FullPaths(disk) ELSE [d \in Doc |-> << >>]

\* Mutant: the ids are not purged before the document is loaded again.
DocumentMapUnpurged(d) ==
  IF disk[d].kind = "empty" THEN objects ELSE Register(objects, paths[d], ModelOf(disk[d]))

\* The reload of the document alone, under the paths it was loaded under.
DocumentMap(d) ==
  LET purged == Purge(objects, paths[d])
  IN IF disk[d].kind = "empty" THEN purged ELSE Register(purged, paths[d], ModelOf(disk[d]))

\* Its ECU: rebuilt around the old instances, or its directory reloaded.
EcuMap(d) ==
  LET e    == d[1]
      seen == Seen(ReloadDocument(d).ast)
  IN IF RebuildEcu(d) # NoModel
     THEN Remap(DocumentMap(d), EcuPaths(e), ecuModel[e], RebuildEcu(d))
     ELSE RegisterAll(Purge(DocumentMap(d), EcuPaths(e)), EcuEntries(seen, e))

EcuDocPaths(d) ==
  LET seen == Seen(ReloadDocument(d).ast)
  IN IF RebuildEcu(d) # NoModel THEN paths
     ELSE [c \in Doc |-> IF c[1] = d[1] THEN DocPaths(seen, c) ELSE paths[c]]

\* The lists of the ancestors are looked up by the instances of the old
\* models, under which no id is registered: what `ecus' and `switches' lead to
\* stays as it was read.
MapAfterReload(d) ==
  /\ objects' = Remap(EcuMap(d), << << >> >>, model, RootList(UpdateEcu(d), d[1]))
  /\ paths' = EcuDocPaths(d)

MappedInit == Init /\ objects = FullMap(disk) /\ paths = FullPaths(disk)

MappedEdit(d) == EditFile(d) /\ UNCHANGED mapVars

MappedUpdate(d) ==
  /\ UpdateDocument(d)
  /\ IF StartsOver(d) THEN MapAfterReset ELSE MapAfterReload(d)

MappedNext == \E d \in Doc : MappedEdit(d) \/ MappedUpdate(d)

MappedSpec == MappedInit /\ [][MappedNext]_<<vars, mapVars>>

-----------------------------------------------------------------------------
(* Properties.                                                             *)

LeadsTo(ids, value) == \A k \in DOMAIN ids : ids[k] \in DOMAIN objects /\ objects[ids[k]] = value

\* After any sequence of partial reloads and fallbacks, whatever the model
\* shows is found under its ids: the root, each ECU under its position and its
\* name, each document under those it was loaded under.  (The ids of the lists
\* in between are not among them.)
IdsFollowModel ==
  ~Lost =>
    /\ LeadsTo(<< << >> >>, model)
    /\ \A k \in DOMAIN model :
         LET v == model[k]
         IN /\ LeadsTo(EcuPaths(v.ecu), v)
            /\ LeadsTo(paths[<<v.ecu, Meta>>], v.meta)
            /\ \A s \in ToSet(v.switches) :
                 /\ paths[<<v.ecu, s.file>>] # << >>
                 /\ LeadsTo(paths[<<v.ecu, s.file>>], s.model)

=============================================================================
