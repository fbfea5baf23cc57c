----------------------------- MODULE Workspace -----------------------------
(***************************************************************************)
(* FLYNCWorkspace kept up to date by update_document.                      *)
(*                                                                         *)
(* Editors change files on disk; for every change somebody later calls     *)
(* update_document(uri).  The method re-reads that one document, puts the  *)
(* fresh value into its ECU at the position recorded at load time,         *)
(* validates the ECU and the root again around the models they already     *)
(* hold, and falls back to reloading the ECU directory (from the cached    *)
(* ASTs) or the whole workspace (from disk).                               *)
(***************************************************************************)
EXTENDS WorkspaceLoad

CONSTANTS
  EditKinds,  \* what editors write into switch files
  MetaKinds,  \* what editors write into ecu_metadata files
  MaxEdits    \* bound on the number of edits

ASSUME EditAssumption == /\ EditKinds \subseteq {c.kind : c \in Text}
                         /\ MetaKinds \subseteq {c.kind : c \in Text}
                         /\ MaxEdits \in Nat

VARIABLES
  disk,      \* the files
  pending,   \* changed documents update_document has not been called for
  edits,     \* number of edits so far
  ast,       \* documents[uri].ast
  key,       \* _doc_index: NoNode, or the position in the node's ParentLink
  diags,     \* documents_diags: "absent" (no entry), "clean" or "error"
  ecuModel,  \* the model of the LoadNode of each ECU directory
  model,     \* flync_model.ecus (and the same list in the root's LoadNode)
  returned   \* what the last call of update_document returned

wsVars == <<ast, key, diags, ecuModel, model, returned>>
vars   == <<disk, pending, edits, ast, key, diags, ecuModel, model, returned>>

Become(ws) ==
  /\ ast' = ws.ast
  /\ key' = ws.key
  /\ diags' = ws.diags
  /\ ecuModel' = ws.ecuModel
  /\ model' = ws.model
  /\ returned' = ws.returned

-----------------------------------------------------------------------------
(* _reset_and_reload, and the first load: everything from disk.            *)

FullLoad ==
  LET nodes == FullNodes(disk) IN
  [ast |-> [d \in Doc |-> IF disk[d] = Absent THEN Unopened ELSE AstAfter(disk[d])],
   key |-> [n \in Node |-> IF n \in nodes THEN FullKey(disk, n) ELSE NoNode],
   diags |-> [n \in Node |-> IF n \in nodes THEN NodeDiag(disk, n) ELSE "absent"],
   ecuModel |-> [e \in ECU |-> LoadEcu(disk, e)],
   model |-> LoadModel(disk),
   returned |-> nodes]

\* Mutant: flync_model is cleared, too.
FailedLoadClears ==
  [ast |-> [d \in Doc |-> Unopened], key |-> [n \in Node |-> NoNode],
   diags |-> [n \in Node |-> "absent"], ecuModel |-> [e \in ECU |-> NoModel],
   model |-> << >>, returned |-> {}]

\* One unparsable file makes _open_documents raise, after everything but
\* flync_model was cleared.  The documents it had opened by then are left out:
\* without LoadNodes, the next update clears them before anything reads them.
FailedLoad ==
  [ast |-> [d \in Doc |-> Unopened],
   key |-> [n \in Node |-> NoNode],
   diags |-> [n \in Node |-> "absent"],
   ecuModel |-> [e \in ECU |-> NoModel],
   model |-> model,
   returned |-> {}]

ResetAndReload == Become(IF NothingGarbled(disk) THEN FullLoad ELSE FailedLoad)

-----------------------------------------------------------------------------
(* The partial reload.                                                     *)

\* Mutants: without update_text, and without resetting documents_diags.
ReloadDocumentOldAst(d) ==
  [ast |-> ast, key |-> key, diags |-> [diags EXCEPT ![d] = DiagOf(disk[d])],
   ecuModel |-> ecuModel, model |-> model, returned |-> {d}]

ReloadDocumentOldDiags(d) ==
  [ast |-> [ast EXCEPT ![d] = AstAfter(disk[d])], key |-> key, diags |-> diags,
   ecuModel |-> ecuModel, model |-> model, returned |-> {d}]

\* The reload of the changed document alone: ast is what was just read.
ReloadDocument(d) ==
  [ast |-> [ast EXCEPT ![d] = AstAfter(disk[d])],
   key |-> key,
   diags |-> [diags EXCEPT ![d] = DiagOf(disk[d])],
   ecuModel |-> ecuModel,
   model |-> model,
   returned |-> {d}]

\* Mutants: a position counted in files instead of the one recorded, and an
\* ECU without skip_on_broken_controllers.
RebuildEcuByFile(d) ==
  LET old == ecuModel[d[1]]
      child == IF d[2] = Meta THEN ModelOf(disk[d]) ELSE ItemValue(d[2], disk[d])
  IN IF old = NoModel \/ child = NoModel THEN NoModel
     ELSE IF d[2] = Meta THEN [old EXCEPT !.meta = child]
     ELSE [old EXCEPT !.switches = Splice(@, d[2] - 1, child)]

RebuildEcuKeepsNone(d) ==
  LET old == ecuModel[d[1]]
      child == IF d[2] = Meta THEN ModelOf(disk[d]) ELSE ItemValue(d[2], disk[d])
  IN IF old = NoModel THEN NoModel
     ELSE IF d[2] = Meta THEN [old EXCEPT !.meta = child]
     ELSE [old EXCEPT !.switches = Splice(@, key[d], child)]

\* _rebuild_ancestor for the ECU of d.  Without an old ECU the other required
\* fields are missing; with a None switch skip_on_broken_controllers raises;
\* ecu_metadata is required.
RebuildEcu(d) ==
  LET old == ecuModel[d[1]]
      child == IF d[2] = Meta THEN ModelOf(disk[d]) ELSE ItemValue(d[2], disk[d])
  IN IF old = NoModel \/ child = NoModel THEN NoModel
     ELSE IF d[2] = Meta THEN [old EXCEPT !.meta = child]
     ELSE [old EXCEPT !.switches = Splice(@, key[d], child)]

\* What the reload of a directory sees: the directory listing is read again,
\* the content of a document that is already open is not.
Seen(asts) ==
  [d \in Doc |-> IF disk[d] = Absent THEN Absent
                 ELSE IF asts[d] = Unopened THEN disk[d] ELSE asts[d]]

EcuNodes(e) == {<<e, i>> : i \in 0..Dir}

\* Mutant: the ids of the subtree are not handed on.
ReloadEcuUnnamed(ws, e) ==
  LET seen == Seen(ws.ast)
      mine == NodesOf(seen, e)
      new(n) == IF n[2] = Dir THEN ws.key[n] ELSE KeyOf(seen, n)
  IN [ast |-> [d \in Doc |-> IF d \in mine /\ seen[d].kind \notin {"absent", "garbled"}
                               THEN AstAfter(seen[d]) ELSE ws.ast[d]],
      key |-> [n \in Node |-> IF n \in mine THEN new(n)
                              ELSE IF n \in EcuNodes(e) THEN NoNode ELSE ws.key[n]],
      diags |-> [n \in Node |-> IF n \in mine THEN NodeDiag(seen, n)
                                ELSE IF n \in EcuNodes(e) /\ ws.key[n] # NoNode
                                       THEN "absent" ELSE ws.diags[n]],
      ecuModel |-> [ws.ecuModel EXCEPT ![e] = LoadEcu(seen, e)],
      model |-> ws.model,
      returned |-> ws.returned]

\* _reload_subtree of ECU directory e; its own link is kept.
ReloadEcu(ws, e) ==
  LET seen == Seen(ws.ast)
      mine == NodesOf(seen, e)
      new(n) == IF n[2] = Dir THEN ws.key[n] ELSE KeyOf(seen, n)
      read == {d \in Doc \cap mine : seen[d].kind \notin {"absent", "garbled"}}
  IN [ast |-> [d \in Doc |-> IF d \in read THEN AstAfter(seen[d]) ELSE ws.ast[d]],
      key |-> [n \in Node |-> IF n \in mine THEN new(n)
                              ELSE IF n \in EcuNodes(e) THEN NoNode ELSE ws.key[n]],
      diags |-> [n \in Node |-> IF n \in mine THEN NodeDiag(seen, n)
                                ELSE IF n \in EcuNodes(e) /\ ws.key[n] # NoNode
                                       THEN "absent" ELSE ws.diags[n]],
      ecuModel |-> [ws.ecuModel EXCEPT ![e] = LoadEcu(seen, e)],
      model |-> ws.model,
      returned |-> ws.returned \cup {n \in EcuNodes(e) : ws.key[n] # NoNode}]

\* Mutant: an ECU that cannot be rebuilt keeps its old instance.
UpdateEcuKeepsOld(d) ==
  IF RebuildEcu(d) = NoModel
    THEN ReloadDocument(d)
    ELSE [ReloadDocument(d) EXCEPT !.ecuModel[d[1]] = RebuildEcu(d),
                                   !.diags[<<d[1], Dir>>] = "clean",
                                   !.returned = @ \cup {<<d[1], Dir>>}]

\* _reload_document up to the ECU: its rebuilt model, or its reload.
UpdateEcu(d) ==
  LET e == d[1]
      ws == ReloadDocument(d)
      rebuilt == RebuildEcu(d)
  IN IF rebuilt = NoModel
       THEN ReloadEcu(ws, e)
       ELSE [ws EXCEPT !.ecuModel[e] = rebuilt,
                       !.diags[<<e, Dir>>] = "clean",
                       !.returned = @ \cup {<<e, Dir>>}]

\* The root's list with the ECU put in place; skip_broken_ecus drops a None.
RootList(ws, e) ==
  LET pos == ws.key[<<e, Dir>>] IN
  IF ws.ecuModel[e] = NoModel
    THEN Without(ws.model, pos)
    ELSE Splice(ws.model, pos, ws.ecuModel[e])

\* validate_unique_ecu_names
UniqueEcus(list) ==
  \A j, k \in 1..Len(list) : list[j].ecu = list[k].ecu => j = k

\* A metadata file that appeared since the last load may turn out unparsable
\* only when the reload of its directory opens it.
ReloadRaises(d) ==
  LET m == <<d[1], Meta>> IN
  RebuildEcu(d) = NoModel /\ Seen(ReloadDocument(d).ast)[m].kind = "garbled"

\* Mutant: what the reload of a directory gives is not handed on to the root.
PartialReloadDropsReloaded(d) ==
  LET ws == UpdateEcu(d)
      root == IF RebuildEcu(d) = NoModel THEN Without(ws.model, ws.key[<<d[1], Dir>>])
              ELSE RootList(ws, d[1])
  IN IF ReloadRaises(d) \/ ~UniqueEcus(root)
       THEN ResetAndReload
       ELSE Become([ws EXCEPT !.model = root])

\* The rest of _reload_document: put the ECU into the root, or start over.
PartialReload(d) ==
  LET ws == UpdateEcu(d)
      root == RootList(ws, d[1])
  IN IF ReloadRaises(d) \/ ~UniqueEcus(root)
       THEN ResetAndReload
       ELSE Become([ws EXCEPT !.model = root])

\* update_document(uri)
UpdateDocument(d) ==
  /\ d \in pending
  /\ pending' = pending \ {d}
  /\ IF key[d] = NoNode \/ disk[d].kind \in {"absent", "garbled"}
       THEN ResetAndReload
       ELSE PartialReload(d)
  /\ UNCHANGED <<disk, edits>>

-----------------------------------------------------------------------------
(* The editors.                                                            *)

Writable(d) == {c \in Text : c.kind \in IF d[2] = Meta THEN MetaKinds ELSE EditKinds}

\* Write, create or delete one file.
EditFile(d) ==
  /\ edits < MaxEdits
  /\ edits' = edits + 1
  /\ \E c \in Writable(d) \ {disk[d]} : disk' = [disk EXCEPT ![d] = c]
  /\ pending' = pending \cup {d}
  /\ UNCHANGED wsVars

\* A workspace of loadable files, just loaded.
Init ==
  /\ disk \in [Doc -> {c \in Content : c.kind \in {"clean", "absent"}}]
  /\ \A e \in ECU : disk[<<e, Meta>>].kind = "clean"
  /\ pending = {}
  /\ edits = 0
  /\ ast = FullLoad.ast
  /\ key = FullLoad.key
  /\ diags = FullLoad.diags
  /\ ecuModel = FullLoad.ecuModel
  /\ model = FullLoad.model
  /\ returned = {}

Next == \E d \in Doc : EditFile(d) \/ UpdateDocument(d)

Spec == Init /\ [][Next]_vars

-----------------------------------------------------------------------------
(* Properties.                                                             *)

\* Every variable keeps its shape: in particular flync_model never holds a
\* None, whatever the partial reload spliced into it.
TypeOK ==
  /\ disk \in [Doc -> Text]
  /\ pending \subseteq Doc
  /\ edits \in 0..MaxEdits
  /\ ast \in [Doc -> Content]
  /\ key \in [Node -> Nat \cup {NoNode}]
  /\ diags \in [Node -> {"absent", "clean", "error"}]
  /\ ecuModel \in [ECU -> EcuValue]
  /\ model \in Seq(EcuModel)
  /\ returned \subseteq Node

\* update_document promises what a full reload gives: once every change has
\* been reported, the model is the one load_workspace would build.
InSync ==
  pending = {} /\ NothingGarbled(disk) => model = LoadModel(disk)

\* Editors that never leave a YAML file from which no model can be built.
\* They may leave files that are no YAML at all.
Loadable     == {"clean", "shallow", "nested"}
LoadableOnly == /\ EditKinds \subseteq Loadable \cup {"garbled", "absent"}
                /\ MetaKinds \subseteq Loadable \cup {"garbled"}

\* What the loaded state is a full load of: the documents as last opened.
View == [d \in Doc |-> IF ast[d] = Unopened THEN Absent ELSE ast[d]]

\* After a load that raised there is no LoadNode to reload anything partially.
Dead ==
  /\ \A n \in Node : key[n] = NoNode
  /\ pending = {} => ~NothingGarbled(disk)

\* Otherwise every position recorded and every model held by a LoadNode is the
\* one a full load of the opened documents gives, and no opened document is
\* behind its file unless its change has still to be reported.
Live ==
  /\ \A d \in Doc : ast[d].kind \in {"clean", "shallow", "pruned", "unopened"}
  /\ \A e \in ECU : ast[<<e, Meta>>] # Unopened
  /\ \A d \in Doc : key[d] = IF ast[d] = Unopened THEN NoNode ELSE KeyOf(View, d)
  /\ \A e \in ECU : key[<<e, Dir>>] = Rank(ECU, e)
  /\ \A e \in ECU : ecuModel[e] = LoadEcu(View, e)
  /\ model = LoadModel(View)
  /\ \A d \in Doc \ pending : /\ ModelOf(View[d]) = ModelOf(disk[d])
                              /\ disk[d].kind # "garbled"

LoadableFiles ==
  /\ \A d \in Doc : disk[d].kind \in Loadable \cup {"garbled", "absent"}
  /\ \A e \in ECU : disk[<<e, Meta>>].kind # "absent"

\* Partial reloads keep what they rely on: the recorded list positions stay
\* those of a full load, so the next partial reload hits the right items.
PositionsInStep == LoadableFiles /\ (Dead \/ Live)

\* The promise of update_document as a specification of its own: whatever the
\* order of edits and updates, the model is a function of the documents as last
\* read, and an update of one document leaves what all the others contribute as
\* it was, unless everything is read again (or that fails).
Lost == ECU # {} /\ \A n \in Node : key[n] = NoNode

IsGarbled(c) == c.kind = "garbled"

Promise == INSTANCE ModelView
             WITH Docs <- Doc, Contents <- Text, Read <- AstAfter, Load <- LoadModel,
                  Bad <- IsGarbled, Unread <- Absent,
                  files <- disk, unreported <- pending, loaded <- View, failed <- Lost

ImplementsView == Promise!Spec

\* A weaker promise, for workspaces with broken files: whatever the model
\* shows is there once, and is what its file says now.
ModelSound ==
  pending = {} /\ NothingGarbled(disk) =>
    /\ UniqueEcus(model)
    /\ \A k \in 1..Len(model) :
         LET v == model[k] IN
         /\ v.meta = ModelOf(disk[<<v.ecu, Meta>>])
         /\ \A j \in 1..Len(v.switches) :
              /\ v.switches[j] = ItemValue(v.switches[j].file,
                                           disk[<<v.ecu, v.switches[j].file>>])
              /\ \A i \in 1..Len(v.switches) :
                   v.switches[i].file = v.switches[j].file => i = j

\* Errors do not vanish: a file with an invalid value has an error listed
\* under its uri once its change has been reported.
ErrorsReported ==
  pending = {} /\ NothingGarbled(disk) =>
    \A d \in Doc : DiagOf(disk[d]) = "error" => diags[d] = "error"

\* The document an update was for is in the model afterwards, with what the
\* file says, when it and its ECU can be loaded: whether the ECU was rebuilt or
\* its directory reloaded, at whatever position it ends up.
Shows(list, d, files) ==
  \E k \in 1..Len(list) :
    /\ list[k].ecu = d[1]
    /\ IF d[2] = Meta
         THEN list[k].meta = ModelOf(files[d])
         ELSE \E j \in 1..Len(list[k].switches) :
                list[k].switches[j] = ItemValue(d[2], files[d])

UpdateIsVisible ==
  [][\A d \in pending \ pending' :
       NothingGarbled(disk) /\ ModelOf(disk[d]) # NoModel /\ ecuModel'[d[1]] # NoModel
       => Shows(model', d, disk')]_vars

\* The ids update_document returns name every document that got diagnostics
\* or different ones, so a client that refreshes those shows what is true; but
\* documents that had no LoadNode and are found while the directory of the
\* reported one is reloaded.
ReturnCoversKnown ==
  [][\A d \in pending \ pending', n \in Node :
       diags'[n] \notin {"absent", diags[n]} =>
         \/ n \in returned'
         \/ n[1] = d[1] /\ key[n] = NoNode /\ RebuildEcu(d) = NoModel]_vars
=============================================================================
