----------------------------- MODULE ModelView -----------------------------
(***************************************************************************)
(* What update_document promises: the model is always the one that a load  *)
(* of the documents makes, as they were when they were last read.  An      *)
(* update reads its own document again and nothing else, or all of them;   *)
(* or that fails because of a file that cannot be read, and then the model *)
(* is left as it was until all files can be read again.                    *)
(***************************************************************************)
CONSTANTS
  Docs,      \* the documents
  Contents,  \* what a file can say
  Read(_),   \* what is kept of a file's content when it is read
  Load(_),   \* the model of the documents as read
  Bad(_),    \* a content that cannot be read
  Unread     \* what is kept of a file that was not read

VARIABLES
  files,       \* the files
  unreported,  \* changed documents there was no update for
  loaded,      \* the documents as last read
  failed,      \* nothing is loaded, because the last load failed
  model        \* what readers see

view == <<files, unreported, loaded, failed, model>>

ReadAll == [d \in Docs |-> Read(files[d])]

Init ==
  /\ files \in [Docs -> Contents]
  /\ \A d \in Docs : ~Bad(files[d])
  /\ unreported = {}
  /\ loaded = ReadAll
  /\ failed = FALSE
  /\ model = Load(loaded)

\* Somebody writes, creates or deletes a file.
Write(d) ==
  /\ \E c \in Contents : files' = [files EXCEPT ![d] = c]
  /\ unreported' = unreported \cup {d}
  /\ UNCHANGED <<loaded, failed, model>>

\* The three ways an update can go.
ReadOne(d) ==
  /\ ~failed /\ ~Bad(files[d])
  /\ loaded' = [loaded EXCEPT ![d] = Read(files[d])]
  /\ failed' = FALSE
  /\ model' = Load(loaded')

ReadAgain ==
  /\ \A d \in Docs : ~Bad(files[d])
  /\ loaded' = ReadAll
  /\ failed' = FALSE
  /\ model' = Load(loaded')

Fail ==
  /\ \E d \in Docs : Bad(files[d])
  /\ loaded' = [d \in Docs |-> Unread]
  /\ failed' = TRUE
  /\ model' = model

Update(d) ==
  /\ d \in unreported
  /\ unreported' = unreported \ {d}
  /\ files' = files
  /\ ReadOne(d) \/ ReadAgain \/ Fail

Next == \E d \in Docs : Write(d) \/ Update(d)

Spec == Init /\ [][Next]_view

-----------------------------------------------------------------------------

\* When every change was reported the model is that of the files as they are,
\* unless there is one that cannot be read.
Current == unreported = {} => model = Load(ReadAll) \/ \E d \in Docs : Bad(files[d])
=============================================================================
