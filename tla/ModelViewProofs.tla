--------------------------- MODULE ModelViewProofs ---------------------------
(***************************************************************************)
(* What the promise of update_document is worth to its callers.            *)
(***************************************************************************)
EXTENDS ModelView, TLAPS

\* The functions keep their domain; unless the last load failed, the model is
\* that of what was read, and only a document with a change still to be
\* reported was read before it changed; and a load fails on a file only.
Inv ==
  /\ files = [d \in Docs |-> files[d]]
  /\ loaded = [d \in Docs |-> loaded[d]]
  /\ ~failed => /\ model = Load(loaded)
                /\ \A d \in Docs \ unreported : loaded[d] = Read(files[d])
  /\ failed /\ unreported = {} => \E d \in Docs : Bad(files[d])

LEMMA InvInit == Init => Inv
  BY DEF Init, Inv, ReadAll

LEMMA WriteKeepsInv == ASSUME Inv, NEW d \in Docs, Write(d) PROVE Inv'
<1>1. PICK c \in Contents : files' = [files EXCEPT ![d] = c]
  BY DEF Write
<1>2. /\ files' = [e \in Docs |-> files'[e]]
      /\ \A e \in Docs : e # d => files'[e] = files[e]
  BY <1>1 DEF Inv
<1>3. unreported' = unreported \cup {d} /\ loaded' = loaded /\ failed' = failed /\ model' = model
  BY DEF Write
<1>4. QED
  BY <1>2, <1>3 DEF Inv

LEMMA UpdateKeepsInv == ASSUME Inv, NEW d \in Docs, Update(d) PROVE Inv'
<1>1. unreported' = unreported \ {d} /\ files' = files
  BY DEF Update
<1>2. CASE ReadOne(d)
  <2>1. /\ loaded' = [e \in Docs |-> loaded'[e]]
        /\ \A e \in Docs : loaded'[e] = IF e = d THEN Read(files[d]) ELSE loaded[e]
    BY <1>2 DEF ReadOne, Inv
  <2>2. ~failed /\ failed' = FALSE /\ model' = Load(loaded')
    BY <1>2 DEF ReadOne
  <2>3. QED
    BY <1>1, <2>1, <2>2 DEF Inv
<1>3. CASE ReadAgain
  BY <1>1, <1>3 DEF ReadAgain, ReadAll, Inv
<1>4. CASE Fail
  BY <1>1, <1>4 DEF Fail, Inv
<1>5. QED
  BY <1>2, <1>3, <1>4 DEF Update

\* Whatever an implementation of the promise does in between, once every change
\* was reported its model is that of the files as they are, unless a file
\* cannot be read: what readers of FLYNCWorkspace.flync_model rely on.
THEOREM ViewIsCurrent == Spec => []Current
<1>1. Inv /\ [Next]_view => Inv'
  <2> SUFFICES ASSUME Inv, [Next]_view PROVE Inv'
    OBVIOUS
  <2>1. CASE UNCHANGED view
    BY <2>1 DEF view, Inv
  <2>2. QED
    BY <2>1, WriteKeepsInv, UpdateKeepsInv DEF Next
<1>2. Inv => Current
  <2> SUFFICES ASSUME Inv, unreported = {}, ~failed PROVE model = Load(ReadAll)
    BY DEF Inv, Current
  <2>1. loaded = ReadAll
    BY DEF Inv, ReadAll
  <2>2. QED
    BY <2>1 DEF Inv
<1>3. QED
  BY <1>1, <1>2, InvInit, PTL DEF Spec
=============================================================================
