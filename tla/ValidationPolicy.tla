-------------------------- MODULE ValidationPolicy --------------------------
(***************************************************************************)
(* validate_with_policy: build a model from the data of one document, and  *)
(* when a part of it is invalid take the part out and try again.           *)
(*                                                                         *)
(* The data is a mapping of numbered fields.  A field holds a plain value, *)
(* a mapping with NP possible parts, or a list of at most NP parts.  What  *)
(* the validators would say of a value is carried along with it: a verdict *)
(* per part, one per field (reached when all its parts are fine) and one   *)
(* for the document (reached when all its fields are fine).  They stand    *)
(* for the pydantic model; everything else here is exceptions_handling.py. *)
(***************************************************************************)
EXTENDS Integers, Sequences, FiniteSets

CONSTANTS
  NF, NP,         \* number of fields, and of parts in a field
  ObjectFields,   \* fields that hold a mapping
  ListFields,     \* fields that hold a list
  Required,       \* fields the model cannot be built without
  RequiredParts,  \* <<f, i>> for the parts the mapping in f cannot do without
  PartVerdicts,   \* what validators may say of a part
  OwnVerdicts     \* what they may say of a field or of the document

Field == 1..NF
Part  == 1..NP

\* native: an error pydantic itself raises (int_type, less_than_equal, ...).
\* crash: an exception pydantic does not catch, such as a KeyError.
Verdict == {"ok", "minor", "major", "native", "fatal"}

ASSUME ShapeAssumption ==
  /\ NF \in Nat /\ NP \in Nat
  /\ ObjectFields \subseteq Field /\ ListFields \subseteq Field \ ObjectFields
  /\ Required \subseteq Field /\ RequiredParts \subseteq ObjectFields \X Part
  /\ PartVerdicts \subseteq Verdict /\ OwnVerdicts \subseteq Verdict \cup {"crash"}

FatalTypes == {"fatal", "missing"}

Loc     == {<< >>} \cup {<<f>> : f \in Field} \cup {<<f, i>> : f \in Field, i \in Part}
Err     == [loc : Loc, type : {"minor", "major", "native", "fatal", "missing"}]
Report  == [loc : Loc, type : {"minor", "major", "fatal", "missing"}]

Gone == [own |-> "gone", parts |-> << >>]

ObjectParts == [Part -> PartVerdicts \cup {"gone"}]
ListParts   == UNION {[1..n -> PartVerdicts] : n \in 0..NP}

FieldValue(f) ==
  [own : OwnVerdicts, parts : IF f \in ObjectFields THEN ObjectParts
                              ELSE IF f \in ListFields THEN ListParts
                              ELSE {<< >>}] \cup {Gone}

VARIABLES
  given,      \* the data as it was passed in: its fields ...
  root,       \* ... and the verdict on the document as a whole
  working,    \* the fields that are left
  removed,    \* removed_locs
  majors,     \* major_removed_locs
  collected,  \* collected_errors
  todo,       \* errors of this attempt that still have to be processed
  progress,   \* made_progress
  rounds,     \* how often the loop went round
  phase,      \* where the loop is, or how it ended
  reported    \* the errors the caller gets to see

vars == <<given, root, working, removed, majors, collected, todo, progress,
          rounds, phase, reported>>

-----------------------------------------------------------------------------
(* What one attempt of TypeAdapter(model).validate_python(working) finds.  *)

PartVerdict(w, f, i) ==
  IF w[f].parts[i] # "gone" THEN w[f].parts[i]
  ELSE IF <<f, i>> \in RequiredParts THEN "missing" ELSE "ok"

PartErrors(w, f) ==
  {[loc |-> <<f, i>>, type |-> PartVerdict(w, f, i)] :
     i \in {i \in DOMAIN w[f].parts : PartVerdict(w, f, i) # "ok"}}

FieldErrors(w, f) ==
  IF w[f] = Gone
    THEN IF f \in Required THEN {[loc |-> <<f>>, type |-> "missing"]} ELSE {}
  ELSE IF PartErrors(w, f) # {} THEN PartErrors(w, f)
  ELSE IF w[f].own \in {"ok", "crash"} THEN {}
  ELSE {[loc |-> <<f>>, type |-> w[f].own]}

AllFieldErrors(w) == UNION {FieldErrors(w, f) : f \in Field}

Errors(w) ==
  IF AllFieldErrors(w) # {} \/ root \in {"ok", "crash"}
    THEN AllFieldErrors(w)
    ELSE {[loc |-> << >>, type |-> root]}

\* A validator is reached that raises something else than a ValueError.
Crashes(w) ==
  \/ \E f \in Field : w[f].own = "crash" /\ PartErrors(w, f) = {}
  \/ root = "crash" /\ AllFieldErrors(w) = {}

\* Errors come in the order of the fields, and the parts of a field in theirs.
Before(a, b) ==
  \/ a = << >>
  \/ b # << >> /\ a[1] < b[1]
  \/ Len(a) = 2 /\ Len(b) = 2 /\ a[1] = b[1] /\ a[2] <= b[2]
  \/ a = b

IsFirst(e, errs) == \A other \in errs : Before(e.loc, other.loc)

-----------------------------------------------------------------------------
(* The loop.                                                               *)

\* Mutant: a list keeps a hole where an item was.
DeleteAtLeavesHole(w, loc) ==
  IF loc = << >> \/ w[loc[1]] = Gone THEN w
  ELSE IF Len(loc) = 1 THEN [w EXCEPT ![loc[1]] = Gone]
  ELSE [w EXCEPT ![loc[1]].parts[loc[2]] = "gone"]

\* Mutant: pop() without the index.
DeleteAtLast(w, loc) ==
  IF loc = << >> \/ w[loc[1]] = Gone THEN w
  ELSE IF Len(loc) = 1 THEN [w EXCEPT ![loc[1]] = Gone]
  ELSE IF loc[1] \in ListFields
    THEN [w EXCEPT ![loc[1]].parts =
            [k \in 1..(Len(@) - IF loc[2] <= Len(@) THEN 1 ELSE 0) |-> @[k]]]
    ELSE [w EXCEPT ![loc[1]].parts[loc[2]] = "gone"]

\* delete_at_loc: a list closes the gap, a mapping does not.
DeleteAt(w, loc) ==
  IF loc = << >> \/ w[loc[1]] = Gone THEN w
  ELSE IF Len(loc) = 1 THEN [w EXCEPT ![loc[1]] = Gone]
  ELSE IF loc[1] \in ListFields
    THEN [w EXCEPT ![loc[1]].parts =
            [k \in 1..(Len(@) - IF loc[2] <= Len(@) THEN 1 ELSE 0) |->
               IF k < loc[2] THEN @[k] ELSE @[k + 1]]]
    ELSE [w EXCEPT ![loc[1]].parts[loc[2]] = "gone"]

\* Mutant: every error below the top level takes the whole field with it.
RemoveLocParent(e) == IF Len(e.loc) = 2 THEN <<e.loc[1]>> ELSE e.loc

\* A fatal error below the top level takes the whole field with it.
RemoveLoc(e) ==
  IF e.type \in FatalTypes /\ Len(e.loc) = 2 THEN <<e.loc[1]>> ELSE e.loc

Reported(e) == [e EXCEPT !.type = IF @ = "native" THEN "major" ELSE @]

HasTopLevelFatal(errs) ==
  \E e \in errs : e.type \in FatalTypes /\ Len(e.loc) <= 1 /\ e.loc \notin removed

\* Validation succeeds, crashes, meets a fatal error that ends everything, or
\* leaves a list of errors to work off.
Attempt ==
  /\ phase = "attempt"
  /\ LET errs == Errors(working) IN
     \/ /\ Crashes(working)
        /\ phase' = "raised"
        /\ reported' = collected \cup {[loc |-> << >>, type |-> "fatal"]}
        /\ UNCHANGED todo
     \/ /\ ~Crashes(working) /\ errs = {}
        /\ phase' = "built"
        /\ reported' = collected
        /\ UNCHANGED todo
     \/ /\ ~Crashes(working) /\ HasTopLevelFatal(errs)
        /\ phase' = "raised"
        /\ reported' = {Reported(e) : e \in errs}
        /\ UNCHANGED todo
     \/ /\ ~Crashes(working) /\ errs # {} /\ ~HasTopLevelFatal(errs)
        /\ phase' = "process"
        /\ todo' = errs
        /\ UNCHANGED reported
  /\ progress' = FALSE
  /\ UNCHANGED <<given, root, working, removed, majors, collected, rounds>>

\* The place an error asks to remove is gone already: nothing to do for it.
SkipError ==
  /\ phase = "process"
  /\ \E e \in todo :
     /\ IsFirst(e, todo)
     /\ RemoveLoc(e) \in removed
     /\ todo' = todo \ {e}
  /\ UNCHANGED <<given, root, working, removed, majors, collected, progress,
                 rounds, phase, reported>>

\* Mutants: a cascade that ignores major_removed_locs, and one that counts as
\* progress although it removes nothing.
EscalateAnyCascade ==
  /\ phase = "process"
  /\ \E e \in todo :
     /\ IsFirst(e, todo)
     /\ RemoveLoc(e) \notin removed /\ e.loc \in removed
     /\ todo' = todo \ {e}
     /\ working' = DeleteAt(working, RemoveLoc(e))
     /\ removed' = removed \cup {RemoveLoc(e)}
     /\ progress' = TRUE
  /\ UNCHANGED <<given, root, majors, collected, rounds, phase, reported>>

EscalateMarksProgress ==
  /\ phase = "process"
  /\ \E e \in todo :
     /\ IsFirst(e, todo)
     /\ RemoveLoc(e) \notin removed /\ e.loc \in removed
     /\ todo' = todo \ {e}
     /\ IF e.type \in FatalTypes /\ e.loc \in majors
          THEN UNCHANGED <<working, removed>>
          ELSE /\ working' = DeleteAt(working, RemoveLoc(e))
               /\ removed' = removed \cup {RemoveLoc(e)}
     /\ progress' = TRUE
  /\ UNCHANGED <<given, root, majors, collected, rounds, phase, reported>>

\* The error follows from an earlier removal: the parent goes too, silently,
\* unless a major error was the reason.
EscalateCascade ==
  /\ phase = "process"
  /\ \E e \in todo :
     /\ IsFirst(e, todo)
     /\ RemoveLoc(e) \notin removed /\ e.loc \in removed
     /\ todo' = todo \ {e}
     /\ IF e.type \in FatalTypes /\ e.loc \in majors
          THEN UNCHANGED <<working, removed, progress>>
          ELSE /\ working' = DeleteAt(working, RemoveLoc(e))
               /\ removed' = removed \cup {RemoveLoc(e)}
               /\ progress' = TRUE
  /\ UNCHANGED <<given, root, majors, collected, rounds, phase, reported>>

\* _collect_original_error
CollectError ==
  /\ phase = "process"
  /\ \E e \in todo :
     /\ IsFirst(e, todo)
     /\ RemoveLoc(e) \notin removed /\ e.loc \notin removed
     /\ todo' = todo \ {e}
     /\ collected' = collected \cup {Reported(e)}
     /\ working' = DeleteAt(working, RemoveLoc(e))
     /\ removed' = removed \cup {RemoveLoc(e)}
     /\ majors' = IF e.type = "major" THEN majors \cup {RemoveLoc(e)} ELSE majors
     /\ progress' = TRUE
  /\ UNCHANGED <<given, root, rounds, phase, reported>>

\* Mutant: it tries again whatever the round achieved.
EndRoundRetries ==
  /\ phase = "process" /\ todo = {}
  /\ phase' = "attempt"
  /\ UNCHANGED <<given, root, working, removed, majors, collected, todo,
                 progress, rounds, reported>>

\* Round again if anything was removed; otherwise give up without a model.
EndRound ==
  /\ phase = "process" /\ todo = {}
  /\ IF progress
       THEN /\ phase' = "attempt"
            /\ rounds' = rounds + 1
            /\ UNCHANGED reported
       ELSE /\ phase' = "none"
            /\ reported' = collected
            /\ UNCHANGED rounds
  /\ UNCHANGED <<given, root, working, removed, majors, collected, todo, progress>>

Data ==
  {[f \in Field |-> IF f \in ObjectFields THEN objects[f]
                    ELSE IF f \in ListFields THEN lists[f] ELSE plain[f]] :
     objects \in [ObjectFields -> [own : OwnVerdicts, parts : ObjectParts] \cup {Gone}],
     lists \in [ListFields -> [own : OwnVerdicts, parts : ListParts] \cup {Gone}],
     plain \in [Field \ (ObjectFields \cup ListFields) ->
                  [own : OwnVerdicts, parts : {<< >>}] \cup {Gone}]}

Init ==
  /\ given \in Data
  /\ root \in OwnVerdicts
  /\ working = given
  /\ removed = {} /\ majors = {} /\ collected = {} /\ todo = {}
  /\ progress = FALSE /\ rounds = 0
  /\ phase = "attempt"
  /\ reported = {}

Next == Attempt \/ SkipError \/ EscalateCascade \/ CollectError \/ EndRound

\* One call on one thread: it keeps running until it returns or raises.
Spec == Init /\ [][Next]_vars /\ WF_vars(Next)

-----------------------------------------------------------------------------
(* Properties.                                                             *)

Ended == {"built", "none", "raised"}

Shaped(w) == w = [f \in Field |-> w[f]] /\ \A f \in Field : w[f] \in FieldValue(f)

\* The data keeps its shape under delete_at_loc, lists included.
TypeOK ==
  /\ Shaped(given) /\ Shaped(working)
  /\ removed \subseteq Loc /\ majors \subseteq removed
  /\ collected \subseteq Report /\ reported \subseteq Report
  /\ root \in OwnVerdicts /\ todo \subseteq Err
  /\ progress \in BOOLEAN
  /\ rounds \in Nat
  /\ phase \in Ended \cup {"attempt", "process"}

\* Every round takes at least one new place out of the data, so the loop goes
\* round at most once per place.
RoundsBounded == rounds <= Cardinality(removed)

\* The loop comes to an end.
Terminates == <>(phase \in Ended)

\* What the validators say of the parts of the data as it was passed in.
BadParts(f) == {i \in DOMAIN given[f].parts : PartVerdict(given, f, i) # "ok"}

\* A list without its item i.
Closed(list, i) == [k \in 1..(Len(list) - 1) |-> IF k < i THEN list[k] ELSE list[k + 1]]

\* Nothing that was in the document is missing from what is left without an
\* error of its own in the report.  The gap a list closes is that of its one
\* invalid item: items keep their order, and none takes the blame for another.
\* Of a list with several invalid items only the number of errors is right.
NoSilentLoss ==
  phase \in {"built", "none"} =>
    \A f \in Field :
      LET about == {c \in reported : c.loc # << >> /\ c.loc[1] = f} IN
      /\ given[f] # Gone /\ working[f] = Gone => about # {}
      /\ working[f] # Gone /\ f \in ObjectFields =>
           \A i \in Part : given[f].parts[i] # working[f].parts[i]
                             => \E c \in about : c.loc = <<f, i>>
      /\ working[f] # Gone /\ f \in ListFields =>
           /\ Len(given[f].parts) - Len(working[f].parts) <= Cardinality(about)
           /\ Cardinality(BadParts(f)) <= 1 =>
                \/ working[f].parts = given[f].parts
                \/ \E i \in BadParts(f) : /\ working[f].parts = Closed(given[f].parts, i)
                                         /\ \E c \in about : c.loc = <<f, i>>

\* "Cascade from a major-removed field: stop the chain, do not escalate": a
\* field without an error to its own name went because of a part that was not
\* removed for a major error.
MajorStopsCascade ==
  \A f \in Field :
    <<f>> \in removed /\ (\A c \in collected : RemoveLoc(c) # <<f>>)
      => \E i \in Part : <<f, i>> \in removed \ majors

\* Only minor and major errors, only at places the model can do without, and
\* no list with two of them.
Recoverable ==
  /\ root = "ok"
  /\ \A f \in Field :
       /\ given[f] = Gone => f \notin Required
       /\ given[f] # Gone =>
            /\ \A i \in BadParts(f) : /\ PartVerdict(given, f, i) \notin FatalTypes
                                      /\ <<f, i>> \notin RequiredParts
            /\ given[f].own \notin {"fatal", "crash"}
            /\ given[f].own # "ok" => f \notin Required

OneBadItem == \A f \in ListFields : Cardinality(BadParts(f)) <= 1

\* What should be left of such a document.
Cleaned(f) ==
  IF given[f] = Gone \/ given[f].own # "ok" THEN Gone
  ELSE IF f \in ListFields
    THEN [given[f] EXCEPT !.parts = [k \in 1..(Len(@) - Cardinality(BadParts(f))) |-> "ok"]]
  ELSE [given[f] EXCEPT !.parts = [i \in DOMAIN @ |-> IF i \in BadParts(f) THEN "gone" ELSE @[i]]]

\* Then the model is built, from exactly the parts that are valid.
Recovers ==
  phase \in Ended /\ Recoverable /\ OneBadItem =>
    phase = "built" /\ \A f \in Field : working[f] = Cleaned(f)

\* The same promise without the proviso about lists, as validate_with_policy's
\* docstring makes it: "so that the model can still be constructed without the
\* invalid field".
RecoversAlways == phase \in Ended /\ Recoverable => phase = "built"
=============================================================================
