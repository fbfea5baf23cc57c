---------------------------- MODULE PolicyProofs ----------------------------
(***************************************************************************)
(* Proofs about ValidationPolicy for documents of any size and shape.      *)
(***************************************************************************)
EXTENDS ValidationPolicy, FiniteSetTheorems, TLAPS

-----------------------------------------------------------------------------
(* Places and errors.                                                      *)

LEMMA ErrPlaces ==
  ASSUME NEW e \in Err
  PROVE  /\ RemoveLoc(e) \in Loc
         /\ Reported(e) \in Report
         /\ RemoveLoc(Reported(e)) = RemoveLoc(e)
         /\ RemoveLoc(e) # e.loc =>
              /\ e.type \in FatalTypes
              /\ \E f \in Field, i \in Part : e.loc = <<f, i>> /\ RemoveLoc(e) = <<f>>
<1>1. e.loc \in Loc /\ e.type \in {"minor", "major", "native", "fatal", "missing"}
  BY DEF Err
<1>2. Reported(e) = [loc |-> e.loc, type |-> IF e.type = "native" THEN "major" ELSE e.type]
  BY DEF Err, Reported
<1>3. Reported(e) \in Report
  BY <1>1, <1>2 DEF Report
<1>4. RemoveLoc(Reported(e)) = RemoveLoc(e)
  BY <1>1, <1>2 DEF RemoveLoc, FatalTypes
<1>5. CASE e.loc = << >> \/ \E f \in Field : e.loc = <<f>>
  BY <1>1, <1>3, <1>4, <1>5 DEF RemoveLoc
<1>6. CASE \E f \in Field, i \in Part : e.loc = <<f, i>>
  <2>1. PICK f \in Field, i \in Part : e.loc = <<f, i>>
    BY <1>6
  <2>2. Len(e.loc) = 2 /\ e.loc[1] = f
    BY <2>1
  <2>3. RemoveLoc(e) = IF e.type \in FatalTypes THEN <<f>> ELSE e.loc
    BY <2>2 DEF RemoveLoc
  <2>4. <<f>> \in Loc
    BY DEF Loc
  <2>5. QED
    BY <1>1, <1>3, <1>4, <2>1, <2>3, <2>4
<1>7. QED
  BY <1>1, <1>5, <1>6 DEF Loc

\* What validation of well-shaped data finds.
LEMMA ErrorsType ==
  ASSUME NEW w, Shaped(w), root \in OwnVerdicts
  PROVE  Errors(w) \subseteq Err
<1>1. ASSUME NEW f \in Field, w[f] # Gone, NEW i \in DOMAIN w[f].parts,
             PartVerdict(w, f, i) # "ok"
      PROVE  [loc |-> <<f, i>>, type |-> PartVerdict(w, f, i)] \in Err
  <2>1. w[f].parts \in ObjectParts \/ w[f].parts \in ListParts \/ w[f].parts = << >>
    BY <1>1 DEF Shaped, FieldValue
  <2>2. i \in Part /\ w[f].parts[i] \in PartVerdicts \cup {"gone"}
    <3>1. CASE w[f].parts \in ObjectParts
      BY <3>1 DEF ObjectParts
    <3>2. CASE w[f].parts \in ListParts
      <4>1. PICK n \in 0..NP : w[f].parts \in [1..n -> PartVerdicts]
        BY <3>2 DEF ListParts
      <4>2. i \in 1..n /\ w[f].parts[i] \in PartVerdicts
        BY <4>1
      <4>3. QED
        BY <4>2, ShapeAssumption DEF Part
    <3>3. CASE w[f].parts = << >>
      <4>1. DOMAIN w[f].parts = {}
        BY <3>3
      <4>2. QED
        BY <4>1
    <3>4. QED
      BY <2>1, <3>1, <3>2, <3>3
  <2>3. PartVerdict(w, f, i) \in {"minor", "major", "native", "fatal", "missing"}
    BY <1>1, <2>2, ShapeAssumption DEF PartVerdict, Verdict
  <2>4. <<f, i>> \in Loc
    BY <2>2 DEF Loc
  <2>5. QED
    BY <2>3, <2>4 DEF Err
<1>2. \A f \in Field : w[f] # Gone => PartErrors(w, f) \subseteq Err
  BY <1>1 DEF PartErrors
<1>3. ASSUME NEW f \in Field PROVE FieldErrors(w, f) \subseteq Err
  <2>1. <<f>> \in Loc
    BY DEF Loc
  <2>2. CASE w[f] = Gone
    <3>1. [loc |-> <<f>>, type |-> "missing"] \in Err
      BY <2>1 DEF Err
    <3>2. QED
      BY <2>2, <3>1 DEF FieldErrors
  <2>3. CASE w[f] # Gone
    <3>1. w[f].own \in Verdict \cup {"crash"}
      BY <2>3, ShapeAssumption DEF Shaped, FieldValue
    <3>2. w[f].own \notin {"ok", "crash"} => [loc |-> <<f>>, type |-> w[f].own] \in Err
      BY <2>1, <3>1 DEF Err, Verdict
    <3>3. QED
      BY <1>2, <2>3, <3>2 DEF FieldErrors
  <2>4. QED
    BY <2>2, <2>3
<1>4. root \notin {"ok", "crash"} => [loc |-> << >>, type |-> root] \in Err
  BY ShapeAssumption DEF Verdict, Err, Loc
<1>5. QED
  BY <1>3, <1>4 DEF Errors, AllFieldErrors

\* Taking a place out of well-shaped data leaves well-shaped data.
LEMMA DeleteAtType ==
  ASSUME NEW w, Shaped(w), NEW loc \in Loc
  PROVE  Shaped(DeleteAt(w, loc))
<1>1. CASE loc = << >> \/ w[loc[1]] = Gone
  BY <1>1 DEF DeleteAt
<1>2. ASSUME NEW f \in Field, NEW v \in FieldValue(f)
      PROVE  Shaped([w EXCEPT ![f] = v])
  BY <1>2 DEF Shaped
<1>3. ASSUME NEW f \in Field, loc = <<f>>, w[f] # Gone
      PROVE  Shaped(DeleteAt(w, loc))
  <2>1. DeleteAt(w, loc) = [w EXCEPT ![f] = Gone]
    BY <1>3 DEF DeleteAt
  <2>2. Gone \in FieldValue(f)
    BY DEF FieldValue
  <2>3. QED
    BY <1>2, <2>1, <2>2
<1>4. ASSUME NEW f \in Field, NEW i \in Part, loc = <<f, i>>, w[f] # Gone
      PROVE  Shaped(DeleteAt(w, loc))
  <2> DEFINE old == w[f].parts
  <2>1. loc[1] = f /\ loc[2] = i /\ Len(loc) = 2 /\ loc # << >>
    BY <1>4
  <2>2. w[f] \in FieldValue(f) /\ w[f].own \in OwnVerdicts
    BY <1>4 DEF Shaped, FieldValue
  <2>3. CASE f \in ListFields
    <3> DEFINE new == [k \in 1..(Len(old) - IF i <= Len(old) THEN 1 ELSE 0) |->
                         IF k < i THEN old[k] ELSE old[k + 1]]
    <3>1. w[f] = [own |-> w[f].own, parts |-> old] /\ old \in ListParts
      BY <1>4, <2>2, <2>3, ShapeAssumption DEF FieldValue
    <3>2. PICK n \in 0..NP : old \in [1..n -> PartVerdicts]
      BY <3>1 DEF ListParts
    <3>3. Len(old) = n /\ n \in Nat /\ i \in Nat \ {0}
      BY <3>2, ShapeAssumption DEF Part
    <3> DEFINE m == n - IF i <= n THEN 1 ELSE 0
    <3>4. m \in 0..NP
      BY <3>3, ShapeAssumption
    <3>5. \A k \in 1..m : (IF k < i THEN old[k] ELSE old[k + 1]) \in PartVerdicts
      <4> TAKE k \in 1..m
      <4>1. (k < i => k \in 1..n) /\ (~(k < i) => k + 1 \in 1..n)
        BY <3>3
      <4>2. QED
        BY <3>2, <4>1
    <3>6. new \in [1..m -> PartVerdicts]
      BY <3>3, <3>5
    <3>7. new \in ListParts
      BY <3>4, <3>6 DEF ListParts
    <3>8. DeleteAt(w, loc) = [w EXCEPT ![f].parts = new]
      BY <1>4, <2>1, <2>3 DEF DeleteAt
    <3>9. [w[f] EXCEPT !.parts = new] \in FieldValue(f)
      BY <2>2, <2>3, <3>1, <3>7, ShapeAssumption DEF FieldValue
    <3>10. DeleteAt(w, loc) = [w EXCEPT ![f] = [w[f] EXCEPT !.parts = new]]
      BY <3>8
    <3>11. QED
      BY <1>2, <3>9, <3>10
  <2>4. CASE f \notin ListFields
    <3> DEFINE new == [old EXCEPT ![i] = "gone"]
    <3>1. DeleteAt(w, loc) = [w EXCEPT ![f].parts[i] = "gone"]
      BY <1>4, <2>1, <2>4 DEF DeleteAt
    <3>2. DeleteAt(w, loc) = [w EXCEPT ![f] = [w[f] EXCEPT !.parts = new]]
      BY <3>1
    <3>3. w[f] = [own |-> w[f].own, parts |-> old]
          /\ old \in IF f \in ObjectFields THEN ObjectParts ELSE {<< >>}
      BY <1>4, <2>2, <2>4 DEF FieldValue
    <3>4. new \in IF f \in ObjectFields THEN ObjectParts ELSE {<< >>}
      <4>1. CASE f \in ObjectFields
        BY <3>3, <4>1 DEF ObjectParts
      <4>2. CASE f \notin ObjectFields
        <5>1. old = << >>
          BY <3>3, <4>2
        <5>2. new = << >>
          BY <5>1
        <5>3. QED
          BY <4>2, <5>2
      <4>3. QED
        BY <4>1, <4>2
    <3>5. [w[f] EXCEPT !.parts = new] \in FieldValue(f)
      BY <2>2, <2>4, <3>3, <3>4 DEF FieldValue
    <3>6. QED
      BY <1>2, <3>2, <3>5
  <2>5. QED
    BY <2>3, <2>4
<1>5. QED
  BY <1>1, <1>3, <1>4 DEF Loc

LEMMA DeleteAtErr ==
  ASSUME NEW e \in Err, TypeOK
  PROVE  RemoveLoc(e) \in Loc /\ Shaped(DeleteAt(working, RemoveLoc(e)))
BY ErrPlaces, DeleteAtType DEF TypeOK

-----------------------------------------------------------------------------
(* Type correctness.                                                       *)

LEMMA InitType == Init => TypeOK
<1>. SUFFICES ASSUME Init PROVE TypeOK
  OBVIOUS
<1>1. Shaped(given)
  <2>1. PICK objects \in [ObjectFields -> [own : OwnVerdicts, parts : ObjectParts] \cup {Gone}],
             lists \in [ListFields -> [own : OwnVerdicts, parts : ListParts] \cup {Gone}],
             plain \in [Field \ (ObjectFields \cup ListFields) ->
                          [own : OwnVerdicts, parts : {<< >>}] \cup {Gone}] :
          given = [f \in Field |-> IF f \in ObjectFields THEN objects[f]
                                   ELSE IF f \in ListFields THEN lists[f] ELSE plain[f]]
    BY DEF Init, Data
  <2>2. ASSUME NEW f \in Field PROVE given[f] \in FieldValue(f)
    <3>1. CASE f \in ObjectFields
      BY <2>1, <3>1 DEF FieldValue
    <3>2. CASE f \in ListFields
      BY <2>1, <3>2, ShapeAssumption DEF FieldValue
    <3>3. CASE f \notin ObjectFields /\ f \notin ListFields
      BY <2>1, <3>3 DEF FieldValue
    <3>4. QED
      BY <3>1, <3>2, <3>3
  <2>3. given = [f \in Field |-> given[f]]
    BY <2>1
  <2>4. QED
    BY <2>2, <2>3 DEF Shaped
<1>2. QED
  BY <1>1 DEF Init, TypeOK, Ended

LEMMA AttemptType == TypeOK /\ Attempt => TypeOK'
<1>. SUFFICES ASSUME TypeOK, Attempt PROVE TypeOK'
  OBVIOUS
<1>1. Errors(working) \subseteq Err
  BY ErrorsType DEF TypeOK
<1>2. {Reported(e) : e \in Errors(working)} \subseteq Report
  BY <1>1, ErrPlaces
<1>3. [loc |-> << >>, type |-> "fatal"] \in Report
  BY DEF Report, Loc
<1>4. reported' \subseteq Report /\ todo' \subseteq Err
      /\ phase' \in Ended \cup {"attempt", "process"}
  BY <1>1, <1>2, <1>3 DEF Attempt, TypeOK, Ended
<1>5. Shaped(given)' /\ Shaped(working)'
  BY DEF Attempt, TypeOK, Shaped
<1>6. QED
  BY <1>4, <1>5 DEF Attempt, TypeOK

LEMMA SkipErrorType == TypeOK /\ SkipError => TypeOK'
BY DEF TypeOK, SkipError, Shaped

LEMMA EscalateCascadeType == TypeOK /\ EscalateCascade => TypeOK'
<1>. SUFFICES ASSUME TypeOK, EscalateCascade PROVE TypeOK'
  OBVIOUS
<1>1. PICK e \in todo :
        /\ todo' = todo \ {e}
        /\ IF e.type \in FatalTypes /\ e.loc \in majors
             THEN UNCHANGED <<working, removed, progress>>
             ELSE /\ working' = DeleteAt(working, RemoveLoc(e))
                  /\ removed' = removed \cup {RemoveLoc(e)}
                  /\ progress' = TRUE
  BY DEF EscalateCascade
<1>2. e \in Err
  BY DEF TypeOK
<1>3. RemoveLoc(e) \in Loc /\ Shaped(DeleteAt(working, RemoveLoc(e)))
  BY <1>2, DeleteAtErr
<1>4. Shaped(working')
  BY <1>1, <1>3 DEF TypeOK
<1>5. removed' \subseteq Loc /\ majors' \subseteq removed' /\ progress' \in BOOLEAN
  BY <1>1, <1>3 DEF TypeOK, EscalateCascade
<1>6. QED
  BY <1>1, <1>4, <1>5 DEF TypeOK, EscalateCascade, Shaped

LEMMA CollectErrorType == TypeOK /\ CollectError => TypeOK'
<1>. SUFFICES ASSUME TypeOK, CollectError PROVE TypeOK'
  OBVIOUS
<1>1. PICK e \in todo :
        /\ todo' = todo \ {e}
        /\ collected' = collected \cup {Reported(e)}
        /\ working' = DeleteAt(working, RemoveLoc(e))
        /\ removed' = removed \cup {RemoveLoc(e)}
        /\ majors' = IF e.type = "major" THEN majors \cup {RemoveLoc(e)} ELSE majors
        /\ progress' = TRUE
  BY DEF CollectError
<1>2. e \in Err
  BY DEF TypeOK
<1>3. RemoveLoc(e) \in Loc /\ Shaped(DeleteAt(working, RemoveLoc(e)))
  BY <1>2, DeleteAtErr
<1>4. Reported(e) \in Report
  BY <1>2, ErrPlaces
<1>5. removed' \subseteq Loc /\ majors' \subseteq removed' /\ collected' \subseteq Report
  BY <1>1, <1>3, <1>4 DEF TypeOK
<1>6. QED
  BY <1>1, <1>3, <1>5 DEF TypeOK, CollectError, Shaped

LEMMA EndRoundType == TypeOK /\ EndRound => TypeOK'
BY DEF TypeOK, EndRound, Shaped, Ended

LEMMA StepType == TypeOK /\ [Next]_vars => TypeOK'
<1>1. TypeOK /\ UNCHANGED vars => TypeOK'
  BY DEF TypeOK, vars, Shaped
<1>2. QED
  BY <1>1, AttemptType, SkipErrorType, EscalateCascadeType, CollectErrorType,
     EndRoundType DEF Next

\* validate_with_policy keeps its data in shape and every error it reports at
\* a place of the document, for documents with any number of fields and parts:
\* delete_at_loc never leaves a hole in a list or a part of the wrong kind.
THEOREM PolicyTypeCorrect == Spec => []TypeOK
<1>1. QED
  BY InitType, StepType, PTL DEF Spec

-----------------------------------------------------------------------------
(* The loop goes round at most once per place.                             *)

\* While errors are worked off, a round that made progress has a removal that
\* is not accounted for by the rounds before it.
RoundsInv ==
  /\ IsFiniteSet(removed)
  /\ rounds + (IF phase = "process" /\ progress THEN 1 ELSE 0) <= Cardinality(removed)

LEMMA RoundsStep == TypeOK /\ RoundsInv /\ [Next]_vars => RoundsInv'
<1>. SUFFICES ASSUME TypeOK, RoundsInv, [Next]_vars PROVE RoundsInv'
  OBVIOUS
<1>1. Cardinality(removed) \in Nat /\ rounds \in Nat
  BY FS_CardinalityType DEF RoundsInv, TypeOK
<1>2. ASSUME NEW loc, loc \notin removed, removed' = removed \cup {loc},
             UNCHANGED <<phase, rounds>>
      PROVE  RoundsInv'
  <2>1. IsFiniteSet(removed') /\ Cardinality(removed') = Cardinality(removed) + 1
    BY <1>2, FS_AddElement DEF RoundsInv
  <2>2. QED
    BY <1>1, <1>2, <2>1 DEF RoundsInv
<1>3. CASE Attempt
  BY <1>1, <1>3 DEF Attempt, RoundsInv
<1>4. CASE SkipError
  BY <1>4 DEF SkipError, RoundsInv
<1>5. CASE EscalateCascade
  <2>1. \/ UNCHANGED <<removed, progress>>
        \/ \E loc : loc \notin removed /\ removed' = removed \cup {loc}
    BY <1>5 DEF EscalateCascade
  <2>2. UNCHANGED <<phase, rounds>>
    BY <1>5 DEF EscalateCascade
  <2>3. QED
    BY <1>2, <2>1, <2>2 DEF RoundsInv
<1>6. CASE CollectError
  BY <1>2, <1>6 DEF CollectError
<1>7. CASE EndRound
  BY <1>1, <1>7 DEF EndRound, RoundsInv
<1>8. CASE UNCHANGED vars
  BY <1>8 DEF vars, RoundsInv
<1>9. QED
  BY <1>3, <1>4, <1>5, <1>6, <1>7, <1>8 DEF Next

\* Every further attempt of validate_with_policy has a place of its own that
\* was taken out before it, whatever the document and its errors: it cannot
\* loop over an error that reappears.
THEOREM RoundsStayBounded == Spec => []RoundsBounded
<1>1. Init => TypeOK /\ RoundsInv
  <2>1. Init => RoundsInv
    BY FS_EmptySet DEF Init, RoundsInv
  <2>2. QED
    BY <2>1, InitType
<1>2. TypeOK /\ RoundsInv /\ [Next]_vars => (TypeOK /\ RoundsInv)'
  BY StepType, RoundsStep
<1>3. TypeOK /\ RoundsInv => RoundsBounded
  <2>. SUFFICES ASSUME TypeOK, RoundsInv PROVE rounds <= Cardinality(removed)
    BY DEF RoundsBounded
  <2>1. Cardinality(removed) \in Nat /\ rounds \in Nat
    BY FS_CardinalityType DEF RoundsInv, TypeOK
  <2>2. QED
    BY <2>1 DEF RoundsInv
<1>4. QED
  BY <1>1, <1>2, <1>3, PTL DEF Spec

-----------------------------------------------------------------------------
(* Cascades.                                                               *)

LEMMA MajorStopsStep ==
  TypeOK /\ MajorStopsCascade /\ [Next]_vars => MajorStopsCascade'
<1>. SUFFICES ASSUME TypeOK, MajorStopsCascade, [Next]_vars PROVE MajorStopsCascade'
  OBVIOUS
<1>1. ASSUME UNCHANGED <<removed, majors, collected>> PROVE MajorStopsCascade'
  BY <1>1 DEF MajorStopsCascade
<1>2. CASE EscalateCascade
  <2>1. PICK e \in todo :
          /\ RemoveLoc(e) \notin removed /\ e.loc \in removed
          /\ IF e.type \in FatalTypes /\ e.loc \in majors
               THEN UNCHANGED removed
               ELSE removed' = removed \cup {RemoveLoc(e)}
    BY <1>2 DEF EscalateCascade
  <2>2. UNCHANGED <<majors, collected>>
    BY <1>2 DEF EscalateCascade
  <2>3. CASE e.type \in FatalTypes /\ e.loc \in majors
    BY <1>1, <2>1, <2>2, <2>3
  <2>4. CASE ~(e.type \in FatalTypes /\ e.loc \in majors)
    <3>1. e \in Err
      BY DEF TypeOK
    <3>2. PICK g \in Field, i \in Part : e.loc = <<g, i>> /\ RemoveLoc(e) = <<g>>
      BY <2>1, <3>1, ErrPlaces
    <3>3. <<g, i>> \in removed' \ majors'
      BY <2>1, <2>2, <2>4, <3>1, <3>2, ErrPlaces
    <3>4. ASSUME NEW f \in Field, <<f>> \in removed',
                 \A c \in collected' : RemoveLoc(c) # <<f>>
          PROVE  \E j \in Part : <<f, j>> \in removed' \ majors'
      <4>1. CASE f = g
        BY <3>3, <4>1
      <4>2. CASE f # g
        <5>1. <<f>> \in removed
          BY <2>1, <2>4, <3>2, <3>4, <4>2
        <5>2. QED
          BY <2>1, <2>2, <2>4, <3>4, <5>1 DEF MajorStopsCascade
      <4>3. QED
        BY <4>1, <4>2
    <3>5. QED
      BY <3>4 DEF MajorStopsCascade
  <2>5. QED
    BY <2>3, <2>4
<1>3. CASE CollectError
  <2>1. PICK e \in todo :
          /\ RemoveLoc(e) \notin removed
          /\ collected' = collected \cup {Reported(e)}
          /\ removed' = removed \cup {RemoveLoc(e)}
          /\ majors' = IF e.type = "major" THEN majors \cup {RemoveLoc(e)} ELSE majors
    BY <1>3 DEF CollectError
  <2>2. RemoveLoc(Reported(e)) = RemoveLoc(e)
    BY ErrPlaces DEF TypeOK
  <2>3. ASSUME NEW f \in Field, <<f>> \in removed',
               \A c \in collected' : RemoveLoc(c) # <<f>>
        PROVE  \E j \in Part : <<f, j>> \in removed' \ majors'
    <3>1. <<f>> # RemoveLoc(e) /\ \A c \in collected : RemoveLoc(c) # <<f>>
      BY <2>1, <2>2, <2>3
    <3>2. PICK j \in Part : <<f, j>> \in removed \ majors
      BY <2>1, <2>3, <3>1 DEF MajorStopsCascade
    <3>3. <<f, j>> \in removed' \ majors'
      BY <2>1, <3>2
    <3>4. QED
      BY <3>3
  <2>4. QED
    BY <2>3 DEF MajorStopsCascade
<1>4. QED
  BY <1>1, <1>2, <1>3 DEF Next, vars, Attempt, SkipError, EndRound

\* A removal made for a major error never takes the enclosing field with it,
\* however the errors of later attempts fall: a field that went without an
\* error of its own went because of a part removed for something else.
THEOREM MajorsStopCascades == Spec => []MajorStopsCascade
<1>1. Init => TypeOK /\ MajorStopsCascade
  BY InitType DEF Init, MajorStopsCascade
<1>2. TypeOK /\ MajorStopsCascade /\ [Next]_vars => (TypeOK /\ MajorStopsCascade)'
  BY StepType, MajorStopsStep
<1>3. QED
  BY <1>1, <1>2, PTL DEF Spec

-----------------------------------------------------------------------------
(* Fields as they were given.                                              *)

\* A field as it was given.
LEMMA GivenField ==
  ASSUME TypeOK, NEW w, Shaped(w), NEW f \in Field, w[f] # Gone
  PROVE  /\ w[f] = [own |-> w[f].own, parts |-> w[f].parts]
         /\ f \in ObjectFields => w[f].parts \in ObjectParts
         /\ f \in ListFields =>
              /\ w[f].parts \in ListParts
              /\ Len(w[f].parts) \in 0..NP
              /\ w[f].parts \in [1..Len(w[f].parts) -> PartVerdicts]
         /\ f \notin ObjectFields \cup ListFields => w[f].parts = << >>
         /\ DOMAIN w[f].parts \subseteq Part
<1>1. w[f] \in FieldValue(f)
  BY DEF Shaped
<1>2. f \in ListFields => f \notin ObjectFields
  BY ShapeAssumption
<1>3. CASE f \in ListFields
  <2>1. w[f] = [own |-> w[f].own, parts |-> w[f].parts] /\ w[f].parts \in ListParts
    BY <1>1, <1>2, <1>3 DEF FieldValue
  <2>2. PICK n \in 0..NP : w[f].parts \in [1..n -> PartVerdicts]
    BY <2>1 DEF ListParts
  <2>3. Len(w[f].parts) = n /\ DOMAIN w[f].parts = 1..n
    BY <2>2, ShapeAssumption
  <2>4. 1..n \subseteq Part
    BY ShapeAssumption DEF Part
  <2>5. QED
    BY <1>2, <1>3, <2>1, <2>2, <2>3, <2>4
<1>4. CASE f \in ObjectFields
  BY <1>1, <1>2, <1>4 DEF FieldValue, ObjectParts
<1>5. CASE f \notin ObjectFields \cup ListFields
  <2>1. w[f] = [own |-> w[f].own, parts |-> w[f].parts] /\ w[f].parts = << >>
    BY <1>1, <1>5 DEF FieldValue
  <2>2. DOMAIN w[f].parts = {}
    BY <2>1
  <2>3. QED
    BY <1>5, <2>1, <2>2
<1>6. QED
  BY <1>3, <1>4, <1>5

\* Of a list with one bad item at most, every bad item is that one.
LEMMA SingleBad ==
  ASSUME TypeOK, NEW f \in ListFields, Cardinality(BadParts(f)) <= 1,
         NEW i \in BadParts(f), NEW j \in BadParts(f)
  PROVE  i = j /\ Cardinality(BadParts(f)) = 1
<1>1. IsFiniteSet(BadParts(f))
  <2>1. BadParts(f) \subseteq DOMAIN given[f].parts
    BY DEF BadParts
  <2>2. given[f] # Gone
    <3>1. SUFFICES ASSUME given[f] = Gone PROVE FALSE
      OBVIOUS
    <3>2. DOMAIN given[f].parts = {}
      BY <3>1 DEF Gone
    <3>3. QED
      BY <2>1, <3>2
  <2>3. DOMAIN given[f].parts \subseteq 1..NP
    BY <2>2, GivenField, ShapeAssumption DEF TypeOK, Part
  <2>4. IsFiniteSet(1..NP)
    BY FS_Interval, ShapeAssumption
  <2>5. QED
    BY <2>1, <2>3, <2>4, FS_Subset
<1>2. Cardinality(BadParts(f)) \in Nat /\ Cardinality(BadParts(f)) <= 1
  BY <1>1, FS_CardinalityType
<1>3. IsFiniteSet({i}) /\ Cardinality({i}) = 1
  BY FS_Singleton
<1>4. Cardinality({i}) <= Cardinality(BadParts(f))
  <2>1. {i} \subseteq BadParts(f)
    OBVIOUS
  <2>2. QED
    BY <1>1, <2>1, FS_Subset
<1>5. ASSUME i # j PROVE FALSE
  <2>1. {i} \cup {j} \subseteq BadParts(f)
    OBVIOUS
  <2>2. Cardinality({i} \cup {j}) = 2
    <3>1. j \notin {i}
      BY <1>5
    <3>2. Cardinality({i} \cup {j}) = Cardinality({i}) + 1
      BY <1>3, <3>1, FS_AddElement
    <3>3. QED
      BY <1>3, <3>2
  <2>3. Cardinality({i} \cup {j}) <= Cardinality(BadParts(f))
    BY <1>1, <2>1, FS_Subset
  <2>4. QED
    BY <1>2, <2>2, <2>3
<1>6. QED
  BY <1>2, <1>3, <1>4, <1>5

LEMMA OnlyBadItem ==
  ASSUME TypeOK, OneBadItem, NEW f \in ListFields,
         NEW i \in BadParts(f), NEW j \in BadParts(f)
  PROVE  i = j /\ Cardinality(BadParts(f)) = 1
BY SingleBad DEF OneBadItem

-----------------------------------------------------------------------------
(* Nothing is lost without an error for it.                                *)

About(f) == {c \in collected : c.loc # << >> /\ c.loc[1] = f}

\* NoSilentLoss as it holds while the loop still runs, of what is collected.
Accounted(f) ==
  /\ given[f] # Gone /\ working[f] = Gone => About(f) # {}
  /\ working[f] # Gone /\ f \in ObjectFields =>
       \A i \in Part : given[f].parts[i] # working[f].parts[i]
                         => \E c \in About(f) : c.loc = <<f, i>>
  /\ working[f] # Gone /\ f \in ListFields =>
       Len(given[f].parts) - Len(working[f].parts) <= Cardinality(About(f))

\* A list shrinks with every new error about it, and the error is new because
\* the places of the earlier ones are removed.  A cascade collects nothing: it
\* relies on the error that took the part away.
LossInv ==
  /\ IsFiniteSet(collected)
  /\ \A c \in collected : RemoveLoc(c) \in removed
  /\ \A f \in Field, i \in Part : <<f, i>> \in removed => About(f) # {}
  /\ \A f \in Field : Accounted(f)
  /\ phase \in {"built", "none"} => reported = collected

\* delete_at_loc touches the field it is told to, and there one part at most.
LEMMA DeleteAtEffect ==
  ASSUME NEW w, Shaped(w), NEW loc \in Loc, NEW f \in Field
  PROVE  /\ loc = << >> \/ loc[1] # f \/ w[f] = Gone => DeleteAt(w, loc)[f] = w[f]
         /\ \A i \in Part : loc = <<f, i>> /\ w[f] # Gone =>
              /\ f \in ObjectFields =>
                   \A j \in Part \ {i} : DeleteAt(w, loc)[f].parts[j] = w[f].parts[j]
              /\ f \in ListFields =>
                   /\ Len(w[f].parts) \in Nat
                   /\ Len(DeleteAt(w, loc)[f].parts) \in Nat
                   /\ Len(DeleteAt(w, loc)[f].parts) >= Len(w[f].parts) - 1
<1>1. w = [g \in Field |-> w[g]]
  BY DEF Shaped
<1>2. ASSUME loc = << >> \/ loc[1] # f \/ w[f] = Gone
      PROVE  DeleteAt(w, loc)[f] = w[f]
  <2>1. CASE loc = << >> \/ w[loc[1]] = Gone
    BY <2>1 DEF DeleteAt
  <2>2. CASE loc # << >> /\ w[loc[1]] # Gone
    <3>1. loc[1] # f
      BY <1>2, <2>2
    <3>2. DeleteAt(w, loc)[f] = w[f]
      BY <1>1, <2>2, <3>1 DEF DeleteAt
    <3>3. QED
      BY <3>2
  <2>3. QED
    BY <2>1, <2>2
<1>3. ASSUME NEW i \in Part, loc = <<f, i>>, w[f] # Gone
      PROVE  /\ f \in ObjectFields =>
                  \A j \in Part \ {i} : DeleteAt(w, loc)[f].parts[j] = w[f].parts[j]
             /\ f \in ListFields =>
                  /\ Len(w[f].parts) \in Nat
                  /\ Len(DeleteAt(w, loc)[f].parts) \in Nat
                  /\ Len(DeleteAt(w, loc)[f].parts) >= Len(w[f].parts) - 1
  <2> DEFINE old == w[f].parts
  <2>1. loc[1] = f /\ loc[2] = i /\ Len(loc) = 2 /\ loc # << >>
    BY <1>3
  <2>2. w[f] \in FieldValue(f)
    BY DEF Shaped
  <2>3. CASE f \in ObjectFields
    <3>1. f \notin ListFields
      BY <2>3, ShapeAssumption
    <3>2. w[f] = [own |-> w[f].own, parts |-> old] /\ old \in ObjectParts
      BY <1>3, <2>2, <2>3 DEF FieldValue
    <3>3. DeleteAt(w, loc) = [w EXCEPT ![f].parts[i] = "gone"]
      BY <1>3, <2>1, <3>1 DEF DeleteAt
    <3>4. DeleteAt(w, loc)[f].parts = [old EXCEPT ![i] = "gone"]
      BY <1>1, <3>2, <3>3
    <3>5. \A j \in Part \ {i} : DeleteAt(w, loc)[f].parts[j] = old[j]
      BY <3>2, <3>4 DEF ObjectParts
    <3>6. QED
      BY <3>1, <3>5
  <2>4. CASE f \in ListFields
    <3> DEFINE m == Len(old) - IF i <= Len(old) THEN 1 ELSE 0
               new == [k \in 1..m |-> IF k < i THEN old[k] ELSE old[k + 1]]
    <3>1. w[f] = [own |-> w[f].own, parts |-> old] /\ old \in ListParts
      BY <1>3, <2>2, <2>4, ShapeAssumption DEF FieldValue
    <3>2. PICK n \in 0..NP : old \in [1..n -> PartVerdicts]
      BY <3>1 DEF ListParts
    <3>3. Len(old) = n /\ n \in Nat /\ i \in Nat \ {0}
      BY <3>2, ShapeAssumption DEF Part
    <3>4. m \in Nat /\ m >= n - 1
      BY <3>3
    <3>5. DeleteAt(w, loc) = [w EXCEPT ![f].parts = new]
      BY <1>3, <2>1, <2>4 DEF DeleteAt
    <3>6. DeleteAt(w, loc)[f].parts = new
      BY <1>1, <3>1, <3>5
    <3>7. Len(new) = m
      BY <3>4
    <3>8. f \notin ObjectFields
      BY <2>4, ShapeAssumption
    <3>9. QED
      BY <3>3, <3>4, <3>6, <3>7, <3>8
  <2>5. QED
    BY <2>3, <2>4
<1>4. QED
  BY <1>2, <1>3

\* Taking out a place that an error is known for keeps every field accounted
\* for, if the removal of a part brings an error of its own.
LEMMA RemovalAccounted ==
  ASSUME TypeOK, LossInv, NEW loc \in Loc, working' = DeleteAt(working, loc),
         UNCHANGED given, collected \subseteq collected', IsFiniteSet(collected'),
         \A f \in Field : loc # << >> /\ loc[1] = f => About(f)' # {},
         \A f \in Field, i \in Part : loc = <<f, i>> =>
           \E c \in collected' \ collected : c.loc = <<f, i>>
  PROVE  \A f \in Field : Accounted(f)'
<1> SUFFICES ASSUME NEW f \in Field PROVE Accounted(f)'
  OBVIOUS
<1>1. Shaped(working) /\ Shaped(given) /\ Accounted(f)
  BY DEF TypeOK, LossInv
<1>2. About(f) \subseteq About(f)' /\ IsFiniteSet(About(f)) /\ IsFiniteSet(About(f)')
  <2>1. About(f) \subseteq About(f)'
    BY DEF About
  <2>2. About(f) \subseteq collected /\ About(f)' \subseteq collected'
    BY DEF About
  <2>3. QED
    BY <2>1, <2>2, FS_Subset DEF LossInv
<1>3. /\ Cardinality(About(f)) \in Nat /\ Cardinality(About(f)') \in Nat
      /\ Cardinality(About(f)) <= Cardinality(About(f)')
  BY <1>2, FS_CardinalityType, FS_Subset
<1>4. \A w : Shaped(w) /\ f \in ListFields => Len(w[f].parts) \in Nat
  <2> SUFFICES ASSUME NEW w, Shaped(w), f \in ListFields PROVE Len(w[f].parts) \in Nat
    OBVIOUS
  <2>1. w[f].parts \in ListParts \/ w[f].parts = << >>
    BY ShapeAssumption DEF Shaped, FieldValue, Gone
  <2>2. CASE w[f].parts \in ListParts
    <3>1. PICK n \in 0..NP : w[f].parts \in [1..n -> PartVerdicts]
      BY <2>2 DEF ListParts
    <3>2. Len(w[f].parts) = n
      BY <3>1, ShapeAssumption
    <3>3. QED
      BY <3>2, ShapeAssumption
  <2>3. CASE w[f].parts = << >>
    BY <2>3
  <2>4. QED
    BY <2>1, <2>2, <2>3
<1>5. CASE loc = << >> \/ loc[1] # f \/ working[f] = Gone
  <2>1. working'[f] = working[f]
    BY <1>1, <1>5, DeleteAtEffect
  <2>2. given[f] # Gone /\ working[f] = Gone => About(f)' # {}
    BY <1>1, <1>2 DEF Accounted
  <2>3. working[f] # Gone /\ f \in ObjectFields =>
          \A i \in Part : given[f].parts[i] # working[f].parts[i]
                            => \E c \in About(f)' : c.loc = <<f, i>>
    BY <1>1, <1>2 DEF Accounted
  <2>4. ASSUME working[f] # Gone, f \in ListFields
        PROVE  Len(given[f].parts) - Len(working[f].parts) <= Cardinality(About(f)')
    <3>1. Len(given[f].parts) \in Nat /\ Len(working[f].parts) \in Nat
      BY <1>1, <1>4, <2>4
    <3>2. Len(given[f].parts) - Len(working[f].parts) <= Cardinality(About(f))
      BY <1>1, <2>4 DEF Accounted
    <3>3. \A a, b, m, n \in Nat : a - b <= m /\ m <= n => a - b <= n
      OBVIOUS
    <3>4. QED
      BY <1>3, <3>1, <3>2, <3>3, Zenon
  <2>5. QED
    BY <2>1, <2>2, <2>3, <2>4 DEF Accounted
<1>6. CASE loc # << >> /\ loc[1] = f /\ working[f] # Gone
  <2>1. About(f)' # {}
    BY <1>6
  <2>2. CASE loc = <<f>>
    <3>1. working' = [working EXCEPT ![f] = Gone]
      BY <1>6, <2>2 DEF DeleteAt
    <3>2. working'[f] = Gone
      BY <1>1, <3>1 DEF Shaped
    <3>3. QED
      BY <2>1, <3>2 DEF Accounted
  <2>3. CASE \E i \in Part : loc = <<f, i>>
    <3>1. PICK i \in Part : loc = <<f, i>>
      BY <2>3
    <3>2. PICK c \in collected' \ collected : c.loc = <<f, i>>
      BY <3>1
    <3>3. c \in About(f)' /\ c \notin About(f)
      BY <3>2 DEF About
    <3>4. ASSUME f \in ObjectFields, NEW j \in Part, given[f].parts[j] # working'[f].parts[j]
          PROVE  \E d \in About(f)' : d.loc = <<f, j>>
      <4>1. CASE j = i
        BY <3>2, <3>3, <4>1
      <4>2. CASE j # i
        <5>1. working'[f].parts[j] = working[f].parts[j]
          BY <1>1, <1>6, <3>1, <3>4, <4>2, DeleteAtEffect
        <5>2. QED
          BY <1>1, <1>2, <1>6, <3>4, <5>1 DEF Accounted
      <4>3. QED
        BY <4>1, <4>2
    <3>5. ASSUME f \in ListFields
          PROVE  Len(given[f].parts) - Len(working'[f].parts) <= Cardinality(About(f)')
      <4>1. /\ Len(working[f].parts) \in Nat /\ Len(working'[f].parts) \in Nat
            /\ Len(working'[f].parts) >= Len(working[f].parts) - 1
        BY <1>1, <1>6, <3>1, <3>5, DeleteAtEffect
      <4>2. Len(given[f].parts) \in Nat
        BY <1>1, <1>4, <3>5
      <4>3. Len(given[f].parts) - Len(working[f].parts) <= Cardinality(About(f))
        BY <1>1, <1>6, <3>5 DEF Accounted
      <4>4. Cardinality(About(f) \cup {c}) = Cardinality(About(f)) + 1
        BY <1>2, <3>3, FS_AddElement
      <4>5. Cardinality(About(f) \cup {c}) <= Cardinality(About(f)')
        <5>1. About(f) \cup {c} \subseteq About(f)'
          BY <1>2, <3>3
        <5>2. QED
          BY <1>2, <5>1, FS_Subset
      <4>6. \A a, b, d, m, n \in Nat :
              a - b <= m /\ d >= b - 1 /\ m + 1 <= n => a - d <= n
        OBVIOUS
      <4>7. Cardinality(About(f)) + 1 <= Cardinality(About(f)')
        BY <4>4, <4>5, Zenon
      <4>8. QED
        BY <1>3, <4>1, <4>2, <4>3, <4>6, <4>7, Zenon
    <3>6. QED
      BY <2>1, <3>4, <3>5 DEF Accounted
  <2>4. loc = <<f>> \/ \E i \in Part : loc = <<f, i>>
    BY <1>6 DEF Loc
  <2>5. QED
    BY <2>2, <2>3, <2>4
<1>7. QED
  BY <1>5, <1>6

LEMMA LossCollect == TypeOK /\ LossInv /\ CollectError => LossInv'
<1>. SUFFICES ASSUME TypeOK, LossInv, CollectError PROVE LossInv'
  OBVIOUS
<1>1. PICK e \in todo :
        /\ RemoveLoc(e) \notin removed
        /\ collected' = collected \cup {Reported(e)}
        /\ working' = DeleteAt(working, RemoveLoc(e))
        /\ removed' = removed \cup {RemoveLoc(e)}
  BY DEF CollectError
<1>2. phase' = "process" /\ UNCHANGED given
  BY DEF CollectError
<1>3. e \in Err
  BY DEF TypeOK
<1>4. /\ RemoveLoc(e) \in Loc /\ RemoveLoc(Reported(e)) = RemoveLoc(e)
      /\ RemoveLoc(e) # e.loc =>
           \E f \in Field, i \in Part : e.loc = <<f, i>> /\ RemoveLoc(e) = <<f>>
  BY <1>3, ErrPlaces
<1>5. Reported(e).loc = e.loc
  BY <1>3 DEF Err, Reported
<1>6. IsFiniteSet(collected')
  BY <1>1, FS_AddElement DEF LossInv
<1>7. \A c \in collected' : RemoveLoc(c) \in removed'
  BY <1>1, <1>4 DEF LossInv
<1>8. Reported(e) \notin collected
  BY <1>1, <1>4 DEF LossInv
<1>9. ASSUME NEW f \in Field, RemoveLoc(e) # << >>, RemoveLoc(e)[1] = f
      PROVE  About(f)' # {}
  <2>1. e.loc # << >> /\ e.loc[1] = f
    BY <1>4, <1>9
  <2>2. Reported(e) \in About(f)'
    BY <1>1, <1>5, <2>1 DEF About
  <2>3. QED
    BY <2>2
<1>10. ASSUME NEW f \in Field, NEW i \in Part, RemoveLoc(e) = <<f, i>>
       PROVE  \E c \in collected' \ collected : c.loc = <<f, i>>
  <2>1. e.loc = <<f, i>>
    BY <1>4, <1>10
  <2>2. QED
    BY <1>1, <1>5, <1>8, <2>1
<1>11. \A f \in Field : Accounted(f)'
  BY <1>1, <1>2, <1>4, <1>6, <1>9, <1>10, RemovalAccounted
<1>12. ASSUME NEW f \in Field, NEW i \in Part, <<f, i>> \in removed'
       PROVE  About(f)' # {}
  <2>1. CASE <<f, i>> \in removed
    BY <1>1, <2>1 DEF LossInv, About
  <2>2. CASE <<f, i>> = RemoveLoc(e)
    BY <1>9, <2>2
  <2>3. QED
    BY <1>1, <1>12, <2>1, <2>2
<1>13. QED
  BY <1>2, <1>6, <1>7, <1>11, <1>12 DEF LossInv

LEMMA LossCascade == TypeOK /\ LossInv /\ EscalateCascade => LossInv'
<1>. SUFFICES ASSUME TypeOK, LossInv, EscalateCascade PROVE LossInv'
  OBVIOUS
<1>1. PICK e \in todo :
        /\ RemoveLoc(e) \notin removed /\ e.loc \in removed
        /\ \/ UNCHANGED <<working, removed>>
           \/ /\ working' = DeleteAt(working, RemoveLoc(e))
              /\ removed' = removed \cup {RemoveLoc(e)}
  BY DEF EscalateCascade
<1>2. phase' = "process" /\ UNCHANGED <<given, collected>>
  BY DEF EscalateCascade
<1>3. e \in Err
  BY DEF TypeOK
<1>4. PICK g \in Field, i \in Part : e.loc = <<g, i>> /\ RemoveLoc(e) = <<g>>
  BY <1>1, <1>3, ErrPlaces
<1>5. About(g) # {}
  BY <1>1, <1>4 DEF LossInv
<1>6. CASE UNCHANGED <<working, removed>>
  BY <1>2, <1>6 DEF LossInv, Accounted, About
<1>7. CASE /\ working' = DeleteAt(working, RemoveLoc(e))
           /\ removed' = removed \cup {RemoveLoc(e)}
  <2>1. <<g>> \in Loc
    BY DEF Loc
  <2>2. \A f \in Field : <<g>># << >> /\ <<g>>[1] = f => About(f)' # {}
    BY <1>2, <1>5 DEF About
  <2>3. \A f \in Field : Accounted(f)'
    BY <1>2, <1>4, <1>7, <2>1, <2>2, RemovalAccounted DEF LossInv
  <2>4. \A c \in collected' : RemoveLoc(c) \in removed'
    BY <1>2, <1>7 DEF LossInv
  <2>5. \A f \in Field, j \in Part : <<f, j>> \in removed' => About(f)' # {}
    BY <1>2, <1>4, <1>7 DEF LossInv, About
  <2>6. QED
    BY <1>2, <2>3, <2>4, <2>5 DEF LossInv
<1>8. QED
  BY <1>1, <1>6, <1>7

LEMMA LossStep == TypeOK /\ LossInv /\ [Next]_vars => LossInv'
<1>. SUFFICES ASSUME TypeOK, LossInv, [Next]_vars PROVE LossInv'
  OBVIOUS
<1>1. ASSUME UNCHANGED <<given, working, removed, collected>>,
             phase' \in {"built", "none"} => reported' = collected
      PROVE  LossInv'
  BY <1>1 DEF LossInv, Accounted, About
<1>2. CASE Attempt
  BY <1>1, <1>2 DEF Attempt
<1>3. CASE SkipError
  BY <1>1, <1>3 DEF SkipError
<1>4. CASE EndRound
  BY <1>1, <1>4 DEF EndRound
<1>5. CASE UNCHANGED vars
  BY <1>1, <1>5 DEF vars, LossInv
<1>6. QED
  BY <1>2, <1>3, <1>4, <1>5, LossCollect, LossCascade DEF Next

-----------------------------------------------------------------------------
(* A list with one invalid item loses that item and no other.              *)

\* The list is as it was given, and errors about its items are what the
\* validators have against these; or the bad item is out, with an error, and
\* nothing is left to be said about the others.
ListStage(f) ==
  working[f] # Gone /\ Cardinality(BadParts(f)) <= 1 =>
    /\ given[f] # Gone
    /\ \/ /\ working[f].parts = given[f].parts
          /\ \A e \in todo, k \in Part : e.loc = <<f, k>> =>
               k \in BadParts(f) /\ e.type = PartVerdict(given, f, k)
       \/ /\ \E i \in BadParts(f) : /\ working[f].parts = Closed(given[f].parts, i)
                                    /\ \E c \in collected : c.loc = <<f, i>>
          /\ \A e \in todo, k \in Part : e.loc # <<f, k>>

ListInv == \A f \in ListFields : ListStage(f)

LEMMA GivenSame ==
  ASSUME UNCHANGED given
  PROVE  \A f : BadParts(f)' = BadParts(f) /\ \A k : PartVerdict(given, f, k)' = PartVerdict(given, f, k)
BY DEF BadParts, PartVerdict

\* Errors worked off without touching the list.
LEMMA ListSame ==
  ASSUME NEW f, ListStage(f), UNCHANGED given, working'[f] = working[f],
         todo' \subseteq todo, collected \subseteq collected'
  PROVE  ListStage(f)'
<1>1. BadParts(f)' = BadParts(f) /\ \A k : PartVerdict(given, f, k)' = PartVerdict(given, f, k)
  BY GivenSame
<1>2. QED
  BY <1>1 DEF ListStage

\* An attempt finds the bad item as long as it is there, and nothing else.
LEMMA ListAttempt ==
  ASSUME TypeOK, NEW f \in ListFields, ListStage(f),
         UNCHANGED <<given, working, collected>>, todo' = Errors(working)
  PROVE  ListStage(f)'
<1> SUFFICES ASSUME working[f] # Gone, Cardinality(BadParts(f)) <= 1 PROVE ListStage(f)'
  BY GivenSame DEF ListStage
<1>1. given[f] # Gone
  BY DEF ListStage
<1>2. BadParts(f)' = BadParts(f) /\ \A k : PartVerdict(given, f, k)' = PartVerdict(given, f, k)
  BY GivenSame
<1>3. ASSUME NEW e \in Errors(working), NEW k \in Part, e.loc = <<f, k>>
      PROVE  k \in DOMAIN working[f].parts /\ PartVerdict(working, f, k) # "ok"
             /\ e.type = PartVerdict(working, f, k)
  <2>1. PICK g \in Field : e \in FieldErrors(working, g)
    <3>1. e # [loc |-> << >>, type |-> root]
      BY <1>3
    <3>2. QED
      BY <3>1 DEF Errors, AllFieldErrors
  <2>2. e.loc # <<g>>
    BY <1>3
  <2>3. e \in PartErrors(working, g)
    BY <2>1, <2>2 DEF FieldErrors
  <2>4. PICK i \in DOMAIN working[g].parts : /\ PartVerdict(working, g, i) # "ok"
                                            /\ e = [loc |-> <<g, i>>, type |-> PartVerdict(working, g, i)]
    BY <2>3 DEF PartErrors
  <2>5. g = f /\ i = k
    BY <1>3, <2>4
  <2>6. QED
    BY <2>4, <2>5
<1>4. CASE working[f].parts = given[f].parts
  <2>1. \A k : PartVerdict(working, f, k) = PartVerdict(given, f, k)
    BY <1>4 DEF PartVerdict
  <2>2. \A e \in todo', k \in Part : e.loc = <<f, k>> =>
          k \in BadParts(f) /\ e.type = PartVerdict(given, f, k)
    BY <1>3, <1>4, <2>1 DEF BadParts
  <2>3. QED
    BY <1>1, <1>2, <1>4, <2>2 DEF ListStage
<1>5. ASSUME NEW i \in BadParts(f), working[f].parts = Closed(given[f].parts, i),
             NEW c \in collected, c.loc = <<f, i>>
      PROVE  ListStage(f)'
  <2> DEFINE n == Len(given[f].parts)
  <2>1. n \in Nat /\ given[f].parts \in [1..n -> PartVerdicts]
    <3>1. n \in 0..NP /\ given[f].parts \in [1..n -> PartVerdicts]
      BY <1>1, GivenField, ShapeAssumption DEF TypeOK
    <3>2. QED
      BY <3>1, ShapeAssumption
  <2>2. i \in 1..n
    BY <2>1 DEF BadParts
  <2>3. \A k \in 1..n : k # i => PartVerdict(given, f, k) = "ok"
    BY <2>1, SingleBad DEF BadParts
  <2>4. \A k \in 1..n : k # i => given[f].parts[k] = "ok"
    <3>1. SUFFICES ASSUME NEW k \in 1..n, k # i PROVE given[f].parts[k] = "ok"
      OBVIOUS
    <3>2. given[f].parts[k] # "gone"
      BY <2>1, ShapeAssumption DEF Verdict
    <3>3. QED
      BY <2>3, <3>1, <3>2 DEF PartVerdict
  <2>5. \A k \in DOMAIN working[f].parts : working[f].parts[k] = "ok"
    BY <1>5, <2>1, <2>2, <2>4 DEF Closed
  <2>6. \A e \in todo', k \in Part : e.loc # <<f, k>>
    <3>1. \A k \in DOMAIN working[f].parts : PartVerdict(working, f, k) = "ok"
      BY <2>5 DEF PartVerdict
    <3>2. QED
      BY <1>3, <3>1
  <2>7. QED
    BY <1>1, <1>2, <1>5, <2>6 DEF ListStage
<1>6. QED
  BY <1>4, <1>5 DEF ListStage

\* The removal that an error asks for.
LEMMA ListRemoval ==
  ASSUME TypeOK, NEW f \in ListFields, ListStage(f), NEW e \in todo,
         UNCHANGED given, todo' = todo \ {e}, collected \subseteq collected',
         working' = DeleteAt(working, RemoveLoc(e)),
         \A k \in Part : RemoveLoc(e) = <<f, k>> => \E c \in collected' : c.loc = <<f, k>>
  PROVE  ListStage(f)'
<1>1. /\ Shaped(working) /\ e \in Err /\ f \in Field /\ RemoveLoc(e) \in Loc
      /\ RemoveLoc(e) # e.loc => \E g \in Field : RemoveLoc(e) = <<g>>
  BY ErrPlaces, ShapeAssumption DEF TypeOK
<1>2. CASE RemoveLoc(e) = << >> \/ RemoveLoc(e)[1] # f \/ working[f] = Gone
  BY <1>1, <1>2, DeleteAtEffect, ListSame
<1>3. CASE RemoveLoc(e) = <<f>> /\ working[f] # Gone
  <2>1. working'[f] = Gone
    BY <1>1, <1>3 DEF DeleteAt, Shaped
  <2>2. QED
    BY <2>1 DEF ListStage
<1>4. ASSUME NEW i \in Part, RemoveLoc(e) = <<f, i>>, working[f] # Gone
      PROVE  ListStage(f)'
  <2>1. e.loc = <<f, i>>
    BY <1>1, <1>4
  <2> SUFFICES ASSUME Cardinality(BadParts(f)) <= 1 PROVE ListStage(f)'
    BY GivenSame DEF ListStage
  <2>2. /\ given[f] # Gone /\ working[f].parts = given[f].parts /\ i \in BadParts(f)
        /\ \A d \in todo, k \in Part : d.loc = <<f, k>> =>
             k \in BadParts(f) /\ d.type = PartVerdict(given, f, k)
    BY <1>4, <2>1 DEF ListStage
  <2> DEFINE old == working[f].parts
             n == Len(old)
  <2>3. n \in Nat /\ old \in [1..n -> PartVerdicts] /\ i \in 1..n
    <3>1. n \in 0..NP /\ old \in [1..n -> PartVerdicts]
      BY <1>1, <1>4, GivenField
    <3>2. QED
      BY <2>2, <3>1, ShapeAssumption DEF BadParts
  <2>4. working[f] = [own |-> working[f].own, parts |-> old] /\ working[f].own # "gone"
    <3>1. working[f].own \in OwnVerdicts
      BY <1>1, <1>4 DEF Shaped, FieldValue
    <3>2. QED
      BY <1>1, <1>4, <3>1, GivenField, ShapeAssumption DEF Verdict
  <2>5. working' = [working EXCEPT ![f].parts =
                      [k \in 1..(n - IF i <= n THEN 1 ELSE 0) |-> IF k < i THEN old[k] ELSE old[k + 1]]]
    BY <1>4 DEF DeleteAt
  <2>6. working'[f] = [own |-> working[f].own,
                       parts |-> [k \in 1..(n - IF i <= n THEN 1 ELSE 0) |-> IF k < i THEN old[k] ELSE old[k + 1]]]
    BY <1>1, <2>4, <2>5 DEF Shaped
  <2>7. (IF i <= n THEN 1 ELSE 0) = 1
    BY <2>3
  <2>8. working'[f].parts = Closed(given[f].parts, i) /\ working'[f] # Gone
    <3>1. working'[f].own = working[f].own
      BY <2>6
    <3>2. working'[f] # Gone
      BY <2>4, <3>1 DEF Gone
    <3>3. working'[f].parts = [k \in 1..(n - 1) |-> IF k < i THEN old[k] ELSE old[k + 1]]
      <4> DEFINE m == IF i <= n THEN 1 ELSE 0
                 shut(d) == [k \in 1..(n - d) |-> IF k < i THEN old[k] ELSE old[k + 1]]
      <4>1. working'[f].parts = shut(m)
        BY <2>6
      <4>2. m = 1
        BY <2>7
      <4> HIDE DEF m, shut
      <4>3. working'[f].parts = shut(1)
        BY <4>1, <4>2
      <4>4. QED
        BY <4>3 DEF shut
    <3>4. old = given[f].parts
      BY <2>2
    <3> HIDE DEF old
    <3>5. Closed(old, i) = [k \in 1..(n - 1) |-> IF k < i THEN old[k] ELSE old[k + 1]]
      BY DEF Closed
    <3>6. QED
      BY <3>2, <3>3, <3>4, <3>5
  <2>9. \A d \in todo', k \in Part : d.loc # <<f, k>>
    <3>1. SUFFICES ASSUME NEW d \in todo', NEW k \in Part, d.loc = <<f, k>> PROVE FALSE
      OBVIOUS
    <3>2. d \in todo /\ k = i /\ d.type = PartVerdict(given, f, i)
      BY <2>2, <3>1, SingleBad
    <3>3. e.type = PartVerdict(given, f, i)
      BY <2>1, <2>2, <1>4
    <3>4. d \in Err
      BY <3>2 DEF TypeOK
    <3>5. d = e
      BY <1>1, <2>1, <3>1, <3>2, <3>3, <3>4 DEF Err
    <3>6. QED
      BY <3>1, <3>5
  <2>10. BadParts(f)' = BadParts(f)
    BY GivenSame
  <2>11. \E c \in collected' : c.loc = <<f, i>>
    BY <1>4
  <2>12. given'[f] # Gone /\ Closed(given[f].parts, i)' = Closed(given'[f].parts, i)
    BY <2>2 DEF Closed
  <2>13. \E j \in BadParts(f)' : /\ working'[f].parts = Closed(given'[f].parts, j)
                                 /\ \E c \in collected' : c.loc = <<f, j>>
    BY <2>2, <2>8, <2>10, <2>11
  <2> HIDE DEF old
  <2>14. QED
    BY <2>9, <2>12, <2>13 DEF ListStage
<1>5. RemoveLoc(e) = << >> \/ RemoveLoc(e)[1] # f \/ RemoveLoc(e) = <<f>>
        \/ \E i \in Part : RemoveLoc(e) = <<f, i>>
  BY <1>1 DEF Loc
<1>6. QED
  BY <1>2, <1>3, <1>4, <1>5

LEMMA ListInit == Init => ListInv
<1> SUFFICES ASSUME Init, NEW f \in ListFields PROVE ListStage(f)
  BY DEF ListInv
<1>1. working = given /\ todo = {}
  BY DEF Init
<1>2. QED
  BY <1>1 DEF ListStage

LEMMA ListStep == TypeOK /\ ListInv /\ [Next]_vars => ListInv'
<1> SUFFICES ASSUME TypeOK, [Next]_vars, NEW f \in ListFields, ListStage(f) PROVE ListStage(f)'
  BY DEF ListInv
<1>1. CASE Attempt
  <2>1. UNCHANGED <<given, working, collected>>
    BY <1>1 DEF Attempt
  <2>2. CASE todo' = todo
    BY <2>1, <2>2, ListSame
  <2>3. CASE todo' = Errors(working)
    BY <2>1, <2>3, ListAttempt
  <2>4. QED
    BY <1>1, <2>2, <2>3 DEF Attempt
<1>2. CASE SkipError
  BY <1>2, ListSame DEF SkipError
<1>3. CASE EscalateCascade
  <2>1. PICK e \in todo :
          /\ RemoveLoc(e) \notin removed /\ e.loc \in removed /\ todo' = todo \ {e}
          /\ working' = working \/ working' = DeleteAt(working, RemoveLoc(e))
    BY <1>3 DEF EscalateCascade
  <2>2. UNCHANGED <<given, collected>>
    BY <1>3 DEF EscalateCascade
  <2>3. CASE working' = working
    BY <2>1, <2>2, <2>3, ListSame
  <2>4. CASE working' = DeleteAt(working, RemoveLoc(e))
    <3>1. \E g \in Field : RemoveLoc(e) = <<g>>
      BY <2>1, ErrPlaces DEF TypeOK
    <3>2. \A k \in Part : RemoveLoc(e) # <<f, k>>
      BY <3>1
    <3>3. QED
      BY <2>1, <2>2, <2>4, <3>2, ListRemoval
  <2>5. QED
    BY <2>1, <2>3, <2>4
<1>4. CASE CollectError
  <2>1. PICK e \in todo :
          /\ todo' = todo \ {e} /\ collected' = collected \cup {Reported(e)}
          /\ working' = DeleteAt(working, RemoveLoc(e))
    BY <1>4 DEF CollectError
  <2>2. UNCHANGED given /\ e \in Err
    BY <1>4 DEF CollectError, TypeOK
  <2>3. \A k \in Part : RemoveLoc(e) = <<f, k>> => \E c \in collected' : c.loc = <<f, k>>
    <3>1. SUFFICES ASSUME NEW k \in Part, RemoveLoc(e) = <<f, k>> PROVE Reported(e).loc = <<f, k>>
      BY <2>1
    <3>2. e.loc = RemoveLoc(e)
      BY <2>2, <3>1, ErrPlaces
    <3>3. QED
      BY <2>2, <3>1, <3>2 DEF Err, Reported
  <2>4. QED
    BY <2>1, <2>2, <2>3, ListRemoval
<1>5. CASE EndRound
  BY <1>5, ListSame DEF EndRound
<1>6. CASE UNCHANGED vars
  BY <1>6, ListSame DEF vars
<1>7. QED
  BY <1>1, <1>2, <1>3, <1>4, <1>5, <1>6 DEF Next

\* When validate_with_policy returns, with a model or without, every field,
\* every part of a mapping and the invalid item of a list that are gone have an
\* error of their own in what it returns, in documents of any size: a cascade
\* that takes a field away without a message follows one that has been reported,
\* and a list with one invalid item has lost that one.  Of lists with more, no
\* more items are gone than there are errors about it.
THEOREM LossIsReported == Spec => []NoSilentLoss
<1>1. Init => TypeOK /\ LossInv /\ ListInv
  <2>. SUFFICES ASSUME Init PROVE LossInv
    BY InitType, ListInit
  <2>1. collected = {} /\ removed = {} /\ working = given /\ phase = "attempt"
    BY DEF Init
  <2>2. Shaped(given)
    BY InitType DEF TypeOK
  <2>3. ASSUME NEW f \in Field PROVE Accounted(f)
    <3>1. About(f) = {}
      BY <2>1 DEF About
    <3>2. Cardinality(About(f)) = 0
      BY <3>1, FS_EmptySet
    <3>3. f \in ListFields => Len(given[f].parts) - Len(given[f].parts) = 0
      <4>. SUFFICES ASSUME f \in ListFields PROVE Len(given[f].parts) \in Nat
        OBVIOUS
      <4>1. given[f].parts \in ListParts \/ given[f].parts = << >>
        BY <2>2, ShapeAssumption DEF Shaped, FieldValue, Gone
      <4>2. CASE given[f].parts \in ListParts
        <5>1. PICK n \in 0..NP : given[f].parts \in [1..n -> PartVerdicts]
          BY <4>2 DEF ListParts
        <5>2. Len(given[f].parts) = n
          BY <5>1, ShapeAssumption
        <5>3. QED
          BY <5>2, ShapeAssumption
      <4>3. CASE given[f].parts = << >>
        BY <4>3
      <4>4. QED
        BY <4>1, <4>2, <4>3
    <3>4. QED
      BY <2>1, <3>2, <3>3 DEF Accounted
  <2>4. QED
    BY <2>1, <2>3, FS_EmptySet DEF LossInv
<1>2. TypeOK /\ LossInv /\ ListInv /\ [Next]_vars => (TypeOK /\ LossInv /\ ListInv)'
  BY StepType, LossStep, ListStep
<1>3. LossInv /\ ListInv => NoSilentLoss
  <2>. SUFFICES ASSUME LossInv, ListInv, phase \in {"built", "none"} PROVE NoSilentLoss
    BY DEF NoSilentLoss
  <2>1. reported = collected
    BY DEF LossInv
  <2>2. \A f \in Field : About(f) = {c \in reported : c.loc # << >> /\ c.loc[1] = f}
    BY <2>1 DEF About
  <2>3. \A f \in Field : Accounted(f)
    BY DEF LossInv
  <2>4. ASSUME NEW f \in ListFields, working[f] # Gone, Cardinality(BadParts(f)) <= 1
        PROVE  \/ working[f].parts = given[f].parts
               \/ \E i \in BadParts(f) : /\ working[f].parts = Closed(given[f].parts, i)
                                         /\ \E c \in About(f) : c.loc = <<f, i>>
    <3>1. \A i, c : c.loc = <<f, i>> => c.loc # << >> /\ c.loc[1] = f
      OBVIOUS
    <3>2. ListStage(f)
      BY <2>4 DEF ListInv
    <3>3. CASE given[f] = Gone \/ working[f].parts = given[f].parts
      BY <2>4, <3>2, <3>3 DEF ListStage
    <3>4. CASE \E i \in BadParts(f) : /\ working[f].parts = Closed(given[f].parts, i)
                                       /\ \E c \in collected : c.loc = <<f, i>>
      BY <3>1, <3>4 DEF About
    <3>5. QED
      BY <2>4, <3>2, <3>3, <3>4 DEF ListStage
  <2>5. QED
    BY <2>2, <2>3, <2>4, ZenonT(60) DEF Accounted, NoSilentLoss
<1>4. QED
  BY <1>1, <1>2, <1>3, PTL DEF Spec

-----------------------------------------------------------------------------
(* What can be recovered is recovered.                                     *)

\* What is left of the parts of a field after those in removed.
PartsLeft(f) ==
  /\ f \in ObjectFields =>
       working[f].parts =
         [i \in Part |-> IF <<f, i>> \in removed THEN "gone" ELSE given[f].parts[i]]
  /\ f \in ListFields =>
       working[f].parts =
         IF \E i \in Part : <<f, i>> \in removed
           THEN [k \in 1..(Len(given[f].parts) - 1) |-> "ok"]
           ELSE given[f].parts

\* A field goes only for an error of its own, a part only if it is bad.
Stage(f) ==
  /\ given[f] = Gone => working[f] = Gone
  /\ \A i \in Part : <<f, i>> \in removed => i \in BadParts(f)
  /\ given[f] # Gone =>
       IF <<f>> \in removed
         THEN working[f] = Gone /\ given[f].own # "ok"
         ELSE working[f] # Gone /\ working[f].own = given[f].own /\ PartsLeft(f)

\* An error about a place that is bad and still there.
Pending(e) ==
  /\ e.type \notin FatalTypes
  /\ e.loc \notin removed
  /\ \E f \in Field :
       /\ given[f] # Gone
       /\ \/ e.loc = <<f>> /\ given[f].own # "ok"
          \/ \E i \in BadParts(f) : i \in Part /\ e.loc = <<f, i>>

OnePerPlace(errs) == \A d, e \in errs : d.loc = e.loc => d = e

\* No round is in vain: the errors of an attempt are about places that are
\* still there, so each of them takes its place out.
RecoverInv ==
  Recoverable /\ OneBadItem =>
    /\ \A f \in Field : Stage(f)
    /\ phase \in {"attempt", "process", "built"}
    /\ phase = "process" =>
         /\ \A e \in todo : Pending(e)
         /\ OnePerPlace(todo)
         /\ progress = FALSE => todo # {}
    /\ phase = "built" => Errors(working) = {}

\* The parts that are bad now were bad when they were given, and are still there.
LEMMA BadNow ==
  ASSUME TypeOK, Recoverable, OneBadItem, NEW f \in Field, Stage(f), working[f] # Gone,
         NEW i \in DOMAIN working[f].parts, PartVerdict(working, f, i) # "ok"
  PROVE  /\ i \in Part /\ i \in BadParts(f) /\ <<f, i>> \notin removed
         /\ PartVerdict(working, f, i) = PartVerdict(given, f, i)
<1>1. given[f] # Gone /\ <<f>> \notin removed /\ PartsLeft(f)
  BY DEF Stage
<1>2. i \in Part
  BY GivenField DEF TypeOK
<1>3. f \in ObjectFields \/ f \in ListFields
  <2>1. SUFFICES ASSUME f \notin ObjectFields \cup ListFields PROVE FALSE
    OBVIOUS
  <2>2. working[f].parts = << >>
    BY <2>1, GivenField DEF TypeOK
  <2>3. QED
    BY <2>2
<1>4. CASE f \in ObjectFields
  <2>1. working[f].parts[i] = IF <<f, i>> \in removed THEN "gone" ELSE given[f].parts[i]
    BY <1>1, <1>2, <1>4 DEF PartsLeft
  <2>2. DOMAIN given[f].parts = Part
    BY <1>1, <1>4, GivenField DEF TypeOK, ObjectParts
  <2>3. CASE <<f, i>> \in removed
    <3>1. i \in BadParts(f)
      BY <1>2, <2>3 DEF Stage
    <3>2. <<f, i>> \notin RequiredParts
      BY <1>1, <3>1 DEF Recoverable
    <3>3. PartVerdict(working, f, i) = "ok"
      BY <2>1, <2>3, <3>2 DEF PartVerdict
    <3>4. QED
      BY <3>3
  <2>4. CASE <<f, i>> \notin removed
    <3>1. PartVerdict(working, f, i) = PartVerdict(given, f, i)
      BY <2>1, <2>4 DEF PartVerdict
    <3>2. QED
      BY <1>2, <2>2, <2>4, <3>1 DEF BadParts
  <2>5. QED
    BY <2>3, <2>4
<1>5. CASE f \in ListFields
  <2>1. CASE \E j \in Part : <<f, j>> \in removed
    <3>1. working[f].parts = [k \in 1..(Len(given[f].parts) - 1) |-> "ok"]
      BY <1>1, <1>5, <2>1 DEF PartsLeft
    <3>2. working[f].parts[i] = "ok"
      BY <3>1
    <3>3. QED
      BY <3>2 DEF PartVerdict
  <2>2. CASE ~\E j \in Part : <<f, j>> \in removed
    <3>1. working[f].parts = given[f].parts
      BY <1>1, <1>5, <2>2 DEF PartsLeft
    <3>2. PartVerdict(working, f, i) = PartVerdict(given, f, i)
      BY <3>1 DEF PartVerdict
    <3>3. QED
      BY <1>2, <2>2, <3>1, <3>2 DEF BadParts
  <2>3. QED
    BY <2>1, <2>2
<1>6. QED
  BY <1>3, <1>4, <1>5

\* The errors of an attempt.
LEMMA ErrorsPending ==
  ASSUME TypeOK, Recoverable, OneBadItem, \A f \in Field : Stage(f)
  PROVE  /\ \A e \in Errors(working) : Pending(e)
         /\ OnePerPlace(Errors(working))
         /\ ~Crashes(working)
         /\ ~HasTopLevelFatal(Errors(working))
<1>1. Errors(working) = AllFieldErrors(working)
  BY DEF Recoverable, Errors
<1>2. ASSUME NEW f \in Field, NEW e \in FieldErrors(working, f)
      PROVE  /\ Pending(e)
             /\ \/ e.loc = <<f>> /\ e.type = working[f].own /\ PartErrors(working, f) = {}
                \/ \E i \in Part : e.loc = <<f, i>> /\ e.type = PartVerdict(working, f, i)
  <2>1. CASE working[f] = Gone
    <3>1. f \notin Required
      <4>1. given[f] = Gone \/ given[f].own # "ok"
        BY <2>1 DEF Stage
      <4>2. QED
        BY <4>1 DEF Recoverable
    <3>2. FieldErrors(working, f) = {}
      BY <2>1, <3>1 DEF FieldErrors
    <3>3. QED
      BY <1>2, <3>2
  <2>2. CASE working[f] # Gone /\ PartErrors(working, f) # {}
    <3>1. PICK i \in DOMAIN working[f].parts :
            /\ PartVerdict(working, f, i) # "ok"
            /\ e = [loc |-> <<f, i>>, type |-> PartVerdict(working, f, i)]
      BY <1>2, <2>2 DEF FieldErrors, PartErrors
    <3>2. /\ i \in Part /\ i \in BadParts(f) /\ <<f, i>> \notin removed
          /\ PartVerdict(working, f, i) = PartVerdict(given, f, i)
      BY <2>2, <3>1, BadNow
    <3>3. given[f] # Gone
      BY <2>2 DEF Stage
    <3>4. PartVerdict(given, f, i) \notin FatalTypes
      BY <3>2, <3>3 DEF Recoverable
    <3>5. QED
      BY <3>1, <3>2, <3>3, <3>4 DEF Pending
  <2>3. CASE working[f] # Gone /\ PartErrors(working, f) = {}
    <3>1. e = [loc |-> <<f>>, type |-> working[f].own] /\ working[f].own \notin {"ok", "crash"}
      BY <1>2, <2>3 DEF FieldErrors
    <3>2. given[f] # Gone /\ <<f>> \notin removed /\ working[f].own = given[f].own
      BY <2>3 DEF Stage
    <3>3. given[f].own \notin {"fatal", "missing"}
      <4>1. given[f].own \in OwnVerdicts
        BY <3>2 DEF TypeOK, Shaped, FieldValue
      <4>2. given[f].own # "missing"
        BY <4>1, ShapeAssumption DEF Verdict
      <4>3. given[f].own # "fatal"
        BY <3>2 DEF Recoverable
      <4>4. QED
        BY <4>2, <4>3
    <3>4. QED
      BY <2>3, <3>1, <3>2, <3>3 DEF Pending, FatalTypes
  <2>4. QED
    BY <2>1, <2>2, <2>3
<1>3. \A e \in Errors(working) : Pending(e)
  BY <1>1, <1>2 DEF AllFieldErrors
<1>4. OnePerPlace(Errors(working))
  <2>1. SUFFICES ASSUME NEW d \in Errors(working), NEW e \in Errors(working), d.loc = e.loc
                 PROVE  d = e
    BY DEF OnePerPlace
  <2>2. PICK f \in Field : d \in FieldErrors(working, f)
    BY <1>1 DEF AllFieldErrors
  <2>3. PICK g \in Field : e \in FieldErrors(working, g)
    BY <1>1 DEF AllFieldErrors
  <2>4. d.type = e.type
    BY <1>2, <2>1, <2>2, <2>3
  <2>5. d \in Err /\ e \in Err
    BY ErrorsType DEF TypeOK
  <2>6. d = [loc |-> d.loc, type |-> d.type] /\ e = [loc |-> e.loc, type |-> e.type]
    BY <2>5 DEF Err
  <2>7. QED
    BY <2>1, <2>4, <2>6
<1>5. ~Crashes(working)
  <2>1. \A f \in Field : working[f].own # "crash"
    <3>1. SUFFICES ASSUME NEW f \in Field PROVE working[f].own # "crash"
      OBVIOUS
    <3>2. CASE working[f] = Gone
      BY <3>2 DEF Gone
    <3>3. CASE working[f] # Gone
      BY <3>3 DEF Stage, Recoverable
    <3>4. QED
      BY <3>2, <3>3
  <2>2. QED
    BY <2>1 DEF Crashes, Recoverable
<1>6. QED
  BY <1>3, <1>4, <1>5 DEF HasTopLevelFatal, Pending

\* Without errors, all that is bad is gone and nothing else.
LEMMA NoErrorsCleaned ==
  ASSUME TypeOK, Recoverable, OneBadItem, NEW f \in Field, Stage(f), Errors(working) = {}
  PROVE  working[f] = Cleaned(f)
<1>1. FieldErrors(working, f) = {}
  BY DEF Recoverable, Errors, AllFieldErrors
<1>2. CASE given[f] = Gone
  BY <1>2 DEF Stage, Cleaned
<1>3. CASE given[f] # Gone /\ <<f>> \in removed
  BY <1>3 DEF Stage, Cleaned
<1>4. CASE given[f] # Gone /\ <<f>> \notin removed
  <2>1. working[f] # Gone /\ working[f].own = given[f].own /\ PartsLeft(f)
    BY <1>4 DEF Stage
  <2>2. PartErrors(working, f) = {}
    BY <1>1, <2>1 DEF FieldErrors
  <2>3. given[f].own = "ok"
    <3>1. given[f].own \in {"ok", "crash"}
      BY <1>1, <2>1, <2>2 DEF FieldErrors
    <3>2. given[f].own # "crash"
      BY <1>4 DEF Recoverable
    <3>3. QED
      BY <3>1, <3>2
  <2>4. /\ working[f] = [own |-> working[f].own, parts |-> working[f].parts]
        /\ given[f] = [own |-> given[f].own, parts |-> given[f].parts]
    BY <1>4, <2>1, GivenField DEF TypeOK
  <2>5. \A i \in DOMAIN working[f].parts : PartVerdict(working, f, i) = "ok"
    BY <2>2 DEF PartErrors
  <2>6. CASE f \in ListFields
    <3> DEFINE n == Len(given[f].parts)
    <3>1. n \in Nat /\ given[f].parts \in [1..n -> PartVerdicts]
      <4>1. n \in 0..NP /\ given[f].parts \in [1..n -> PartVerdicts]
        BY <1>4, <2>6, GivenField DEF TypeOK
      <4>2. QED
        BY <4>1, ShapeAssumption
    <3>2. Cleaned(f) = [own |-> "ok",
                        parts |-> [k \in 1..(n - Cardinality(BadParts(f))) |-> "ok"]]
      <4>1. Cleaned(f) = [given[f] EXCEPT
                            !.parts = [k \in 1..(n - Cardinality(BadParts(f))) |-> "ok"]]
        BY <1>4, <2>3, <2>6 DEF Cleaned
      <4>2. QED
        BY <2>3, <2>4, <4>1
    <3>3. CASE \E i \in Part : <<f, i>> \in removed
      <4>1. Cardinality(BadParts(f)) = 1
        BY <2>6, <3>3, OnlyBadItem DEF Stage
      <4>2. working[f].parts = [k \in 1..(n - 1) |-> "ok"]
        BY <2>1, <2>6, <3>3 DEF PartsLeft
      <4>3. QED
        BY <2>1, <2>3, <2>4, <3>2, <4>1, <4>2
    <3>4. CASE ~\E i \in Part : <<f, i>> \in removed
      <4>1. working[f].parts = given[f].parts
        BY <2>1, <2>6, <3>4 DEF PartsLeft
      <4>2. \A i \in DOMAIN given[f].parts : PartVerdict(given, f, i) = "ok"
        BY <2>5, <4>1 DEF PartVerdict
      <4>3. BadParts(f) = {}
        BY <4>2 DEF BadParts
      <4>4. Cardinality(BadParts(f)) = 0
        BY <4>3, FS_EmptySet
      <4>5. \A k \in 1..n : given[f].parts[k] = "ok"
        <5>1. SUFFICES ASSUME NEW k \in 1..n PROVE given[f].parts[k] = "ok"
          OBVIOUS
        <5>2. given[f].parts[k] \in PartVerdicts /\ k \in DOMAIN given[f].parts
          BY <3>1
        <5>3. given[f].parts[k] # "gone"
          BY <5>2, ShapeAssumption DEF Verdict
        <5>4. QED
          BY <4>2, <5>2, <5>3 DEF PartVerdict
      <4>6. given[f].parts = [k \in 1..n |-> "ok"]
        BY <3>1, <4>5
      <4>7. n - 0 = n
        BY <3>1
      <4>8. QED
        BY <2>1, <2>3, <2>4, <3>2, <4>1, <4>4, <4>6, <4>7
    <3>5. QED
      BY <3>3, <3>4
  <2>7. CASE f \notin ListFields
    <3>1. Cleaned(f) = [given[f] EXCEPT
                          !.parts = [i \in DOMAIN given[f].parts |->
                                       IF i \in BadParts(f) THEN "gone" ELSE given[f].parts[i]]]
      BY <1>4, <2>3, <2>7 DEF Cleaned
    <3>2. Cleaned(f) = [own |-> "ok",
                        parts |-> [i \in DOMAIN given[f].parts |->
                                     IF i \in BadParts(f) THEN "gone" ELSE given[f].parts[i]]]
      BY <2>3, <2>4, <3>1
    <3>3. CASE f \in ObjectFields
      <4>1. given[f].parts \in [Part -> PartVerdicts \cup {"gone"}]
        BY <1>4, <3>3, GivenField DEF TypeOK, ObjectParts
      <4>2. working[f].parts =
              [i \in Part |-> IF <<f, i>> \in removed THEN "gone" ELSE given[f].parts[i]]
        BY <2>1, <3>3 DEF PartsLeft
      <4>3. \A i \in Part : <<f, i>> \in removed <=> i \in BadParts(f)
        <5>1. SUFFICES ASSUME NEW i \in BadParts(f), i \in Part PROVE <<f, i>> \in removed
          BY DEF Stage
        <5>2. SUFFICES ASSUME <<f, i>> \notin removed PROVE FALSE
          OBVIOUS
        <5>3. working[f].parts[i] = given[f].parts[i] /\ i \in DOMAIN working[f].parts
          BY <4>2, <5>1, <5>2
        <5>4. PartVerdict(working, f, i) = PartVerdict(given, f, i)
          BY <5>3 DEF PartVerdict
        <5>5. QED
          BY <2>5, <5>1, <5>3, <5>4 DEF BadParts
      <4>4. working[f].parts =
              [i \in Part |-> IF i \in BadParts(f) THEN "gone" ELSE given[f].parts[i]]
        BY <4>2, <4>3
      <4>5. DOMAIN given[f].parts = Part
        BY <4>1
      <4>6. QED
        BY <2>1, <2>3, <2>4, <3>2, <4>4, <4>5
    <3>4. CASE f \notin ObjectFields
      <4>1. working[f].parts = << >> /\ given[f].parts = << >>
        BY <1>4, <2>1, <2>7, <3>4, GivenField DEF TypeOK
      <4>2. [i \in DOMAIN given[f].parts |->
               IF i \in BadParts(f) THEN "gone" ELSE given[f].parts[i]] = << >>
        BY <4>1
      <4>3. QED
        BY <2>1, <2>3, <2>4, <3>2, <4>1, <4>2
    <3>5. QED
      BY <3>3, <3>4
  <2>8. QED
    BY <2>6, <2>7
<1>5. QED
  BY <1>2, <1>3, <1>4

\* Taking out a place with a pending error.
LEMMA RemovalStage ==
  ASSUME TypeOK, Recoverable, OneBadItem, NEW e, Pending(e), \A f \in Field : Stage(f),
         working' = DeleteAt(working, e.loc), removed' = removed \cup {e.loc}, given' = given
  PROVE  \A f \in Field : Stage(f)'
<1> SUFFICES ASSUME NEW f \in Field PROVE Stage(f)'
  OBVIOUS
<1>1. PICK g \in Field :
        /\ given[g] # Gone
        /\ \/ e.loc = <<g>> /\ given[g].own # "ok"
           \/ \E i \in BadParts(g) : i \in Part /\ e.loc = <<g, i>>
  BY DEF Pending
<1>2. Shaped(working) /\ Stage(f) /\ e.loc \notin removed
  BY DEF TypeOK, Pending
<1>3. e.loc \in Loc /\ e.loc # << >> /\ e.loc[1] = g
  <2>1. CASE e.loc = <<g>>
    BY <2>1 DEF Loc
  <2>2. ASSUME NEW i \in Part, e.loc = <<g, i>> PROVE e.loc \in Loc /\ e.loc # << >> /\ e.loc[1] = g
    BY <2>2 DEF Loc
  <2>3. QED
    BY <1>1, <2>1, <2>2
<1>4. \A h \in Field : BadParts(h)' = BadParts(h)
  BY DEF BadParts, PartVerdict
<1>5. \A h \in Field : h # g \/ working[g] = Gone => working'[h] = working[h]
  BY <1>2, <1>3, DeleteAtEffect
<1>6. CASE f # g
  <2>1. working'[f] = working[f]
    BY <1>5, <1>6
  <2>2. <<f>> \in removed' <=> <<f>> \in removed
    BY <1>1, <1>6
  <2>3. \A i \in Part : <<f, i>> \in removed' <=> <<f, i>> \in removed
    BY <1>1, <1>6
  <2>4. PartsLeft(f) => PartsLeft(f)'
    BY <2>1, <2>3 DEF PartsLeft
  <2>5. QED
    BY <1>2, <1>4, <2>1, <2>2, <2>3, <2>4 DEF Stage
<1>7. CASE f = g /\ e.loc = <<g>> /\ given[g].own # "ok"
  <2>1. working'[f] = Gone
    <3>1. CASE working[f] = Gone
      BY <1>5, <1>7, <3>1
    <3>2. CASE working[f] # Gone
      <4>1. working' = [working EXCEPT ![f] = Gone]
        BY <1>7, <3>2 DEF DeleteAt
      <4>2. QED
        BY <1>2, <4>1 DEF Shaped
    <3>3. QED
      BY <3>1, <3>2
  <2>2. <<f>> \in removed'
    BY <1>7
  <2>3. \A i \in Part : <<f, i>> \in removed' => <<f, i>> \in removed
    BY <1>7
  <2>4. QED
    BY <1>1, <1>2, <1>4, <1>7, <2>1, <2>2, <2>3 DEF Stage
<1>8. CASE f = g /\ \E i \in BadParts(g) : i \in Part /\ e.loc = <<g, i>>
  <2>1. PICK i \in BadParts(f) : i \in Part /\ e.loc = <<f, i>>
    BY <1>8
  <2>2. <<f>> \in removed' <=> <<f>> \in removed
    BY <2>1
  <2>3. \A j \in Part : <<f, j>> \in removed' <=> (<<f, j>> \in removed \/ j = i)
    BY <2>1
  <2>4. CASE <<f>> \in removed
    <3>1. working'[f] = Gone
      BY <1>1, <1>2, <1>5, <1>8, <2>4 DEF Stage
    <3>2. QED
      BY <1>1, <1>2, <1>4, <1>8, <2>1, <2>2, <2>3, <2>4, <3>1 DEF Stage
  <2>5. CASE <<f>> \notin removed
    <3>1. working[f] # Gone /\ working[f].own = given[f].own /\ PartsLeft(f)
      BY <1>1, <1>2, <1>8, <2>5 DEF Stage
    <3> DEFINE old == working[f].parts
    <3>2. working[f] = [own |-> working[f].own, parts |-> old]
      BY <1>2, <3>1, GivenField
    <3>3. Len(e.loc) = 2 /\ e.loc[2] = i
      BY <2>1
    <3>7. working[f].own # "gone"
      <4>1. working[f].own \in OwnVerdicts
        BY <1>2, <3>1 DEF Shaped, FieldValue
      <4>2. QED
        BY <4>1, ShapeAssumption DEF Verdict
    <3>4. CASE f \in ListFields
      <4> DEFINE n == Len(given[f].parts)
                 new == [k \in 1..(Len(old) - IF i <= Len(old) THEN 1 ELSE 0) |->
                           IF k < i THEN old[k] ELSE old[k + 1]]
      <4>1. n \in Nat /\ given[f].parts \in [1..n -> PartVerdicts] /\ DOMAIN given[f].parts = 1..n
        <5>1. n \in 0..NP /\ given[f].parts \in [1..n -> PartVerdicts]
          BY <1>1, <1>8, <3>4, GivenField DEF TypeOK
        <5>2. QED
          BY <5>1, ShapeAssumption
      <4>2. ~\E j \in Part : <<f, j>> \in removed
        <5>1. SUFFICES ASSUME NEW j \in Part, <<f, j>> \in removed PROVE FALSE
          OBVIOUS
        <5>2. j \in BadParts(f)
          BY <1>2, <5>1 DEF Stage
        <5>3. j = i
          BY <2>1, <3>4, <5>2, OnlyBadItem
        <5>4. QED
          BY <1>2, <2>1, <5>1, <5>3
      <4>3. old = given[f].parts
        BY <3>1, <3>4, <4>2 DEF PartsLeft
      <4>4. i \in 1..n
        BY <4>1 DEF BadParts
      <4>5. \A k \in 1..n : k # i => old[k] = "ok"
        <5>1. SUFFICES ASSUME NEW k \in 1..n, k # i PROVE given[f].parts[k] = "ok"
          BY <4>3
        <5>2. k \notin BadParts(f)
          BY <3>4, <5>1, OnlyBadItem
        <5>3. PartVerdict(given, f, k) = "ok"
          BY <4>1, <5>2 DEF BadParts
        <5>4. given[f].parts[k] # "gone"
          BY <4>1, ShapeAssumption DEF Verdict
        <5>5. QED
          BY <5>3, <5>4 DEF PartVerdict
      <4>6. new = [k \in 1..(n - 1) |-> "ok"]
        <5>1. Len(old) = n
          BY <4>3
        <5>2. new = [k \in 1..(n - 1) |-> IF k < i THEN old[k] ELSE old[k + 1]]
          <6>1. i <= Len(old)
            BY <4>1, <4>4, <5>1
          <6>2. (IF i <= Len(old) THEN 1 ELSE 0) = 1
            BY <6>1
          <6>3. QED
            BY <5>1, <6>2
        <5>3. \A k \in 1..(n - 1) : (IF k < i THEN old[k] ELSE old[k + 1]) = "ok"
          BY <4>1, <4>4, <4>5
        <5>4. QED
          BY <5>2, <5>3
      <4>7. working' = [working EXCEPT ![f].parts = new]
        BY <1>3, <1>8, <3>1, <3>3, <3>4 DEF DeleteAt
      <4>8. working'[f] = [own |-> working[f].own, parts |-> new]
        BY <1>2, <3>2, <4>7 DEF Shaped
      <4>9. working'[f] # Gone
        BY <3>7, <4>8 DEF Gone
      <4>10. PartsLeft(f)'
        <5>1. f \notin ObjectFields
          BY <3>4, ShapeAssumption
        <5>2. \E j \in Part : <<f, j>> \in removed'
          BY <2>1, <2>3
        <5>3. working'[f].parts = [k \in 1..(n - 1) |-> "ok"]
          <6>1. working'[f].parts = new
            BY <4>8
          <6>2. QED
            BY <4>6, <6>1, Zenon
        <5>4. QED
          BY <5>1, <5>2, <5>3 DEF PartsLeft
      <4>11. QED
        BY <1>1, <1>2, <1>4, <1>8, <2>1, <2>2, <2>3, <2>5, <3>1, <4>8, <4>9, <4>10 DEF Stage
    <3>5. CASE f \notin ListFields
      <4>1. f \in ObjectFields
        <5>1. SUFFICES ASSUME f \notin ObjectFields PROVE FALSE
          OBVIOUS
        <5>2. given[f].parts = << >>
          BY <1>1, <1>8, <3>5, <5>1, GivenField DEF TypeOK
        <5>3. QED
          BY <2>1, <5>2 DEF BadParts
      <4>2. working' = [working EXCEPT ![f].parts[i] = "gone"]
        BY <1>3, <1>8, <3>1, <3>3, <3>5 DEF DeleteAt
      <4>3. working'[f] = [own |-> working[f].own, parts |-> [old EXCEPT ![i] = "gone"]]
        BY <1>2, <3>2, <4>2 DEF Shaped
      <4>4. working'[f] # Gone
        BY <3>7, <4>3 DEF Gone
      <4>5. PartsLeft(f)'
        <5>1. old = [j \in Part |-> IF <<f, j>> \in removed THEN "gone" ELSE given[f].parts[j]]
          BY <3>1, <4>1 DEF PartsLeft
        <5>2. [old EXCEPT ![i] = "gone"] =
                [j \in Part |-> IF <<f, j>> \in removed' THEN "gone" ELSE given[f].parts[j]]
          BY <2>3, <5>1
        <5>3. QED
          BY <3>5, <4>3, <5>2 DEF PartsLeft
      <4>6. QED
        BY <1>1, <1>2, <1>4, <1>8, <2>1, <2>2, <2>3, <2>5, <3>1, <4>3, <4>4, <4>5 DEF Stage
    <3>6. QED
      BY <3>4, <3>5
  <2>6. QED
    BY <2>4, <2>5
<1>9. QED
  BY <1>1, <1>6, <1>7, <1>8

\* What Stage, Pending and Errors read.
LEMMA StageUnchanged ==
  ASSUME NEW f, UNCHANGED <<given, working, removed>>
  PROVE  Stage(f)' <=> Stage(f)
<1>1. BadParts(f)' = BadParts(f)
  BY DEF BadParts, PartVerdict
<1>2. PartsLeft(f)' <=> PartsLeft(f)
  BY DEF PartsLeft
<1>3. QED
  BY <1>1, <1>2 DEF Stage

LEMMA PendingUnchanged ==
  ASSUME NEW e, UNCHANGED <<given, removed>>
  PROVE  Pending(e)' <=> Pending(e)
<1>1. \A f : BadParts(f)' = BadParts(f)
  BY DEF BadParts, PartVerdict
<1>2. QED
  BY <1>1 DEF Pending

LEMMA ErrorsUnchanged ==
  ASSUME UNCHANGED <<root, working>>
  PROVE  Errors(working)' = Errors(working)
<1>1. \A f, i : PartVerdict(working, f, i)' = PartVerdict(working, f, i)
  BY DEF PartVerdict
<1>2. \A f : PartErrors(working, f)' = PartErrors(working, f)
  BY <1>1 DEF PartErrors
<1>3. \A f : FieldErrors(working, f)' = FieldErrors(working, f)
  BY <1>2 DEF FieldErrors
<1>4. AllFieldErrors(working)' = AllFieldErrors(working)
  BY <1>3 DEF AllFieldErrors
<1>5. QED
  BY <1>4 DEF Errors

LEMMA RecoverProcess ==
  TypeOK /\ RecoverInv /\ (SkipError \/ EscalateCascade \/ CollectError) => RecoverInv'
<1>. SUFFICES ASSUME TypeOK, RecoverInv, SkipError \/ EscalateCascade \/ CollectError,
                     Recoverable', OneBadItem'
              PROVE  RecoverInv'
  BY DEF RecoverInv
<1>1. UNCHANGED <<given, root, phase>> /\ phase = "process"
  BY DEF SkipError, EscalateCascade, CollectError
<1>2. Recoverable /\ OneBadItem
  BY <1>1 DEF Recoverable, OneBadItem, BadParts, PartVerdict
<1>3. /\ \A f \in Field : Stage(f)
      /\ \A e \in todo : Pending(e)
      /\ OnePerPlace(todo)
  BY <1>1, <1>2 DEF RecoverInv
<1>4. \A e \in todo : RemoveLoc(e) = e.loc /\ e.loc \notin removed
  BY <1>3 DEF Pending, RemoveLoc
<1>5. PICK e \in todo : /\ todo' = todo \ {e}
                        /\ working' = DeleteAt(working, e.loc)
                        /\ removed' = removed \cup {e.loc}
                        /\ progress' = TRUE
  BY <1>4 DEF SkipError, EscalateCascade, CollectError
<1>6. Pending(e)
  BY <1>3
<1>7. \A f \in Field : Stage(f)'
  BY <1>1, <1>2, <1>3, <1>5, <1>6, RemovalStage
<1>8. ASSUME NEW d \in todo' PROVE Pending(d)'
  <2>1. Pending(d) /\ d.loc # e.loc
    BY <1>3, <1>5, <1>8 DEF OnePerPlace
  <2>2. d.loc \notin removed'
    BY <1>5, <2>1 DEF Pending
  <2>3. QED
    BY <1>1, <2>1, <2>2 DEF Pending, BadParts, PartVerdict
<1>9. OnePerPlace(todo)'
  BY <1>3, <1>5 DEF OnePerPlace
<1>10. QED
  BY <1>1, <1>5, <1>7, <1>8, <1>9 DEF RecoverInv

LEMMA RecoverAttempt == TypeOK /\ RecoverInv /\ Attempt => RecoverInv'
<1>. SUFFICES ASSUME TypeOK, RecoverInv, Attempt, Recoverable', OneBadItem' PROVE RecoverInv'
  BY DEF RecoverInv
<1>1. UNCHANGED <<given, root, working, removed>>
  BY DEF Attempt
<1>2. Recoverable /\ OneBadItem
  BY <1>1 DEF Recoverable, OneBadItem, BadParts, PartVerdict
<1>3. \A f \in Field : Stage(f)
  BY <1>2 DEF RecoverInv
<1>4. /\ \A e \in Errors(working) : Pending(e)
      /\ OnePerPlace(Errors(working))
      /\ ~Crashes(working) /\ ~HasTopLevelFatal(Errors(working))
  BY <1>2, <1>3, ErrorsPending
<1>5. \A f \in Field : Stage(f)'
  BY <1>1, <1>3, StageUnchanged
<1>6. CASE Errors(working) = {}
  <2>1. phase' = "built"
    BY <1>4, <1>6 DEF Attempt
  <2>2. Errors(working)' = {}
    BY <1>1, <1>6, ErrorsUnchanged
  <2>3. QED
    BY <1>5, <2>1, <2>2 DEF RecoverInv
<1>7. CASE Errors(working) # {}
  <2>1. phase' = "process" /\ todo' = Errors(working)
    BY <1>4, <1>7 DEF Attempt
  <2>2. \A e : Pending(e) => Pending(e)'
    BY <1>1, PendingUnchanged
  <2>3. QED
    BY <1>4, <1>5, <1>7, <2>1, <2>2 DEF RecoverInv, OnePerPlace
<1>8. QED
  BY <1>6, <1>7

LEMMA RecoverStep == TypeOK /\ RecoverInv /\ [Next]_vars => RecoverInv'
<1>. SUFFICES ASSUME TypeOK, RecoverInv, [Next]_vars PROVE RecoverInv'
  OBVIOUS
<1>1. CASE EndRound
  <2>1. SUFFICES ASSUME Recoverable', OneBadItem' PROVE RecoverInv'
    BY DEF RecoverInv
  <2>2. UNCHANGED <<given, root, working, removed, todo, progress>>
    BY <1>1 DEF EndRound
  <2>3. Recoverable /\ OneBadItem
    BY <2>1, <2>2 DEF Recoverable, OneBadItem, BadParts, PartVerdict
  <2>4. progress = TRUE
    BY <1>1, <2>3 DEF EndRound, RecoverInv, TypeOK
  <2>5. phase' = "attempt"
    BY <1>1, <2>4 DEF EndRound
  <2>6. \A f \in Field : Stage(f)'
    BY <2>2, <2>3, StageUnchanged DEF RecoverInv
  <2>7. QED
    BY <2>5, <2>6 DEF RecoverInv
<1>2. CASE UNCHANGED vars
  <2>1. UNCHANGED <<given, root, working, removed, todo, phase, progress>>
    BY <1>2 DEF vars
  <2>2. (Recoverable /\ OneBadItem)' => Recoverable /\ OneBadItem
    BY <2>1 DEF Recoverable, OneBadItem, BadParts, PartVerdict
  <2>3. Errors(working)' = Errors(working)
    BY <2>1, ErrorsUnchanged
  <2>4. \A f : Stage(f)' <=> Stage(f)
    BY <2>1, StageUnchanged
  <2>5. \A e : Pending(e)' <=> Pending(e)
    BY <2>1, PendingUnchanged
  <2>6. QED
    BY <2>1, <2>2, <2>3, <2>4, <2>5 DEF RecoverInv, OnePerPlace
<1>3. QED
  BY <1>1, <1>2, RecoverAttempt, RecoverProcess DEF Next

\* From a document whose errors are all minor or major, at places the model
\* can do without and at most one in each list, validate_with_policy builds
\* the model of exactly the valid parts, whatever the number of fields, parts
\* and errors and however many attempts it takes.
THEOREM ValidPartsSurvive == Spec => []Recovers
<1>1. Init => TypeOK /\ RecoverInv
  <2>. SUFFICES ASSUME Init PROVE RecoverInv
    BY InitType
  <2>1. removed = {} /\ working = given /\ phase = "attempt"
    BY DEF Init
  <2>2. Shaped(given)
    BY InitType DEF TypeOK
  <2>3. ASSUME NEW f \in Field PROVE Stage(f)
    <3>1. CASE given[f] = Gone
      BY <2>1, <3>1 DEF Stage
    <3>2. CASE given[f] # Gone
      <4>1. f \in ObjectFields => given[f].parts \in [Part -> PartVerdicts \cup {"gone"}]
        BY <2>2, <3>2, GivenField, InitType DEF ObjectParts
      <4>2. f \in ObjectFields => given[f].parts = [i \in Part |-> given[f].parts[i]]
        BY <4>1
      <4>3. PartsLeft(f)
        BY <2>1, <4>2 DEF PartsLeft
      <4>4. QED
        BY <2>1, <3>2, <4>3 DEF Stage
    <3>3. QED
      BY <3>1, <3>2
  <2>4. QED
    BY <2>1, <2>3 DEF RecoverInv
<1>2. TypeOK /\ RecoverInv /\ [Next]_vars => (TypeOK /\ RecoverInv)'
  BY StepType, RecoverStep
<1>3. TypeOK /\ RecoverInv => Recovers
  <2>. SUFFICES ASSUME TypeOK, RecoverInv, phase \in Ended, Recoverable, OneBadItem
                PROVE  phase = "built" /\ \A f \in Field : working[f] = Cleaned(f)
    BY DEF Recovers
  <2>1. phase = "built" /\ Errors(working) = {} /\ \A f \in Field : Stage(f)
    BY DEF RecoverInv, Ended
  <2>2. QED
    BY <2>1, NoErrorsCleaned
<1>4. QED
  BY <1>1, <1>2, <1>3, PTL DEF Spec
=============================================================================
