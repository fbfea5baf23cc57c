SPECIFICATION Spec
CONSTANTS
  NF = 2
  NP = 2
  ObjectFields = {1}
  ListFields = {2}
  Required = {}
  RequiredParts <- MCRequiredParts
  PartVerdicts = {"ok", "native", "major", "fatal"}
  OwnVerdicts = {"ok", "major", "fatal", "crash"}
INVARIANTS TypeOK RoundsBounded NoSilentLoss MajorStopsCascade Recovers
PROPERTIES Terminates
CHECK_DEADLOCK FALSE
