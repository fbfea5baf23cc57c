SPECIFICATION Spec
CONSTANTS
  NF = 1
  NP = 3
  ObjectFields = {}
  ListFields = {1}
  Required = {}
  RequiredParts = {}
  PartVerdicts = {"ok", "minor", "native", "major", "fatal"}
  OwnVerdicts = {"ok", "minor", "major", "fatal", "crash"}
INVARIANTS RecoversAlways
CHECK_DEADLOCK FALSE
