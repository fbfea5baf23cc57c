SPECIFICATION MappedSpec
CONSTANTS
  NE = 1
  NS = 3
  Vals = {v1, v2}
  NoVal = NoVal
  NoModel = NoModel
  EditKinds = {"clean", "shallow", "fatal", "empty", "absent"}
  MetaKinds = {"clean", "fatal"}
  MaxEdits = 3
  EcuName <- MCEcuName
  FileName <- MCFileName
SYMMETRY ValSymmetry
INVARIANTS TypeOK ModelSound ErrorsReported IdsFollowModel
PROPERTIES UpdateIsVisible ReturnCoversKnown
CHECK_DEADLOCK FALSE
