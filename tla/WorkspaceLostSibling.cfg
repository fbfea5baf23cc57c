SPECIFICATION Spec
CONSTANTS
  NE = 1
  NS = 2
  Vals = {v1, v2}
  NoVal = NoVal
  NoModel = NoModel
  EditKinds = {"clean", "fatal"}
  MetaKinds = {"clean"}
  MaxEdits = 4
SYMMETRY ValSymmetry
INVARIANTS InSync
CHECK_DEADLOCK FALSE
