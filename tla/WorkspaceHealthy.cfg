SPECIFICATION Spec
CONSTANTS
  NE = 2
  NS = 2
  Vals = {v1, v2}
  NoVal = NoVal
  NoModel = NoModel
  EditKinds = {"clean", "shallow", "nested", "garbled", "absent"}
  MetaKinds = {"clean", "nested", "garbled"}
  MaxEdits = 2
SYMMETRY ValSymmetry
INVARIANTS PositionsInStep InSync ErrorsReported
PROPERTIES ImplementsView
CHECK_DEADLOCK FALSE
