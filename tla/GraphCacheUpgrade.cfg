SPECIFICATION Spec
CONSTANTS
  Process <- MCProcess
  Thread <- MCSolo
  ProcessOf <- MCSoloOf
  VersionOf <- MCVersionOf
  Version = {"old", "new"}
  Root = {"r1"}
  Wanted <- MCSoloWanted
  Leftover = {"old", "new"}
  OldLock = FALSE
  NoName = NoName
  NoFile = NoFile
INVARIANT NeverRaises
CHECK_DEADLOCK FALSE
