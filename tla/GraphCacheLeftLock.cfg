SPECIFICATION Spec
CONSTANTS
  Process <- MCProcess
  Thread <- MCSolo
  ProcessOf <- MCSoloOf
  VersionOf <- MCVersionOf
  Version = {"old", "new"}
  Root = {"r1", "r2"}
  Wanted <- MCSoloBoth
  Leftover = {"old", "new"}
  OldLock = TRUE
  NoName = NoName
  NoFile = NoFile
PROPERTY CallsEnd
CHECK_DEADLOCK FALSE
