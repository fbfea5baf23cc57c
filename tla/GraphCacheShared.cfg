SPECIFICATION Spec
CONSTANTS
  Process <- MCProcess
  Thread <- MCThread
  ProcessOf <- MCProcessOf
  VersionOf <- MCVersionOf
  Version = {"old", "new"}
  Root = {"r1", "r2"}
  Wanted <- MCWanted
  Leftover = {"old", "new"}
  OldLock = FALSE
  NoName = NoName
  NoFile = NoFile
INVARIANTS TypeOK OneAtATime OnlyOfficialCache
PROPERTIES BuiltOnce CallsEnd
CHECK_DEADLOCK FALSE
