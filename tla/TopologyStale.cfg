SPECIFICATION Spec
CONSTANTS
  EcuPort = {"P1", "P2"}
  SwitchPort = {"a1", "b1"}
  Interface = {"i1", "i2"}
  Ecus <- MCEcus
  InterfacesOf <- MCInterfacesOf
  DocOf <- MCDocOf
  EcuOf <- MCEcuOf
  Internal <- MCInternal
  External <- MCExternal
  Offered <- MCOffered
  MaxVersions = 2
INVARIANT ReportAlwaysCurrent
