SPECIFICATION RuleSpec
CONSTANTS
  AddressBits = 4
  Kinds = {"wiring", "switch", "htb", "interface", "payload", "mux", "signal", "forwarding", "state", "someip", "enum",
           "mapping", "datatype", "models", "files"}
INVARIANTS
  ConnectionsKept RulesApply BucketsFit SocketsBound SignalsApart
  SignalsRead CyclesFound MembersKnow ConsumersServed RowsHold RowsComeBack DatatypesFound TypesRebuilt SavedLoads
