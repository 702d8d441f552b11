SPECIFICATION Spec
CONSTANTS
  c1 = c1
  c2 = c2
  i1 = i1
  Clients = {c1, c2}
  Instances = {i1}
  ConnectionLimit = 1
  ConsoleLimit = 1
  Capacity = 1
  Scripts <- MCScripts
  None = None
INVARIANTS
  ResourcesMatchSessions
  OneReaderPerInstance
  RepliesMatchRequests
  OnlyRunningAheadBlocks
PROPERTIES
  SessionsEnd
  ShutdownCompletes
CHECK_DEADLOCK FALSE
