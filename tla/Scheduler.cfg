SPECIFICATION Spec
CONSTANTS
  OperationCapacity = 1
  EventCapacity = 1
  Generations = {1}
  Percentages = {}
  Errors <- MCErrors
  None = None
  MaxOperations = 2
  MaxProgressSequence = 0
  Classes = {"lifecycle", "pool", "load", "image", "os_image"}
  MutationLimit = 2
  RejectCodes = {"PreconditionFailed"}
INVARIANTS
  PermitsMatchTasks
  ReturnedWorkersAreListed
  RecordsMatchTasks
  ExecutionIsSerialised
PROPERTIES
  CancelIsHonoured
  OperationsSettle
CHECK_DEADLOCK FALSE
