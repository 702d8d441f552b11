SPECIFICATION StreamSpec
CONSTANTS
  OperationCapacity = 1
  EventCapacity = 2
  Generations = {1, 2}
  Percentages = {50, 80, 101}
  Errors <- MCErrors
  None = None
  MaxOperations = 2
  MaxProgressSequence = 5
  Subscribers = {r1}
  Cursors = {0, 1, 5}
INVARIANTS
  HistoriesAreOrdered
  LossesAreReported
  ReadersSeeAContiguousStream
PROPERTIES
  ChangesArePublished
  OperationsOnlyMoveForward
  ImplementsLedger
  ReadersCatchUp
CHECK_DEADLOCK FALSE
