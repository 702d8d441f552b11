SPECIFICATION Spec
CONSTANTS
  Uploads = {u1, u2}
  UploadLimit = 1
  PollLimit = 2
  OperationCapacity = 1
  MaxTasks = 2
  MaxRestarts = 1
  None = None
INVARIANTS
  ImportsFindTheirFile
  WaitersAreNotMisled
PROPERTIES
  FilesAreRemoved
CHECK_DEADLOCK FALSE
