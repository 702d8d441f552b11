SPECIFICATION Spec
CONSTANTS
  disk = disk
  other = other
  empty = empty
  file = file
  Contents = {disk, other, empty}
  Refused = {empty}
  Geometry <- MCGeometry
  Sources = {file}
  Labels = {"a", "b"}
  Clients = {c1, c2}
  Workload <- MCWorkload
  Faults = {"power", "kill", "io", "edit"}
  MaxFaults = 2
  None = None
INVARIANTS
  CatalogStaysReadable
  SuccessfulImportsAreDurable
  PinnedDigestIsHonoured
PROPERTIES
  RecordsAreImmutable
  ImportActsOnWhatClientSaw
  RetriesSucceed
CHECK_DEADLOCK FALSE
