SPECIFICATION PlacementSpec
CONSTANTS
  c1 = c1
  c2 = c2
  cx = cx
  d1 = d1
  d2 = d2
  d3 = d3
  InstanceIds = {0, 1, 2}
  Names = {n1, n2, bad}
  ValidNames = {n1, n2}
  Cpus = {c1, c2, cx}
  AmbiguousCpus = {cx}
  Devices = {d1, d2, d3}
  IommuGroup <- MCIommuGroup
  AddressLimit = 6
  Layouts <- MCLayouts
  Sizes = {0, 1, 2, 3}
  CpuLists <- MCCpuLists
  DeviceLists <- MCDeviceLists
  None = None
INVARIANTS
  ResourcesHaveOneOwner
PROPERTIES
  RunningInstancesKeepResources
CHECK_DEADLOCK FALSE
