SPECIFICATION Spec
CONSTANTS
  c1 = c1
  c2 = c2
  InstanceIds = {1, 2}
  Names = {"a", "b"}
  ValidNames = {"a", "b"}
  Cpus = {c1, c2}
  AmbiguousCpus = {}
  Devices = {}
  IommuGroup <- MCIommuGroup
  AddressLimit = 6
  Layouts <- MCLayouts
  Sizes = {1, 2}
  CpuLists <- MCCpuLists
  DeviceLists = {}
  None = None
  Jobs = {j1, j2}
  Hosts <- MCHosts
  Workload <- MixedWorkload
  Faults = {}
  MaxRestarts = 0
PROPERTIES
  MutationsArePlanned
CHECK_DEADLOCK FALSE
