------------------------------ MODULE Lifecycle ------------------------------
(***************************************************************************)
(* Which mutations the daemon lets through to Kerf: the planning functions *)
(* of lifecycle.rs, placement.rs and resource_pool.rs, as predicates over  *)
(* the snapshot the inventory assembles.                                   *)
(*                                                                         *)
(* The variable `host` is the Multikernel state behind sysfs.  Kerf and    *)
(* the kernel are external: Apply gives the states they may leave behind.  *)
(* They are trusted as little as possible: a CPU, device or memory         *)
(* replacement is taken over as asked.  So what the invariants say of      *)
(* ownership is owed to the plans.                                         *)
(*                                                                         *)
(* Left out: the argument vectors, the choice of error code, and the paths *)
(* and command lines a load carries.                                       *)
(***************************************************************************)
EXTENDS Integers, Sequences, FiniteSets, FiniteSetsExt

CONSTANTS
  InstanceIds,      \* ids a request may name
  Names,            \* names a request may give, well-formed or not
  ValidNames,       \* those `validate_name` accepts
  Cpus,             \* hardware (APIC) ids of the machine
  AmbiguousCpus,    \* ids that more than one host CPU reports
  Devices,          \* PCI ids
  IommuGroup,       \* the IOMMU group of a device, or None
  AddressLimit,     \* 2^64, where checked_add fails
  Layouts,          \* memory regions a pool may consist of
  Sizes,            \* memory sizes a request may name
  CpuLists,         \* CPU lists a request may carry
  DeviceLists,      \* device lists a request may carry
  None

ASSUME PlacementAssumption ==
  /\ InstanceIds \subseteq Nat
  /\ ValidNames \subseteq Names
  /\ AmbiguousCpus \subseteq Cpus
  /\ IommuGroup \in [Devices -> Nat \cup {None}]
  /\ AddressLimit \in Nat
  /\ Sizes \subseteq Nat
  /\ CpuLists \subseteq Seq(Cpus)
  /\ DeviceLists \subseteq Seq(Devices)
  /\ \A layout \in Layouts : layout \subseteq [base : Nat, bytes : Nat]
  /\ {} \in Layouts
  /\ None \notin Nat \cup CpuLists \cup DeviceLists \cup Names

Instance ==
  [name : Names, state : {"Ready", "Loaded", "Active"}, cpus : SUBSET Cpus,
   base : Nat, bytes : Nat, devices : SUBSET Devices]

ASSUME NoneAssumption == None \notin Instance

VARIABLE host

Host ==
  [cpus : SUBSET Cpus, regions : Layouts, devices : SUBSET Devices,
   instances : [InstanceIds -> Instance \cup {None}]]

Present(instances) == {id \in DOMAIN instances : instances[id] # None}

Peers(instances, id) == Present(instances) \ {id}

-----------------------------------------------------------------------------
(* The part of a snapshot the plans read, as `assemble_snapshot` and       *)
(* `map_resource_pool` derive it from the device trees.                    *)

AssignedCpus(instances) == UNION {instances[id].cpus : id \in Present(instances)}

OwnedDevices(instances) == UNION {instances[id].devices : id \in Present(instances)}

PoolView(h) ==
  [cpus |-> h.cpus, available |-> h.cpus \ AssignedCpus(h.instances),
   regions |-> h.regions, devices |-> h.devices]

\* Host topology lists online CPUs only; Kerf offlines the pool's.
Snapshot(pool, instances, topology) ==
  [cpus |-> pool.cpus,
   available |-> pool.available,
   regions |-> pool.regions,
   devices |-> pool.devices \cup OwnedDevices(instances),
   available_devices |-> pool.devices,
   instances |-> instances,
   topology |-> topology]

Observe(h) == Snapshot(PoolView(h), h.instances, Cpus \ h.cpus)

-----------------------------------------------------------------------------
(* Validation.                                                             *)

Elements(list) == {list[i] : i \in DOMAIN list}

Distinct(list) == Cardinality(Elements(list)) = Len(list)

ValidId(id) == id \in 1..511

ValidCpus(list) == list # <<>> /\ Distinct(list)

\* Mutant: any CPU of the pool will do.
InstanceCpusAvailable_Pool(s, cpus, retained) == cpus \subseteq s.cpus \cup retained

InstanceCpusAvailable(s, cpus, retained) == cpus \subseteq s.available \cup retained

\* Only CPUs that enter the pool must be known and unambiguous.
PoolCpusKnown(s, cpus) ==
  \A cpu \in cpus \ s.cpus : cpu \in s.topology /\ cpu \notin AmbiguousCpus

PoolBytes(regions) == MapThenSumSet(LAMBDA region : region.bytes, regions)

AssignedBytes(instances) ==
  MapThenSumSet(LAMBDA id : instances[id].bytes, Present(instances))

CreateMemoryFits(s, bytes) ==
  /\ PoolBytes(s.regions) < AddressLimit
  /\ AssignedBytes(s.instances) < AddressLimit
  /\ bytes + AssignedBytes(s.instances) <= PoolBytes(s.regions)
  /\ \E region \in s.regions : region.bytes >= bytes

\* checked_add: an end at or past the limit is no address.
InRegion(region, base, bytes) ==
  /\ region.base + region.bytes < AddressLimit
  /\ region.base <= base
  /\ base + bytes <= region.base + region.bytes

Overlap(base, bytes, peer) == base < peer.base + peer.bytes /\ peer.base < base + bytes

\* Mutant: peers in the same region are overlooked.
UpdateMemoryFits_NoPeers(s, id, bytes) ==
  LET instance == s.instances[id]
  IN  \/ bytes <= instance.bytes
      \/ /\ instance.base + bytes < AddressLimit
         /\ \E region \in s.regions : InRegion(region, instance.base, bytes)

UpdateMemoryFits(s, id, bytes) ==
  LET instance == s.instances[id]
  IN  \/ bytes <= instance.bytes
      \/ /\ instance.base + bytes < AddressLimit
         /\ \E region \in s.regions : InRegion(region, instance.base, bytes)
         /\ \A p \in Peers(s.instances, id) :
              /\ s.instances[p].base + s.instances[p].bytes < AddressLimit
              /\ ~Overlap(instance.base, bytes, s.instances[p])

GroupMembers(device) == {d \in Devices : IommuGroup[d] = IommuGroup[device]}

\* Mutant: a device is taken without the rest of its IOMMU group.
UpdateDevicesFit_SplitsGroups(s, id, list) ==
  LET requested == Elements(list)
  IN  /\ list # <<>>
      /\ Distinct(list)
      /\ \A p \in Peers(s.instances, id) : s.instances[p].devices \cap requested = {}
      /\ requested \subseteq s.available_devices \cup s.instances[id].devices
      /\ \A d \in requested : IommuGroup[d] # None

UpdateDevicesFit(s, id, list) ==
  LET requested == Elements(list)
  IN  /\ list # <<>>
      /\ Distinct(list)
      /\ \A p \in Peers(s.instances, id) : s.instances[p].devices \cap requested = {}
      /\ requested \subseteq s.devices
      /\ requested \subseteq s.available_devices \cup s.instances[id].devices
      /\ \A d \in requested :
           /\ IommuGroup[d] # None
           /\ GroupMembers(d) \subseteq requested \cap s.devices

-----------------------------------------------------------------------------
(* Requests and their plans.                                               *)

CreateRequests ==
  [op : {"create"}, id : InstanceIds, name : Names, cpus : CpuLists, bytes : Sizes]

UpdateRequests ==
  [op : {"update"}, id : InstanceIds, cpus : CpuLists \cup {None},
   bytes : Sizes \cup {None}, devices : DeviceLists \cup {None},
   dry_run : BOOLEAN]

StateRequests == [op : {"load", "start", "stop", "unload"}, id : InstanceIds]

DeleteRequests == [op : {"delete"}, id : InstanceIds]

PoolRequests == [op : {"pool"}, cpus : CpuLists, bytes : Sizes]

Requests ==
  CreateRequests \cup UpdateRequests \cup StateRequests \cup DeleteRequests
    \cup PoolRequests

RequireState(s, id, state) ==
  /\ ValidId(id)
  /\ s.instances[id] # None
  /\ s.instances[id].state = state

\* Mutant: only the id has to be new.
PlanCreate_SameName(r, s) ==
  /\ r.name \in ValidNames
  /\ ValidId(r.id)
  /\ ValidCpus(r.cpus)
  /\ InstanceCpusAvailable(s, Elements(r.cpus), {})
  /\ r.bytes # 0
  /\ s.instances[r.id] = None
  /\ CreateMemoryFits(s, r.bytes)

PlanCreate(r, s) ==
  /\ r.name \in ValidNames
  /\ ValidId(r.id)
  /\ ValidCpus(r.cpus)
  /\ InstanceCpusAvailable(s, Elements(r.cpus), {})
  /\ r.bytes # 0
  /\ s.instances[r.id] = None
  /\ \A p \in Present(s.instances) : s.instances[p].name # r.name
  /\ CreateMemoryFits(s, r.bytes)

\* Mutant: an update is taken in any state.
PlanUpdate_AnyState(r, s) ==
  /\ ValidId(r.id)
  /\ s.instances[r.id] # None
  /\ r.cpus # None \/ r.bytes # None \/ r.devices # None
  /\ r.cpus # None =>
       /\ ValidCpus(r.cpus)
       /\ InstanceCpusAvailable(s, Elements(r.cpus), s.instances[r.id].cpus)
  /\ r.bytes # None => r.bytes # 0 /\ UpdateMemoryFits(s, r.id, r.bytes)
  /\ r.devices # None => UpdateDevicesFit(s, r.id, r.devices)

PlanUpdate(r, s) ==
  /\ RequireState(s, r.id, "Ready")
  /\ s.instances[r.id].name \in ValidNames
  /\ r.cpus # None \/ r.bytes # None \/ r.devices # None
  /\ r.cpus # None =>
       /\ ValidCpus(r.cpus)
       /\ InstanceCpusAvailable(s, Elements(r.cpus), s.instances[r.id].cpus)
  /\ r.bytes # None => r.bytes # 0 /\ UpdateMemoryFits(s, r.id, r.bytes)
  /\ r.devices # None => UpdateDevicesFit(s, r.id, r.devices)

Required(op) ==
  CASE op \in {"load", "delete"} -> "Ready"
    [] op \in {"start", "unload"} -> "Loaded"
    [] op = "stop" -> "Active"

Reached(op) ==
  CASE op \in {"load", "stop"} -> "Loaded"
    [] op = "start" -> "Active"
    [] op = "unload" -> "Ready"

PlanState(r, s) == RequireState(s, r.id, Required(r.op))

PlanPool(r, s) ==
  /\ Distinct(r.cpus)
  /\ PoolCpusKnown(s, Elements(r.cpus))
  /\ AssignedCpus(s.instances) \subseteq Elements(r.cpus)
  /\ AssignedBytes(s.instances) <= r.bytes

Plan(r, s) ==
  CASE r.op = "create" -> PlanCreate(r, s)
    [] r.op = "update" -> PlanUpdate(r, s)
    [] r.op = "pool" -> PlanPool(r, s)
    [] OTHER -> PlanState(r, s)

MutatesKernel(r) == r.op = "update" => ~r.dry_run

-----------------------------------------------------------------------------
(* Kerf and the kernel, external.  A command may fail without effect; a    *)
(* create is placed in free pool memory; a pool request may return CPUs    *)
(* and then fail on memory, as fixtures/v1/kerf/partial-pool-release.json  *)
(* records.                                                                *)

Within(layout, base, bytes) ==
  \E region \in layout :
    region.base <= base /\ base + bytes <= region.base + region.bytes

FreeBases(h, bytes) ==
  {base \in 0..(AddressLimit - 1) :
     /\ Within(h.regions, base, bytes)
     /\ \A p \in Present(h.instances) : ~Overlap(base, bytes, h.instances[p])}

Or(option, default) == IF option = None THEN default ELSE option

Updated(r, instance) ==
  [instance EXCEPT
     !.cpus = IF r.cpus = None THEN @ ELSE Elements(r.cpus),
     !.bytes = Or(r.bytes, @),
     !.devices = IF r.devices = None THEN @ ELSE Elements(r.devices)]

Created(r, base) ==
  [name |-> r.name, state |-> "Ready", cpus |-> Elements(r.cpus), base |-> base,
   bytes |-> r.bytes, devices |-> {}]

\* Device replacement moves devices between the pool and the instance.
WithInstance(h, id, instance) ==
  LET before == IF h.instances[id] = None THEN {} ELSE h.instances[id].devices
      after  == IF instance = None THEN {} ELSE instance.devices
  IN  [h EXCEPT !.instances = [@ EXCEPT ![id] = instance],
                !.devices = (@ \cup before) \ after]

CreateOutcomes(r, h) ==
  {WithInstance(h, r.id, Created(r, base)) : base \in FreeBases(h, r.bytes)}

UpdateOutcome(r, h) == WithInstance(h, r.id, Updated(r, h.instances[r.id]))

StateOutcome(r, h) ==
  WithInstance(h, r.id, [h.instances[r.id] EXCEPT !.state = Reached(r.op)])

DeleteOutcome(r, h) == WithInstance(h, r.id, None)

\* Layouts the pool can take without moving an instance.
LayoutsFor(r, h) ==
  {layout \in Layouts :
     /\ PoolBytes(layout) = r.bytes
     /\ \A p \in Present(h.instances) :
          Within(layout, h.instances[p].base, h.instances[p].bytes)}

PoolOutcomes(r, h) ==
  {[h EXCEPT !.cpus = Elements(r.cpus), !.regions = layout] :
     layout \in LayoutsFor(r, h) \cup {h.regions}}

Apply(r, h) ==
  CASE r.op = "create" -> CreateOutcomes(r, h)
    [] r.op = "update" -> {UpdateOutcome(r, h)}
    [] r.op = "delete" -> {DeleteOutcome(r, h)}
    [] r.op = "pool"   -> PoolOutcomes(r, h)
    [] OTHER           -> {StateOutcome(r, h)}

\* The kernel refuses what makes no sense for the instance it finds.
Applicable(r) ==
  CASE r.op = "create" -> host.instances[r.id] = None
    [] r.op = "pool"   -> TRUE
    [] r.op = "update" -> RequireState(host, r.id, "Ready")
    [] OTHER           -> RequireState(host, r.id, Required(r.op))

-----------------------------------------------------------------------------
(* `expected_state_observed` and `request_reached`: does a snapshot show   *)
(* what the request asked for?                                             *)

RequestReached(r, s) == s.cpus = Elements(r.cpus) /\ PoolBytes(s.regions) = r.bytes

ExpectedObserved(r, s) ==
  CASE r.op = "create" ->
         /\ s.instances[r.id] # None
         /\ LET i == s.instances[r.id]
            IN  /\ i.state = "Ready" /\ i.name = r.name
                /\ i.cpus = Elements(r.cpus) /\ i.bytes = r.bytes
    [] r.op = "update" ->
         /\ s.instances[r.id] # None
         /\ LET i == s.instances[r.id]
            IN  /\ i.state = "Ready"
                /\ r.cpus # None => i.cpus = Elements(r.cpus)
                /\ r.bytes # None => i.bytes = r.bytes
                /\ r.devices # None => i.devices = Elements(r.devices)
    [] r.op = "delete" -> s.instances[r.id] = None
    [] r.op = "pool" -> RequestReached(r, s)
    [] OTHER ->
         s.instances[r.id] # None /\ s.instances[r.id].state = Reached(r.op)

-----------------------------------------------------------------------------
(* Mutations one after the other, each planned against the state it finds. *)

\* The pool is set up empty; which devices it manages is Kerf's business.
PlacementInit ==
  \E devices \in SUBSET Devices :
    host = [cpus |-> {}, regions |-> {}, devices |-> devices,
            instances |-> [id \in InstanceIds |-> None]]

CreateInstance(r) ==
  PlanCreate(r, Observe(host)) /\ host' \in CreateOutcomes(r, host)

UpdateInstance(r) ==
  /\ PlanUpdate(r, Observe(host))
  /\ MutatesKernel(r)
  /\ host' = UpdateOutcome(r, host)

ChangeState(r) == PlanState(r, Observe(host)) /\ host' = StateOutcome(r, host)

DeleteInstance(r) == PlanState(r, Observe(host)) /\ host' = DeleteOutcome(r, host)

ResizePool(r) == PlanPool(r, Observe(host)) /\ host' \in PoolOutcomes(r, host)

PlacementNext ==
  \/ \E r \in CreateRequests : CreateInstance(r)
  \/ \E r \in UpdateRequests : UpdateInstance(r)
  \/ \E r \in StateRequests : ChangeState(r)
  \/ \E r \in DeleteRequests : DeleteInstance(r)
  \/ \E r \in PoolRequests : ResizePool(r)

PlacementSpec == PlacementInit /\ [][PlacementNext]_host

-----------------------------------------------------------------------------

(***************************************************************************)
(* The host state is well formed.                                          *)
(***************************************************************************)
HostTypeOK == host \in Host

(***************************************************************************)
(* CPUs: an instance runs on pool CPUs only, and no CPU is given to two    *)
(* instances, whatever mix of creates, updates and pool changes the plans  *)
(* let through.                                                            *)
(***************************************************************************)
CpuOwnership ==
  \A i \in Present(host.instances) :
    /\ host.instances[i].cpus # {}
    /\ host.instances[i].cpus \subseteq host.cpus
    /\ \A p \in Peers(host.instances, i) :
         host.instances[i].cpus \cap host.instances[p].cpus = {}

(***************************************************************************)
(* Memory: an instance lies in one region of the pool and overlaps no      *)
(* other instance; growing in place is where a plan has to make sure.      *)
(***************************************************************************)
MemoryOwnership ==
  \A i \in Present(host.instances) :
    LET instance == host.instances[i]
    IN  /\ instance.bytes # 0
        /\ Within(host.regions, instance.base, instance.bytes)
        /\ \A p \in Peers(host.instances, i) :
             ~Overlap(instance.base, instance.bytes, host.instances[p])

(***************************************************************************)
(* Devices: no device is shared or also free in the pool, and an IOMMU     *)
(* group is never split between an instance and anything else.             *)
(***************************************************************************)
DeviceOwnership ==
  \A i \in Present(host.instances) :
    /\ host.instances[i].devices \cap host.devices = {}
    /\ \A p \in Peers(host.instances, i) :
         host.instances[i].devices \cap host.instances[p].devices = {}
    /\ \A d \in host.instances[i].devices :
         GroupMembers(d) \subseteq host.instances[i].devices

(***************************************************************************)
(* Identity: ids are in the kernel's range and names are valid and unique, *)
(* so the name that `kerf update` is given names one instance.             *)
(***************************************************************************)
IdentityIsUnique ==
  \A i \in Present(host.instances) :
    /\ ValidId(i)
    /\ host.instances[i].name \in ValidNames
    /\ \A p \in Peers(host.instances, i) :
         host.instances[i].name # host.instances[p].name

(***************************************************************************)
(* Every CPU, byte, device and name has one owner, however creates,        *)
(* updates, deletes and pool changes follow each other.                    *)
(***************************************************************************)
ResourcesHaveOneOwner ==
  HostTypeOK /\ CpuOwnership /\ MemoryOwnership /\ DeviceOwnership /\ IdentityIsUnique

(***************************************************************************)
(* An instance that is loaded or running keeps its CPUs, memory and        *)
(* devices until it is unloaded: no accepted request takes them away.      *)
(***************************************************************************)
RunningInstancesKeepResources ==
  [][\A i \in Present(host.instances) :
       host.instances[i].state # "Ready" =>
         /\ host'.instances[i] # None
         /\ [host'.instances[i] EXCEPT !.state = host.instances[i].state]
              = host.instances[i]
         /\ host.instances[i].cpus \subseteq host'.cpus]_host
=============================================================================
