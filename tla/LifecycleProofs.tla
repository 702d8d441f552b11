--------------------------- MODULE LifecycleProofs ---------------------------
(***************************************************************************)
(* Proofs about Lifecycle, for every machine: any set of CPUs, devices,    *)
(* IOMMU groups and memory layouts, any number of instances.               *)
(*                                                                         *)
(* Create, update and the state commands replace one instance and leave    *)
(* the others alone.  So the argument is: the plan makes the replacement   *)
(* fit (Fits), and whatever fits keeps the ownership invariants.           *)
(***************************************************************************)
EXTENDS Lifecycle, TLAPS

\* Most leaves are logic and functions: Zenon is the backend unless one names another.
USE ZenonT(60)

\* The instance can take the place `id` beside the other instances.
Fits(id, instance) ==
  /\ ValidId(id)
  /\ instance.name \in ValidNames
  /\ instance.cpus # {}
  /\ instance.cpus \subseteq host.cpus
  /\ instance.bytes # 0
  /\ Within(host.regions, instance.base, instance.bytes)
  /\ \A d \in instance.devices : GroupMembers(d) \subseteq instance.devices
  /\ \A p \in Peers(host.instances, id) :
       /\ host.instances[p].name # instance.name
       /\ host.instances[p].cpus \cap instance.cpus = {}
       /\ ~Overlap(instance.base, instance.bytes, host.instances[p])
       /\ host.instances[p].devices \cap instance.devices = {}

(***************************************************************************)
(* A host state taken apart.                                               *)
(***************************************************************************)
LEMMA HostFields ==
  ASSUME HostTypeOK
  PROVE  /\ host.cpus \in SUBSET Cpus
         /\ host.regions \in Layouts
         /\ host.devices \in SUBSET Devices
         /\ host.instances \in [InstanceIds -> Instance \cup {None}]
         /\ Present(host.instances) = {id \in InstanceIds : host.instances[id] # None}
         /\ \A id \in Present(host.instances) :
              id \in InstanceIds /\ host.instances[id] \in Instance
  BY DEF HostTypeOK, Host, Present

(***************************************************************************)
(* What a Kerf command about one instance changes.                         *)
(***************************************************************************)
LEMMA WithInstanceLemma ==
  ASSUME HostTypeOK, NEW id \in InstanceIds,
         NEW instance \in Instance \cup {None},
         host' = WithInstance(host, id, instance)
  PROVE  /\ HostTypeOK'
         /\ host'.cpus = host.cpus
         /\ host'.regions = host.regions
         /\ host'.instances[id] = instance
         /\ \A p \in InstanceIds \ {id} : host'.instances[p] = host.instances[p]
         /\ host'.devices =
              (host.devices \cup IF host.instances[id] = None
                                  THEN {} ELSE host.instances[id].devices)
                \ IF instance = None THEN {} ELSE instance.devices
<1> DEFINE before == IF host.instances[id] = None
                       THEN {} ELSE host.instances[id].devices
           after == IF instance = None THEN {} ELSE instance.devices
<1>1. /\ host.cpus \in SUBSET Cpus /\ host.regions \in Layouts
      /\ host.devices \in SUBSET Devices
      /\ host.instances \in [InstanceIds -> Instance \cup {None}]
  BY HostFields
<1>2. before \in SUBSET Devices
  BY <1>1 DEF Instance
<1>3. host = [cpus |-> host.cpus, regions |-> host.regions,
              devices |-> host.devices, instances |-> host.instances]
  BY DEF HostTypeOK, Host
<1>4. host' = [cpus |-> host.cpus, regions |-> host.regions,
               devices |-> (host.devices \cup before) \ after,
               instances |-> [host.instances EXCEPT ![id] = instance]]
  BY <1>3 DEF WithInstance
<1> HIDE DEF before, after
<1>5. (host.devices \cup before) \ after \in SUBSET Devices
  BY <1>1, <1>2
<1>6. [host.instances EXCEPT ![id] = instance]
        \in [InstanceIds -> Instance \cup {None}]
  BY <1>1
<1>7. HostTypeOK'
  BY <1>1, <1>4, <1>5, <1>6, SMTT(60) DEF HostTypeOK, Host
<1> QED
  BY <1>1, <1>4, <1>7, SMTT(60) DEF before, after

(***************************************************************************)
(* Whatever fits may be put in place.                                      *)
(***************************************************************************)
LEMMA ReplaceLemma ==
  ASSUME ResourcesHaveOneOwner, NEW id \in InstanceIds, NEW instance \in Instance,
         Fits(id, instance), host' = WithInstance(host, id, instance)
  PROVE  ResourcesHaveOneOwner'
<1>0. /\ HostTypeOK /\ CpuOwnership /\ MemoryOwnership /\ DeviceOwnership
      /\ IdentityIsUnique
  BY DEF ResourcesHaveOneOwner
<1>1. /\ HostTypeOK'
      /\ host'.cpus = host.cpus /\ host'.regions = host.regions
      /\ host'.instances[id] = instance
      /\ \A p \in InstanceIds \ {id} : host'.instances[p] = host.instances[p]
      /\ host'.devices =
           (host.devices \cup IF host.instances[id] = None
                               THEN {} ELSE host.instances[id].devices)
             \ IF instance = None THEN {} ELSE instance.devices
  BY <1>0, WithInstanceLemma
<1>2. instance # None
  BY NoneAssumption
<1>3. Present(host'.instances) = {i \in InstanceIds : host'.instances[i] # None}
  BY <1>1 DEF HostTypeOK, Host, Present
<1>4. ASSUME NEW i \in Present(host'.instances), i # id
      PROVE  /\ i \in Present(host.instances) /\ i \in Peers(host.instances, id)
             /\ host'.instances[i] = host.instances[i]
  BY <1>0, <1>1, <1>3, <1>4, HostFields DEF Peers
<1>5. ASSUME NEW i \in Present(host'.instances), NEW p \in Peers(host'.instances, i)
      PROVE  /\ p \in Present(host'.instances) /\ p # i
             /\ i # id /\ p # id => p \in Peers(host.instances, i)
  BY <1>4 DEF Peers
<1>6. CpuOwnership'
  <2> SUFFICES ASSUME NEW i \in Present(host'.instances)
               PROVE  /\ host'.instances[i].cpus # {}
                      /\ host'.instances[i].cpus \subseteq host'.cpus
                      /\ \A p \in Peers(host'.instances, i) :
                           host'.instances[i].cpus \cap host'.instances[p].cpus = {}
    BY DEF CpuOwnership
  <2>1. CASE i = id
    BY <1>1, <1>4, <1>5, <2>1, SMTT(60) DEF Fits
  <2>2. CASE i # id
    BY <1>0, <1>1, <1>4, <1>5, <2>2, SMTT(60) DEF Fits, CpuOwnership
  <2> QED
    BY <2>1, <2>2
<1>7. DeviceOwnership'
  <2> SUFFICES ASSUME NEW i \in Present(host'.instances)
               PROVE  /\ host'.instances[i].devices \cap host'.devices = {}
                      /\ \A p \in Peers(host'.instances, i) :
                           host'.instances[i].devices \cap host'.instances[p].devices = {}
                      /\ \A d \in host'.instances[i].devices :
                           GroupMembers(d) \subseteq host'.instances[i].devices
    BY DEF DeviceOwnership
  <2>1. CASE i = id
    BY <1>1, <1>2, <1>4, <1>5, <2>1, SMTT(60) DEF Fits
  <2>2. CASE i # id
    <3>1. host.instances[id] # None => id \in Peers(host.instances, i)
      BY <1>0, <2>2, HostFields DEF Peers
    <3>2. host'.instances[i].devices \cap host'.devices = {}
      BY <1>0, <1>1, <1>4, <2>2, <3>1 DEF DeviceOwnership
    <3> QED
      BY <1>0, <1>1, <1>4, <1>5, <2>2, <3>2, SMTT(60) DEF Fits, DeviceOwnership
  <2> QED
    BY <2>1, <2>2
<1>8. IdentityIsUnique'
  <2> SUFFICES ASSUME NEW i \in Present(host'.instances)
               PROVE  /\ ValidId(i)
                      /\ host'.instances[i].name \in ValidNames
                      /\ \A p \in Peers(host'.instances, i) :
                           host'.instances[i].name # host'.instances[p].name
    BY DEF IdentityIsUnique, ValidId
  <2>1. CASE i = id
    BY <1>1, <1>4, <1>5, <2>1, SMTT(60) DEF Fits
  <2>2. CASE i # id
    BY <1>0, <1>1, <1>4, <1>5, <2>2, SMTT(60) DEF Fits, IdentityIsUnique
  <2> QED
    BY <2>1, <2>2
<1>9. MemoryOwnership'
  <2> SUFFICES ASSUME NEW i \in Present(host'.instances)
               PROVE  LET this == host'.instances[i]
                      IN  /\ this.bytes # 0
                          /\ Within(host'.regions, this.base, this.bytes)
                          /\ \A p \in Peers(host'.instances, i) :
                               ~Overlap(this.base, this.bytes, host'.instances[p])
    BY DEF MemoryOwnership, Within, Overlap
  <2>1. CASE i = id
    BY <1>1, <1>4, <1>5, <2>1, SMTT(60) DEF Fits
  <2>2. CASE i # id
    <3>1. ~Overlap(host.instances[i].base, host.instances[i].bytes, instance)
      BY <1>4, <2>2 DEF Fits, Overlap
    <3> QED
      BY <1>0, <1>1, <1>4, <1>5, <2>2, <3>1, SMTT(60) DEF MemoryOwnership
  <2> QED
    BY <2>1, <2>2
<1> QED
  BY <1>1, <1>6, <1>7, <1>8, <1>9 DEF ResourcesHaveOneOwner

(***************************************************************************)
(* The elements of a request's list.                                       *)
(***************************************************************************)
LEMMA ElementsLemma ==
  ASSUME NEW S, NEW list \in Seq(S)
  PROVE  /\ Elements(list) \subseteq S
         /\ list # <<>> => Elements(list) # {}
<1>1. Elements(list) \subseteq S
  BY SMTT(60) DEF Elements
<1>2. ASSUME list # <<>> PROVE Elements(list) # {}
  <2>1. 1 \in DOMAIN list
    BY <1>2, SMTT(60)
  <2> QED
    BY <2>1 DEF Elements
<1> QED
  BY <1>1, <1>2

(***************************************************************************)
(* The available CPUs of the snapshot belong to no instance.               *)
(***************************************************************************)
LEMMA AvailableLemma ==
  ASSUME NEW cpus, InstanceCpusAvailable(Observe(host), cpus, {})
  PROVE  /\ cpus \subseteq host.cpus
         /\ \A p \in Present(host.instances) : host.instances[p].cpus \cap cpus = {}
  BY DEF InstanceCpusAvailable, Observe, Snapshot, PoolView, AssignedCpus

(* An accepted create gives the new instance free CPUs, free memory and an unused name: ResourcesHaveOneOwner is kept. *)
LEMMA CreatePreserves ==
  ASSUME ResourcesHaveOneOwner, NEW r \in CreateRequests, CreateInstance(r)
  PROVE  ResourcesHaveOneOwner'
<1>0. HostTypeOK
  BY DEF ResourcesHaveOneOwner
<1>1. /\ r.id \in InstanceIds /\ r.name \in Names /\ r.cpus \in Seq(Cpus)
      /\ r.bytes \in Nat
  BY PlacementAssumption DEF CreateRequests
<1>2. /\ r.name \in ValidNames /\ ValidId(r.id) /\ r.cpus # <<>> /\ r.bytes # 0
      /\ \A p \in Present(host.instances) : host.instances[p].name # r.name
      /\ InstanceCpusAvailable(Observe(host), Elements(r.cpus), {})
  BY DEF CreateInstance, PlanCreate, ValidCpus, Observe, Snapshot
<1>3. PICK base \in FreeBases(host, r.bytes) :
        host' = WithInstance(host, r.id, Created(r, base))
  BY DEF CreateInstance, CreateOutcomes
<1>4. /\ base \in Nat /\ Within(host.regions, base, r.bytes)
      /\ \A p \in Present(host.instances) : ~Overlap(base, r.bytes, host.instances[p])
  BY PlacementAssumption, SMTT(60) DEF FreeBases
<1>5. Elements(r.cpus) \subseteq Cpus /\ Elements(r.cpus) # {}
  BY <1>1, <1>2, ElementsLemma
<1>6. Created(r, base) \in Instance
  BY <1>1, <1>4, <1>5 DEF Created, Instance
<1>7. Fits(r.id, Created(r, base))
  <2>1. /\ Elements(r.cpus) \subseteq host.cpus
        /\ \A p \in Present(host.instances) :
             host.instances[p].cpus \cap Elements(r.cpus) = {}
    BY <1>2, AvailableLemma
  <2> QED
    BY <1>2, <1>4, <1>5, <2>1 DEF Fits, Created, Peers
<1> QED
  BY <1>1, <1>3, <1>6, <1>7, ReplaceLemma

(***************************************************************************)
(* The instance that an update or a state command replaces fits as it is.  *)
(***************************************************************************)
LEMMA PresentFits ==
  ASSUME ResourcesHaveOneOwner, NEW id \in Present(host.instances)
  PROVE  id \in InstanceIds /\ host.instances[id] \in Instance
           /\ Fits(id, host.instances[id])
<1>1. id \in InstanceIds /\ host.instances[id] \in Instance
  BY HostFields DEF ResourcesHaveOneOwner
<1>2. Fits(id, host.instances[id])
  BY DEF ResourcesHaveOneOwner, CpuOwnership, MemoryOwnership, DeviceOwnership,
         IdentityIsUnique, Fits
<1> QED
  BY <1>1, <1>2

(* An accepted update replaces one Ready instance's resources by ones that fit: ResourcesHaveOneOwner is kept. *)
LEMMA UpdatePreserves ==
  ASSUME ResourcesHaveOneOwner, NEW r \in UpdateRequests, UpdateInstance(r)
  PROVE  ResourcesHaveOneOwner'
<1> DEFINE id == r.id
           old == host.instances[id]
           new == Updated(r, old)
<1>1. /\ id \in InstanceIds /\ r.cpus \in CpuLists \cup {None}
      /\ r.bytes \in Sizes \cup {None} /\ r.devices \in DeviceLists \cup {None}
  BY DEF UpdateRequests
<1>2. /\ PlanUpdate(r, Observe(host)) /\ old # None
      /\ host' = WithInstance(host, id, new)
  BY DEF UpdateInstance, UpdateOutcome, PlanUpdate, RequireState, Observe, Snapshot
<1>3. id \in Present(host.instances)
  BY <1>1, <1>2, HostFields DEF ResourcesHaveOneOwner
<1>4. old \in Instance /\ Fits(id, old)
  BY <1>3, PresentFits
<1>5. /\ new.name = old.name /\ new.base = old.base
      /\ new.cpus = IF r.cpus = None THEN old.cpus ELSE Elements(r.cpus)
      /\ new.bytes = IF r.bytes = None THEN old.bytes ELSE r.bytes
      /\ new.devices = IF r.devices = None THEN old.devices ELSE Elements(r.devices)
      /\ new.state = old.state
  BY <1>4 DEF Updated, Or, Instance
<1>6. /\ old.name \in Names /\ old.base \in Nat /\ old.bytes \in Nat
      /\ old.cpus \in SUBSET Cpus /\ old.devices \in SUBSET Devices
      /\ old.state \in {"Ready", "Loaded", "Active"}
  BY <1>4 DEF Instance
<1>7. new = [old EXCEPT !.cpus = new.cpus, !.bytes = new.bytes, !.devices = new.devices]
  BY <1>4, <1>5 DEF Updated, Or, Instance
<1> HIDE DEF id, old, new
<1>8. new.cpus # {} /\ new.cpus \subseteq Cpus /\ new.cpus \subseteq host.cpus
      /\ \A p \in Peers(host.instances, id) : host.instances[p].cpus \cap new.cpus = {}
  <2>1. CASE r.cpus = None
    BY <1>4, <1>5, <1>6, <2>1 DEF Fits
  <2>2. CASE r.cpus # None
    <3>1. /\ r.cpus \in Seq(Cpus) /\ r.cpus # <<>>
          /\ Elements(r.cpus) \subseteq
               (host.cpus \ AssignedCpus(host.instances)) \cup old.cpus
      BY <1>1, <1>2, <2>2, PlacementAssumption
      DEF PlanUpdate, ValidCpus, InstanceCpusAvailable, Observe, Snapshot, PoolView,
          old, id
    <3>2. Elements(r.cpus) \subseteq Cpus /\ Elements(r.cpus) # {}
      BY <3>1, ElementsLemma
    <3>3. \A p \in Peers(host.instances, id) :
            host.instances[p].cpus \subseteq AssignedCpus(host.instances)
      BY DEF Peers, AssignedCpus
    <3> QED
      BY <1>4, <1>5, <2>2, <3>1, <3>2, <3>3, SMTT(60) DEF Fits
  <2> QED
    BY <2>1, <2>2
<1>9. new.devices \subseteq Devices
      /\ (\A d \in new.devices : GroupMembers(d) \subseteq new.devices)
      /\ \A p \in Peers(host.instances, id) :
           host.instances[p].devices \cap new.devices = {}
  <2>1. CASE r.devices = None
    BY <1>4, <1>5, <1>6, <2>1 DEF Fits
  <2>2. CASE r.devices # None
    <3>1. /\ r.devices \in Seq(Devices)
          /\ \A d \in Elements(r.devices) : GroupMembers(d) \subseteq Elements(r.devices)
          /\ \A p \in Peers(host.instances, id) :
               host.instances[p].devices \cap Elements(r.devices) = {}
      BY <1>1, <1>2, <2>2, PlacementAssumption
      DEF PlanUpdate, UpdateDevicesFit, Observe, Snapshot, id
    <3> QED
      BY <1>5, <2>2, <3>1, ElementsLemma, SMTT(60)
  <2> QED
    BY <2>1, <2>2
<1>10. new.bytes \in Nat /\ new.bytes # 0
       /\ Within(host.regions, old.base, new.bytes)
       /\ \A p \in Peers(host.instances, id) :
            ~Overlap(old.base, new.bytes, host.instances[p])
  <2>1. CASE r.bytes = None
    BY <1>4, <1>5, <1>6, <2>1 DEF Fits
  <2>2. CASE r.bytes # None
    <3>1. /\ r.bytes \in Nat /\ r.bytes # 0 /\ new.bytes = r.bytes
          /\ UpdateMemoryFits(Observe(host), id, r.bytes)
      BY <1>1, <1>2, <1>5, <2>2, PlacementAssumption DEF PlanUpdate, id
    <3>2. \A region \in host.regions : region.base \in Nat /\ region.bytes \in Nat
      BY HostFields, PlacementAssumption, SMTT(60) DEF ResourcesHaveOneOwner
    <3>3. \A p \in Peers(host.instances, id) :
            host.instances[p].base \in Nat /\ host.instances[p].bytes \in Nat
      BY HostFields DEF ResourcesHaveOneOwner, Peers, Instance
    <3>4. CASE r.bytes <= old.bytes
      <4>1. Within(host.regions, old.base, r.bytes)
        BY <1>4, <1>6, <3>1, <3>2, <3>4, SMTT(60) DEF Fits, Within
      <4>2. ASSUME NEW p \in Peers(host.instances, id)
            PROVE  ~Overlap(old.base, r.bytes, host.instances[p])
        BY <1>4, <1>6, <3>1, <3>3, <3>4, SMTT(60) DEF Fits, Overlap
      <4> QED
        BY <3>1, <4>1, <4>2
    <3>5. CASE ~(r.bytes <= old.bytes)
      BY <3>1, <3>5
      DEF UpdateMemoryFits, Observe, Snapshot, PoolView, Within, InRegion, old
    <3> QED
      BY <3>4, <3>5
  <2> QED
    BY <2>1, <2>2
<1>11. new \in Instance
  BY <1>4, <1>7, <1>8, <1>9, <1>10 DEF Instance
<1>12. Fits(id, new)
  BY <1>4, <1>5, <1>8, <1>9, <1>10 DEF Fits
<1> QED
  BY <1>1, <1>2, <1>11, <1>12, ReplaceLemma

(* An accepted load, start, stop or unload changes nothing but the state of one instance. *)
LEMMA StatePreserves ==
  ASSUME ResourcesHaveOneOwner, NEW r \in StateRequests, ChangeState(r)
  PROVE  /\ ResourcesHaveOneOwner'
         /\ r.id \in Present(host.instances)
         /\ host' = WithInstance(host, r.id,
                      [host.instances[r.id] EXCEPT !.state = Reached(r.op)])
<1> DEFINE old == host.instances[r.id]
           new == [old EXCEPT !.state = Reached(r.op)]
<1>1. r.id \in InstanceIds /\ r.op \in {"load", "start", "stop", "unload"}
  BY DEF StateRequests
<1>2. old # None /\ host' = WithInstance(host, r.id, new)
  BY DEF ChangeState, StateOutcome, PlanState, RequireState, Observe, Snapshot
<1>3. r.id \in Present(host.instances)
  BY <1>1, <1>2, HostFields DEF ResourcesHaveOneOwner
<1>4. old \in Instance /\ Fits(r.id, old)
  BY <1>3, PresentFits
<1>5. Reached(r.op) \in {"Ready", "Loaded", "Active"}
  BY <1>1 DEF Reached
<1>6. new \in Instance
  BY <1>4, <1>5 DEF Instance
<1>7. /\ new.name = old.name /\ new.cpus = old.cpus /\ new.base = old.base
      /\ new.bytes = old.bytes /\ new.devices = old.devices
  BY <1>4 DEF Instance
<1> HIDE DEF new, old
<1>8. Fits(r.id, new)
  BY <1>4, <1>7 DEF Fits
<1>9. ResourcesHaveOneOwner'
  BY <1>1, <1>2, <1>6, <1>8, ReplaceLemma
<1> QED
  BY <1>2, <1>3, <1>9 DEF new, old

(***************************************************************************)
(* A deleted instance gives its devices back to the pool; its CPUs and     *)
(* memory never left it.                                                   *)
(***************************************************************************)
LEMMA DeletePreserves ==
  ASSUME ResourcesHaveOneOwner, NEW r \in DeleteRequests, DeleteInstance(r)
  PROVE  ResourcesHaveOneOwner'
<1> DEFINE id == r.id
<1>0. /\ HostTypeOK /\ CpuOwnership /\ MemoryOwnership /\ DeviceOwnership
      /\ IdentityIsUnique
  BY DEF ResourcesHaveOneOwner
<1>1. id \in InstanceIds
  BY DEF DeleteRequests
<1>2. host.instances[id] # None /\ host' = WithInstance(host, id, None)
  BY DEF DeleteInstance, DeleteOutcome, PlanState, RequireState, Observe, Snapshot
<1>3. id \in Present(host.instances)
  BY <1>0, <1>1, <1>2, HostFields
<1> HIDE DEF id
<1>4. /\ HostTypeOK'
      /\ host'.cpus = host.cpus /\ host'.regions = host.regions
      /\ host'.instances[id] = None
      /\ \A p \in InstanceIds \ {id} : host'.instances[p] = host.instances[p]
      /\ host'.devices = host.devices \cup host.instances[id].devices
  BY <1>0, <1>1, <1>2, WithInstanceLemma
<1>5. Present(host'.instances) = {i \in InstanceIds : host'.instances[i] # None}
  BY <1>4 DEF HostTypeOK, Host, Present
<1>6. ASSUME NEW i \in Present(host'.instances)
      PROVE  /\ i \in Present(host.instances) /\ id \in Peers(host.instances, i)
             /\ host'.instances[i] = host.instances[i]
  BY <1>0, <1>3, <1>4, <1>5, HostFields DEF Peers
<1>7. ASSUME NEW i \in Present(host'.instances), NEW p \in Peers(host'.instances, i)
      PROVE  /\ p \in Peers(host.instances, i)
             /\ host'.instances[p] = host.instances[p]
  BY <1>6, <1>7 DEF Peers
<1>8. CpuOwnership'
  BY <1>0, <1>4, <1>6, <1>7, SMTT(60) DEF CpuOwnership
<1>9. MemoryOwnership'
  BY <1>0, <1>4, <1>6, <1>7 DEF MemoryOwnership, Within, Overlap
<1>10. DeviceOwnership'
  BY <1>0, <1>4, <1>6, <1>7, SMTT(60) DEF DeviceOwnership, GroupMembers
<1>11. IdentityIsUnique'
  BY <1>0, <1>4, <1>6, <1>7, SMTT(60) DEF IdentityIsUnique, ValidId
<1> QED
  BY <1>4, <1>8, <1>9, <1>10, <1>11 DEF ResourcesHaveOneOwner

(***************************************************************************)
(* A pool change keeps every CPU an instance holds, by its plan, and every *)
(* region an instance lies in, by the kernel.                              *)
(***************************************************************************)
LEMMA PoolPreserves ==
  ASSUME ResourcesHaveOneOwner, NEW r \in PoolRequests, ResizePool(r)
  PROVE  /\ ResourcesHaveOneOwner'
         /\ host'.instances = host.instances
         /\ AssignedCpus(host.instances) \subseteq host'.cpus
<1>0. /\ HostTypeOK /\ CpuOwnership /\ MemoryOwnership /\ DeviceOwnership
      /\ IdentityIsUnique
  BY DEF ResourcesHaveOneOwner
<1>1. r.cpus \in Seq(Cpus)
  BY PlacementAssumption DEF PoolRequests
<1>2. AssignedCpus(host.instances) \subseteq Elements(r.cpus)
  BY DEF ResizePool, PlanPool, Observe, Snapshot
<1>3. PICK layout \in LayoutsFor(r, host) \cup {host.regions} :
        host' = [host EXCEPT !.cpus = Elements(r.cpus), !.regions = layout]
  BY DEF ResizePool, PoolOutcomes
<1>4. /\ layout \in Layouts
      /\ \A p \in Present(host.instances) :
           Within(layout, host.instances[p].base, host.instances[p].bytes)
  BY <1>0, HostFields DEF LayoutsFor, MemoryOwnership
<1>5. Elements(r.cpus) \subseteq Cpus
  BY <1>1, ElementsLemma
<1>6. /\ HostTypeOK'
      /\ host'.cpus = Elements(r.cpus) /\ host'.regions = layout
      /\ host'.devices = host.devices /\ host'.instances = host.instances
  BY <1>0, <1>3, <1>4, <1>5 DEF HostTypeOK, Host
<1>7. CpuOwnership'
  <2>1. \A i \in Present(host.instances) :
          host.instances[i].cpus \subseteq AssignedCpus(host.instances)
    BY DEF AssignedCpus
  <2>2. \A i \in Present(host.instances) : host.instances[i].cpus \subseteq host'.cpus
    BY <1>2, <1>6, <2>1
  <2> QED
    BY <1>0, <1>6, <2>2 DEF CpuOwnership
<1>8. MemoryOwnership'
  BY <1>0, <1>4, <1>6 DEF MemoryOwnership, Within, Overlap
<1>9. DeviceOwnership'
  BY <1>0, <1>6 DEF DeviceOwnership, GroupMembers
<1>10. IdentityIsUnique'
  BY <1>0, <1>6, SMTT(60) DEF IdentityIsUnique, ValidId
<1> QED
  BY <1>2, <1>6, <1>7, <1>8, <1>9, <1>10 DEF ResourcesHaveOneOwner

(***************************************************************************)
(* Ownership holds in every state that accepted requests can reach.        *)
(***************************************************************************)
THEOREM OneOwner == PlacementSpec => []ResourcesHaveOneOwner
<1>1. PlacementInit => ResourcesHaveOneOwner
  <2> SUFFICES ASSUME PlacementInit PROVE ResourcesHaveOneOwner
    OBVIOUS
  <2>1. PICK devices \in SUBSET Devices :
          host = [cpus |-> {}, regions |-> {}, devices |-> devices,
                  instances |-> [id \in InstanceIds |-> None]]
    BY DEF PlacementInit
  <2>2. HostTypeOK
    BY <2>1, PlacementAssumption DEF HostTypeOK, Host
  <2>3. Present(host.instances) = {}
    BY <2>1 DEF Present
  <2> QED
    BY <2>2, <2>3
    DEF ResourcesHaveOneOwner, CpuOwnership, MemoryOwnership, DeviceOwnership, IdentityIsUnique
<1>2. ResourcesHaveOneOwner /\ [PlacementNext]_host => ResourcesHaveOneOwner'
  <2> SUFFICES ASSUME ResourcesHaveOneOwner, [PlacementNext]_host PROVE ResourcesHaveOneOwner'
    OBVIOUS
  <2>1. ASSUME NEW r \in CreateRequests, CreateInstance(r) PROVE ResourcesHaveOneOwner'
    BY <2>1, CreatePreserves
  <2>2. ASSUME NEW r \in UpdateRequests, UpdateInstance(r) PROVE ResourcesHaveOneOwner'
    BY <2>2, UpdatePreserves
  <2>3. ASSUME NEW r \in StateRequests, ChangeState(r) PROVE ResourcesHaveOneOwner'
    BY <2>3, StatePreserves
  <2>4. ASSUME NEW r \in DeleteRequests, DeleteInstance(r) PROVE ResourcesHaveOneOwner'
    BY <2>4, DeletePreserves
  <2>5. ASSUME NEW r \in PoolRequests, ResizePool(r) PROVE ResourcesHaveOneOwner'
    BY <2>5, PoolPreserves
  <2>6. CASE UNCHANGED host
    <3>1. HostTypeOK' /\ CpuOwnership'
      BY <2>6 DEF ResourcesHaveOneOwner, HostTypeOK, CpuOwnership
    <3>2. MemoryOwnership'
      BY <2>6 DEF ResourcesHaveOneOwner, MemoryOwnership
    <3>3. DeviceOwnership' /\ IdentityIsUnique'
      BY <2>6, SMTT(60) DEF ResourcesHaveOneOwner, DeviceOwnership, IdentityIsUnique
    <3> QED
      BY <3>1, <3>2, <3>3 DEF ResourcesHaveOneOwner
  <2> QED
    BY <2>1, <2>2, <2>3, <2>4, <2>5, <2>6 DEF PlacementNext
<1> QED
  BY <1>1, <1>2, PTL DEF PlacementSpec

(***************************************************************************)
(* No accepted request takes a resource from a loaded or running instance. *)
(***************************************************************************)
THEOREM RunningInstancesKeep == PlacementSpec => RunningInstancesKeepResources
<1> DEFINE Kept(i) ==
      /\ host'.instances[i] # None
      /\ [host'.instances[i] EXCEPT !.state = host.instances[i].state]
           = host.instances[i]
      /\ host.instances[i].cpus \subseteq host'.cpus
<1>1. ASSUME ResourcesHaveOneOwner, PlacementNext,
             NEW i \in Present(host.instances), host.instances[i].state # "Ready"
      PROVE  Kept(i)
  <2>0. HostTypeOK /\ host.instances[i].cpus \subseteq host.cpus
    BY <1>1 DEF ResourcesHaveOneOwner, CpuOwnership
  <2>1. /\ i \in InstanceIds /\ host.instances[i] \in Instance
        /\ host.instances[i] # None
    BY <2>0, HostFields
  <2>2. [host.instances[i] EXCEPT !.state = host.instances[i].state]
          = host.instances[i]
    BY <2>1 DEF Instance
  <2>3. ASSUME NEW id \in InstanceIds, id # i, NEW new \in Instance \cup {None},
               host' = WithInstance(host, id, new)
        PROVE  Kept(i)
    <3>1. host'.cpus = host.cpus /\ host'.instances[i] = host.instances[i]
      BY <2>0, <2>1, <2>3, WithInstanceLemma, SMTT(60)
    <3> QED
      BY <2>0, <2>1, <2>2, <3>1
  <2>4. ASSUME NEW r \in CreateRequests, CreateInstance(r) PROVE Kept(i)
    <3>1. r.id \in InstanceIds /\ r.id # i
      BY <2>1, <2>4 DEF CreateRequests, CreateInstance, PlanCreate, Observe, Snapshot
    <3>2. PICK base \in FreeBases(host, r.bytes) :
            host' = WithInstance(host, r.id, Created(r, base))
      BY <2>4 DEF CreateInstance, CreateOutcomes
    <3>3. Created(r, base) \in Instance
      <4>1. base \in Nat
        BY PlacementAssumption, SMTT(60) DEF FreeBases
      <4>2. r.cpus \in Seq(Cpus) /\ r.name \in Names /\ r.bytes \in Nat
        BY PlacementAssumption DEF CreateRequests
      <4> QED
        BY <4>1, <4>2, ElementsLemma DEF Created, Instance
    <3> QED
      BY <2>3, <3>1, <3>2, <3>3
  <2>5. ASSUME NEW r \in UpdateRequests, UpdateInstance(r) PROVE Kept(i)
    <3>1. r.id \in InstanceIds /\ r.id # i
      BY <1>1, <2>5
      DEF UpdateRequests, UpdateInstance, PlanUpdate, RequireState, Observe, Snapshot
    <3>2. host' = WithInstance(host, r.id, Updated(r, host.instances[r.id]))
      BY <2>5 DEF UpdateInstance, UpdateOutcome
    <3>3. host'.cpus = host.cpus /\ host'.instances[i] = host.instances[i]
      BY <2>0, <2>1, <3>1, <3>2 DEF WithInstance, HostTypeOK, Host
    <3> QED
      BY <2>0, <2>1, <2>2, <3>3
  <2>6. ASSUME NEW r \in StateRequests, ChangeState(r) PROVE Kept(i)
    <3> DEFINE new == [host.instances[r.id] EXCEPT !.state = Reached(r.op)]
    <3>1. r.id \in Present(host.instances) /\ host' = WithInstance(host, r.id, new)
      BY <1>1, <2>6, StatePreserves
    <3>2. r.id \in InstanceIds /\ host.instances[r.id] \in Instance
      BY <2>0, <3>1, HostFields
    <3>3. new \in Instance
      BY <2>6, <3>2 DEF Instance, Reached, StateRequests
    <3>4. CASE r.id = i
      <4>1. host'.cpus = host.cpus /\ host'.instances[i] = new
        BY <2>0, <3>1, <3>2, <3>3, <3>4, WithInstanceLemma, SMTT(60)
      <4>2. [new EXCEPT !.state = host.instances[i].state] = host.instances[i]
        BY <3>2, <3>4 DEF Instance
      <4> QED
        BY <2>0, <3>3, <4>1, <4>2, NoneAssumption
    <3>5. CASE r.id # i
      BY <2>3, <3>1, <3>2, <3>3, <3>5
    <3> QED
      BY <3>4, <3>5
  <2>7. ASSUME NEW r \in DeleteRequests, DeleteInstance(r) PROVE Kept(i)
    <3>1. r.id \in InstanceIds /\ r.id # i
      BY <1>1, <2>7
      DEF DeleteRequests, DeleteInstance, PlanState, RequireState, Required,
          Observe, Snapshot
    <3>2. host' = WithInstance(host, r.id, None)
      BY <2>7 DEF DeleteInstance, DeleteOutcome
    <3> QED
      BY <2>3, <3>1, <3>2
  <2>8. ASSUME NEW r \in PoolRequests, ResizePool(r) PROVE Kept(i)
    <3>1. /\ host'.instances = host.instances
          /\ AssignedCpus(host.instances) \subseteq host'.cpus
      BY <1>1, <2>8, PoolPreserves
    <3>2. host.instances[i].cpus \subseteq AssignedCpus(host.instances)
      BY DEF AssignedCpus
    <3> QED
      BY <2>1, <2>2, <3>1, <3>2
  <2> QED
    BY <1>1, <2>4, <2>5, <2>6, <2>7, <2>8 DEF PlacementNext
<1>2. ResourcesHaveOneOwner /\ [PlacementNext]_host
        => [\A i \in Present(host.instances) :
              host.instances[i].state # "Ready" => Kept(i)]_host
  BY <1>1
<1> QED
  BY <1>2, OneOwner, PTL DEF RunningInstancesKeepResources, PlacementSpec

-----------------------------------------------------------------------------
(* Kerf beside the plans: what HostControl needs to know of a command that *)
(* runs when the kernel lets it.                                           *)

(***************************************************************************)
(* What Kerf makes of a well-formed host (Apply) is well formed, planned   *)
(* or not.                                                                 *)
(***************************************************************************)
LEMMA ApplyType ==
  ASSUME HostTypeOK, NEW r \in Requests, Applicable(r), host' \in Apply(r, host)
  PROVE  HostTypeOK'
<1>1. CASE r \in CreateRequests
  <2>1. /\ r.op = "create" /\ r.id \in InstanceIds /\ r.name \in Names
        /\ r.cpus \in Seq(Cpus) /\ r.bytes \in Nat
    BY <1>1, PlacementAssumption, ZenonT(60) DEF CreateRequests
  <2>2. PICK base \in FreeBases(host, r.bytes) :
          host' = WithInstance(host, r.id, Created(r, base))
    BY <2>1 DEF Apply, CreateOutcomes
  <2>3. base \in Nat
    BY PlacementAssumption, SMTT(60) DEF FreeBases
  <2>4. Elements(r.cpus) \subseteq Cpus
    BY <2>1, ElementsLemma
  <2>5. Created(r, base) \in Instance
    BY <2>1, <2>3, <2>4 DEF Created, Instance
  <2> QED
    BY <2>1, <2>2, <2>5, WithInstanceLemma
<1>2. CASE r \in UpdateRequests
  <2> DEFINE old == host.instances[r.id]
             cpus == IF r.cpus = None THEN old.cpus ELSE Elements(r.cpus)
             bytes == Or(r.bytes, old.bytes)
             devices == IF r.devices = None THEN old.devices ELSE Elements(r.devices)
  <2>1. /\ r.op = "update" /\ r.id \in InstanceIds
        /\ r.cpus \in CpuLists \cup {None} /\ r.bytes \in Sizes \cup {None}
        /\ r.devices \in DeviceLists \cup {None}
    BY <1>2 DEF UpdateRequests
  <2>2. old # None
    BY <2>1 DEF Applicable, RequireState
  <2>3. old \in Instance
    BY <2>1, <2>2, HostFields
  <2>4. cpus \in SUBSET Cpus
    BY <2>1, <2>3, ElementsLemma, PlacementAssumption, SMTT(60) DEF Instance
  <2>5. bytes \in Nat
    BY <2>1, <2>3, PlacementAssumption, ZenonT(60) DEF Instance, Or
  <2>6. devices \in SUBSET Devices
    BY <2>1, <2>3, ElementsLemma, PlacementAssumption, SMTT(60) DEF Instance
  <2>7. Updated(r, old) = [old EXCEPT !.cpus = cpus, !.bytes = bytes, !.devices = devices]
    BY DEF Updated
  <2>8. host' = WithInstance(host, r.id, Updated(r, old))
    BY <2>1 DEF Apply, UpdateOutcome
  <2> HIDE DEF old, cpus, bytes, devices
  <2>9. Updated(r, old) \in Instance
    BY <2>3, <2>4, <2>5, <2>6, <2>7, ZenonT(60) DEF Instance
  <2> QED
    BY <2>1, <2>8, <2>9, WithInstanceLemma
<1>3. CASE r \in StateRequests
  <2> DEFINE old == host.instances[r.id]
             new == [old EXCEPT !.state = Reached(r.op)]
  <2>1. r.op \in {"load", "start", "stop", "unload"} /\ r.id \in InstanceIds
    BY <1>3 DEF StateRequests
  <2>2. RequireState(host, r.id, Required(r.op))
    BY <2>1 DEF Applicable
  <2>3. old \in Instance
    BY <2>1, <2>2, HostFields DEF RequireState
  <2>4. Reached(r.op) \in {"Ready", "Loaded", "Active"}
    BY <2>1 DEF Reached
  <2>5. host' = WithInstance(host, r.id, new)
    BY <2>1 DEF Apply, StateOutcome
  <2> HIDE DEF old
  <2>6. new \in Instance
    BY <2>3, <2>4 DEF Instance
  <2> QED
    BY <2>1, <2>5, <2>6, WithInstanceLemma
<1>4. CASE r \in DeleteRequests
  <2>1. r.op = "delete" /\ r.id \in InstanceIds
    BY <1>4 DEF DeleteRequests
  <2>2. host' = WithInstance(host, r.id, None)
    BY <2>1 DEF Apply, DeleteOutcome
  <2> QED
    BY <2>1, <2>2, WithInstanceLemma
<1>5. CASE r \in PoolRequests
  <2>1. r.op = "pool" /\ r.cpus \in Seq(Cpus)
    BY <1>5, PlacementAssumption DEF PoolRequests
  <2>2. PICK layout \in LayoutsFor(r, host) \cup {host.regions} :
          host' = [host EXCEPT !.cpus = Elements(r.cpus), !.regions = layout]
    BY <2>1, ZenonT(60) DEF Apply, PoolOutcomes
  <2>3. layout \in Layouts
    BY HostFields DEF LayoutsFor
  <2>4. Elements(r.cpus) \subseteq Cpus
    BY <2>1, ElementsLemma
  <2> QED
    BY <2>2, <2>3, <2>4, ZenonT(60) DEF HostTypeOK, Host
<1> QED
  BY <1>1, <1>2, <1>3, <1>4, <1>5 DEF Requests

(***************************************************************************)
(* What Kerf does to a host that a request's plan accepts (Plan, Apply) is *)
(* a step of the lifecycle specification.                                  *)
(***************************************************************************)
LEMMA PlannedStep ==
  ASSUME NEW r \in Requests, Plan(r, Observe(host)), MutatesKernel(r),
         host' \in Apply(r, host)
  PROVE  PlacementNext
<1>1. CASE r \in CreateRequests
  <2>1. r.op = "create"
    BY <1>1 DEF CreateRequests
  <2>2. PlanCreate(r, Observe(host)) /\ host' \in CreateOutcomes(r, host)
    BY <2>1 DEF Plan, Apply
  <2> QED
    BY <1>1, <2>2 DEF PlacementNext, CreateInstance
<1>2. CASE r \in UpdateRequests
  <2>1. r.op = "update"
    BY <1>2 DEF UpdateRequests
  <2>2. PlanUpdate(r, Observe(host)) /\ host' = UpdateOutcome(r, host)
    BY <2>1 DEF Plan, Apply
  <2> QED
    BY <1>2, <2>2 DEF PlacementNext, UpdateInstance
<1>3. CASE r \in StateRequests
  <2>1. r.op \in {"load", "start", "stop", "unload"}
    BY <1>3 DEF StateRequests
  <2>2. PlanState(r, Observe(host)) /\ host' = StateOutcome(r, host)
    BY <2>1 DEF Plan, Apply
  <2> QED
    BY <1>3, <2>2 DEF PlacementNext, ChangeState
<1>4. CASE r \in DeleteRequests
  <2>1. r.op = "delete"
    BY <1>4 DEF DeleteRequests
  <2>2. PlanState(r, Observe(host)) /\ host' = DeleteOutcome(r, host)
    BY <2>1 DEF Plan, Apply
  <2> QED
    BY <1>4, <2>2 DEF PlacementNext, DeleteInstance
<1>5. CASE r \in PoolRequests
  <2>1. r.op = "pool"
    BY <1>5 DEF PoolRequests
  <2>2. PlanPool(r, Observe(host)) /\ host' \in PoolOutcomes(r, host)
    BY <2>1 DEF Plan, Apply
  <2> QED
    BY <1>5, <2>2 DEF PlacementNext, ResizePool
<1> QED
  BY <1>1, <1>2, <1>3, <1>4, <1>5 DEF Requests
=============================================================================
