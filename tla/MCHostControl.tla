--------------------------- MODULE MCHostControl ---------------------------
(* Constant values for model-checking HostControl: a pool with two CPUs    *)
(* and one region in which instance 1 lives; clients that create a second  *)
(* instance, change the first, or shrink the pool.                         *)
EXTENDS HostControl, TLC

CONSTANTS c1, c2

MCCpuLists == {<<c1>>, <<c2>>, <<c1, c2>>}
MCLayouts == {{}, {[base |-> 0, bytes |-> 2]}}
MCIommuGroup == <<>>

One(state) ==
  [name |-> "a", state |-> state, cpus |-> {c1}, base |-> 0, bytes |-> 1,
   devices |-> {}]
HostWith(state) ==
  [cpus |-> {c1, c2}, regions |-> {[base |-> 0, bytes |-> 2]}, devices |-> {},
   instances |-> (1 :> One(state)) @@ (2 :> None)]
MCHosts == {HostWith("Ready")}

CreateSecond ==
  [op |-> "create", id |-> 2, name |-> "b", cpus |-> <<c2>>, bytes |-> 1]
Update(cpus, dry_run) ==
  [op |-> "update", id |-> 1, cpus |-> cpus, bytes |-> None, devices |-> None,
   dry_run |-> dry_run]
Load   == [op |-> "load", id |-> 1]
Delete == [op |-> "delete", id |-> 1]
Shrink == [op |-> "pool", cpus |-> <<c1>>, bytes |-> 2]

SerialWorkload ==
  {CreateSecond, Update(<<c2>>, FALSE), Update(<<c1, c2>>, TRUE), Load, Delete}
ConflictingWorkload == {CreateSecond, Update(<<c2>>, FALSE), Shrink}
MixedWorkload == ConflictingWorkload \cup {Update(<<c2>>, TRUE)}

JobSymmetry == Permutations(Jobs)
=============================================================================
