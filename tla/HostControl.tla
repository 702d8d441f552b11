----------------------------- MODULE HostControl -----------------------------
(***************************************************************************)
(* One mutation from the snapshot its client read to its recorded result:  *)
(* the lifecycle and the resource-pool executor (lifecycle_executor.rs,    *)
(* resource_pool.rs), the Kerf runner each of them owns, and the inventory *)
(* service they share with every reader (inventory.rs).                    *)
(*                                                                         *)
(* A job is one client's exchange: read a snapshot, submit a request with  *)
(* its generation, preflight, Kerf, postflight.  What runs concurrently:   *)
(*   - the two executors, each behind its own lock;                        *)
(*   - Kerf processes, which change the kernel at any moment of their life,*)
(*     also after the daemon stopped waiting for them;                     *)
(*   - inventory probes, which read the pool first and the instances one   *)
(*     by one later, and hold the inventory's lock meanwhile;              *)
(*   - a restart of the daemon, which forgets everything but the kernel's  *)
(*     state and the Kerf processes still alive.                           *)
(*                                                                         *)
(* Left out: cancellation and the operation record (Scheduler), sysfs      *)
(* transactions, and topology as a third separate read.                    *)
(***************************************************************************)
EXTENDS Lifecycle

CONSTANTS
  Jobs,
  Workload,       \* requests clients may submit
  Hosts,          \* kernel states the daemon may find when it starts
  Faults,         \* faults that may happen, of AllFaults
  MaxRestarts     \* bound: restarts of the daemon

AllFaults == {"kerf_timeout", "kerf_spawn", "probe"}

Views ==
  [cpus : SUBSET Cpus, available : SUBSET Cpus, regions : Layouts,
   devices : SUBSET Devices, available_devices : SUBSET Devices,
   instances : [InstanceIds -> Instance \cup {None}], topology : SUBSET Cpus]

Snapshots == [generation : Nat, view : Views]

Probes ==
  [job : Jobs,
   pool : [cpus : SUBSET Cpus, available : SUBSET Cpus, regions : Layouts,
           devices : SUBSET Devices],
   instances : [InstanceIds -> Instance \cup {None}],
   topology : SUBSET Cpus]

Processes == [job : Jobs, applied : BOOLEAN]

Results ==
  [kind : {"rejected", "outcome"}, state : {"Succeeded", "Failed", "Indeterminate"},
   generation : Nat \cup {None}]

ASSUME ControlAssumption ==
  /\ Workload \subseteq Requests
  /\ Hosts \subseteq Host
  /\ Faults \subseteq AllFaults
  /\ MaxRestarts \in Nat
  /\ None \notin Workload \cup Snapshots \cup Probes \cup Processes \cup Results
  /\ None \notin {"ok", "failed", "timeout", "outlived"}

VARIABLES
  current,     \* the inventory's last good snapshot: [generation, view] or None
  probe,       \* the probe under way, holding the inventory's lock, or None
  hung,        \* a timed-out probe that has not died yet
  step,        \* where each job stands
  saw,         \* the snapshot each job's client read
  request,     \* what each job asks for
  kerf,        \* the live Kerf process of each runner, or None
  orphans,     \* requests of Kerf processes that outlived their daemon
  process,     \* what became of each job's Kerf process: None, the runner's
               \* result, or "outlived" if the runner or the daemon was gone
               \* before it
  result,      \* the recorded outcome of each job
  restarts

inventoryVars == <<current, probe, hung>>
jobVars       == <<step, saw, request, process, result>>
vars          == <<host, inventoryVars, jobVars, kerf, orphans, restarts>>

Executors == {"lifecycle", "pool"}

Executor(r) == IF r.op = "pool" THEN "pool" ELSE "lifecycle"

Steps == {"start", "seen", "queued", "preflight", "invoking", "running",
          "postflight", "done", "lost"}

InExecutor == {"preflight", "invoking", "running", "postflight"}

Busy(e) == \E j \in Jobs : step[j] \in InExecutor /\ Executor(request[j]) = e

Result(kind, state, generation) ==
  [kind |-> kind, state |-> state, generation |-> generation]

Rejected == Result("rejected", "Failed", None)

Init ==
  /\ host \in Hosts
  /\ current = None
  /\ probe = None
  /\ hung = FALSE
  /\ step = [j \in Jobs |-> "start"]
  /\ saw = [j \in Jobs |-> None]
  /\ request = [j \in Jobs |-> None]
  /\ kerf = [e \in Executors |-> None]
  /\ orphans = {}
  /\ process = [j \in Jobs |-> None]
  /\ result = [j \in Jobs |-> None]
  /\ restarts = 0

-----------------------------------------------------------------------------
(* Inventory.                                                              *)

\* Mutant: a changed view keeps its generation too.
Published_SameGeneration(view) ==
  [generation |-> IF current = None THEN 1 ELSE current.generation, view |-> view]

\* `refresh` after a good observation: an unchanged view keeps its generation.
Published(view) ==
  IF current = None THEN [generation |-> 1, view |-> view]
  ELSE IF current.view = view THEN current
  ELSE [generation |-> current.generation + 1, view |-> view]

\* `read_instances`: each directory is read before or after a change that
\* happened since the pool was read.
ProbedView(early) ==
  Snapshot(probe.pool,
           [i \in InstanceIds |-> IF i \in early THEN probe.instances[i]
                                                 ELSE host.instances[i]],
           probe.topology)

Refreshing == {"start", "preflight", "postflight"}

\* A probe child is spawned, unless the previous one is still alive.
BeginProbe(j) ==
  /\ step[j] \in Refreshing
  /\ probe = None
  /\ ~hung
  /\ probe' = [job |-> j, pool |-> PoolView(host), instances |-> host.instances,
               topology |-> Cpus \ host.cpus]
  /\ UNCHANGED <<host, current, hung, jobVars, kerf, orphans, restarts>>

\* A snapshot as `refresh` returns it: `healthy` unless the probe failed.
Healthy(snapshot)   == [healthy |-> TRUE, snapshot |-> snapshot]
Unhealthy(snapshot) == [healthy |-> FALSE, snapshot |-> snapshot]

-----------------------------------------------------------------------------
(* What a job does with a refreshed snapshot.                              *)

Enter(j, next) == step' = [step EXCEPT ![j] = next]

Record(j, outcome) ==
  /\ result' = [result EXCEPT ![j] = outcome]
  /\ Enter(j, "done")

\* A GET: any snapshot is returned, also a stale one; without one the read
\* fails and the client may try again.
ReadSnapshot(j, refreshed) ==
  /\ step[j] = "start"
  /\ saw' = [saw EXCEPT ![j] = refreshed.snapshot]
  /\ Enter(j, IF refreshed.snapshot = None THEN "start" ELSE "seen")
  /\ UNCHANGED <<request, process, result>>

\* The head of `execute`: health, generation and plan.
Preflight(j, refreshed) ==
  /\ step[j] = "preflight"
  /\ IF /\ refreshed.healthy
        /\ refreshed.snapshot.generation = saw[j].generation
        /\ Plan(request[j], refreshed.snapshot.view)
       THEN Enter(j, "invoking") /\ UNCHANGED result
       ELSE Record(j, Rejected)
  /\ UNCHANGED <<saw, request, process>>

\* What both executors make of a refreshed snapshot.
Outcome(refreshed, reached) ==
  Result("outcome",
         IF ~refreshed.healthy THEN "Indeterminate"
         ELSE IF reached THEN "Succeeded" ELSE "Failed",
         refreshed.snapshot.generation)

\* Mutant: Kerf's exit code decides.
Reconciled_TrustsExitCode(j, refreshed) == Outcome(refreshed, process[j] = "ok")

\* A dry run is judged by its exit code.
Reconciled(j, refreshed) ==
  Outcome(refreshed,
          IF MutatesKernel(request[j])
            THEN ExpectedObserved(request[j], refreshed.snapshot.view)
            ELSE process[j] = "ok")

Postflight(j, refreshed) ==
  /\ step[j] = "postflight"
  /\ Record(j, IF refreshed.snapshot = None THEN Rejected ELSE Reconciled(j, refreshed))
  /\ UNCHANGED <<saw, request, process>>

Continue(j, refreshed) ==
  ReadSnapshot(j, refreshed) \/ Preflight(j, refreshed) \/ Postflight(j, refreshed)

-----------------------------------------------------------------------------

\* The probe ends well: its observations are published, the lock released.
EndProbe(j) ==
  /\ probe # None
  /\ probe.job = j
  /\ \E early \in SUBSET InstanceIds : current' = Published(ProbedView(early))
  /\ probe' = None
  /\ Continue(j, Healthy(current'))
  /\ UNCHANGED <<host, hung, kerf, orphans, restarts>>

\* Mutant: the inventory's lock stays taken.
FailProbe_KeepsLock(j) ==
  /\ "probe" \in Faults
  /\ probe # None
  /\ probe.job = j
  /\ hung' \in BOOLEAN
  /\ Continue(j, Unhealthy(current))
  /\ UNCHANGED <<host, current, probe, kerf, orphans, restarts>>

\* Mutant: the good snapshot is given up with the failed one.
FailProbe_Forgets(j) ==
  /\ "probe" \in Faults
  /\ probe # None
  /\ probe.job = j
  /\ probe' = None
  /\ hung' \in BOOLEAN
  /\ current' = None
  /\ Continue(j, Unhealthy(None))
  /\ UNCHANGED <<host, kerf, orphans, restarts>>

\* It fails, or outlives its deadline and may stay behind after the kill.
FailProbe(j) ==
  /\ "probe" \in Faults
  /\ probe # None
  /\ probe.job = j
  /\ probe' = None
  /\ hung' \in BOOLEAN
  /\ Continue(j, Unhealthy(current))
  /\ UNCHANGED <<host, current, kerf, orphans, restarts>>

\* `PreviousProbeHung`.
RefuseProbe(j) ==
  /\ step[j] \in Refreshing
  /\ probe = None
  /\ hung
  /\ Continue(j, Unhealthy(current))
  /\ UNCHANGED <<host, inventoryVars, kerf, orphans, restarts>>

ProbeDies ==
  /\ hung
  /\ hung' = FALSE
  /\ UNCHANGED <<host, current, probe, jobVars, kerf, orphans, restarts>>

-----------------------------------------------------------------------------
(* Jobs and Kerf.                                                          *)

Submit(j) ==
  /\ step[j] = "seen"
  /\ \E r \in Workload : request' = [request EXCEPT ![j] = r]
  /\ Enter(j, "queued")
  /\ UNCHANGED <<host, inventoryVars, saw, process, result, kerf, orphans, restarts>>

\* Mutant: two jobs may use one executor.
Acquire_NoLock(j) ==
  /\ step[j] = "queued"
  /\ Enter(j, "preflight")
  /\ UNCHANGED <<host, inventoryVars, saw, request, process, result, kerf,
                 orphans, restarts>>

Acquire(j) ==
  /\ step[j] = "queued"
  /\ ~Busy(Executor(request[j]))
  /\ Enter(j, "preflight")
  /\ UNCHANGED <<host, inventoryVars, saw, request, process, result, kerf,
                 orphans, restarts>>

Returns(j, outcome) ==
  /\ process' = [process EXCEPT ![j] = outcome]
  /\ Enter(j, "postflight")
  /\ UNCHANGED <<saw, request, result>>

SpawnKerf(j) ==
  LET e == Executor(request[j])
  IN  /\ step[j] = "invoking"
      /\ kerf[e] = None
      /\ kerf' = [kerf EXCEPT ![e] = [job |-> j, applied |-> ~MutatesKernel(request[j])]]
      /\ Enter(j, "running")
      /\ UNCHANGED <<host, inventoryVars, saw, request, process, result,
                     orphans, restarts>>

\* `PreviousProcessBlocked`, or the process cannot be started.
SpawnKerfFails(j) ==
  /\ step[j] = "invoking"
  /\ kerf[Executor(request[j])] # None \/ "kerf_spawn" \in Faults
  /\ Returns(j, "failed")
  /\ UNCHANGED <<host, inventoryVars, kerf, orphans, restarts>>

KerfApplies(e) ==
  /\ kerf[e] # None
  /\ ~kerf[e].applied
  /\ Applicable(request[kerf[e].job])
  /\ host' \in Apply(request[kerf[e].job], host)
  /\ kerf' = [kerf EXCEPT ![e].applied = TRUE]
  /\ UNCHANGED <<inventoryVars, jobVars, orphans, restarts>>

\* Its exit code says nothing certain about what it applied.
KerfExits(j) ==
  LET e == Executor(request[j])
  IN  /\ step[j] = "running"
      /\ kerf' = [kerf EXCEPT ![e] = None]
      /\ \E outcome \in {"ok", "failed"} : Returns(j, outcome)
      /\ UNCHANGED <<host, inventoryVars, orphans, restarts>>

\* The deadline: a process that does not die at once is left pending.
KerfTimesOut(j) ==
  LET e == Executor(request[j])
  IN  /\ "kerf_timeout" \in Faults
      /\ step[j] = "running"
      /\ \/ kerf' = [kerf EXCEPT ![e] = None] /\ Returns(j, "timeout")
         \/ UNCHANGED kerf /\ Returns(j, "outlived")
      /\ UNCHANGED <<host, inventoryVars, orphans, restarts>>

PendingKerfDies(e) ==
  /\ kerf[e] # None
  /\ step[kerf[e].job] # "running"
  /\ kerf' = [kerf EXCEPT ![e] = None]
  /\ UNCHANGED <<host, inventoryVars, jobVars, orphans, restarts>>

-----------------------------------------------------------------------------
(* The daemon goes down and comes up again.                                *)

Unapplied == {e \in Executors : kerf[e] # None /\ ~kerf[e].applied}

Restart ==
  /\ restarts < MaxRestarts
  /\ restarts' = restarts + 1
  /\ current' = None
  /\ probe' = None
  /\ hung' = FALSE
  /\ step' = [j \in Jobs |-> IF step[j] \in {"start", "seen", "done"}
                               THEN step[j] ELSE "lost"]
  /\ orphans' = orphans \cup {request[kerf[e].job] : e \in Unapplied}
  /\ process' = [j \in Jobs |-> IF \E e \in Unapplied : kerf[e].job = j
                                  THEN "outlived" ELSE process[j]]
  /\ kerf' = [e \in Executors |-> None]
  /\ UNCHANGED <<host, saw, request, result>>

OrphanEnds(r) ==
  /\ r \in orphans
  /\ orphans' = orphans \ {r}
  /\ \/ Applicable(r) /\ host' \in Apply(r, host)
     \/ UNCHANGED host
  /\ UNCHANGED <<inventoryVars, jobVars, kerf, restarts>>

ProbeStep(j) == EndProbe(j) \/ FailProbe(j)

RefreshStep(j) == BeginProbe(j) \/ RefuseProbe(j)

JobStep(j) ==
  \/ Acquire(j)
  \/ SpawnKerf(j)
  \/ SpawnKerfFails(j)
  \/ KerfExits(j)
  \/ KerfTimesOut(j)

Next ==
  \/ \E j \in Jobs : RefreshStep(j) \/ ProbeStep(j) \/ Submit(j) \/ JobStep(j)
  \/ \E e \in Executors : KerfApplies(e) \/ PendingKerfDies(e)
  \/ ProbeDies
  \/ Restart
  \/ \E r \in orphans : OrphanEnds(r)

\* Threads run, a lock that is released again and again is eventually got, and
\* probes and Kerf have deadlines.  Nothing makes a process that is blocked in
\* the kernel die, or a client submit.
Fairness ==
  \A j \in Jobs :
    SF_vars(RefreshStep(j)) /\ WF_vars(ProbeStep(j)) /\ WF_vars(JobStep(j))

Safety == Init /\ [][Next]_vars
Spec   == Safety /\ Fairness

-----------------------------------------------------------------------------

(***************************************************************************)
(* Types of the control state.                                             *)
(***************************************************************************)
TypeOK ==
  /\ HostTypeOK
  /\ current \in Snapshots \cup {None}
  /\ probe \in Probes \cup {None}
  /\ hung \in BOOLEAN
  /\ step \in [Jobs -> Steps]
  /\ saw \in [Jobs -> Snapshots \cup {None}]
  /\ request \in [Jobs -> Workload \cup {None}]
  /\ kerf \in [Executors -> Processes \cup {None}]
  /\ orphans \subseteq Workload
  /\ process \in [Jobs -> {None, "ok", "failed", "timeout", "outlived"}]
  /\ result \in [Jobs -> Results \cup {None}]
  /\ restarts \in 0..MaxRestarts

(***************************************************************************)
(* "operation was rejected before execution" (scheduler.rs) is the truth:  *)
(* a rejected request never reached Kerf.  It is not for the control flow  *)
(* alone: `execute` returns the same error when the refresh after Kerf     *)
(* fails, and what rules that out is that a service that ever published a  *)
(* snapshot keeps it and answers with it.                                  *)
(***************************************************************************)
RejectedNeverRan ==
  \A j \in Jobs :
    result[j] # None /\ result[j].kind = "rejected" => process[j] = None

(***************************************************************************)
(* A runner never has two Kerf processes: one that outlived its deadline   *)
(* is remembered, and no other is started until it is gone.                *)
(***************************************************************************)
OneKerfPerRunner ==
  [][\A e \in Executors :
       kerf[e] # None /\ kerf'[e] # None => kerf'[e].job = kerf[e].job]_vars

(***************************************************************************)
(* A client that follows docs/architecture.md, waiting for the terminal    *)
(* state and then refreshing, finds what it was told: while the inventory  *)
(* is at the generation an operation reports, the snapshot shows the       *)
(* requested result if the operation succeeded and does not if it failed,  *)
(* however Kerf's exit code, deadlines and half-read probes fell.          *)
(***************************************************************************)
Judged(j) ==
  /\ result[j] # None
  /\ result[j].kind = "outcome"
  /\ result[j].state # "Indeterminate"
  /\ MutatesKernel(request[j])

ObservedGenerationShowsResult ==
  \A j \in Jobs :
    Judged(j) /\ current # None /\ result[j].generation = current.generation =>
      (result[j].state = "Succeeded") = ExpectedObserved(request[j], current.view)

(***************************************************************************)
(* Stale automation fails closed: when a request passes preflight, the     *)
(* daemon's picture of the host is the one the client read, not merely one *)
(* with the same number.                                                   *)
(***************************************************************************)
ActsOnWhatClientSaw ==
  [][\A j \in Jobs :
       step[j] = "preflight" /\ step'[j] = "invoking" =>
         current'.view = saw[j].view]_vars

(***************************************************************************)
(* docs/architecture.md: the daemon "validates topology, resource          *)
(* ownership, lifecycle state, [...] and expected generation before        *)
(* invoking Kerf".  Every change Kerf makes to the kernel is one that the  *)
(* plans allow in the state it is made in; so this module implements       *)
(* Lifecycle, and its ownership invariants carry over.                     *)
(***************************************************************************)
MutationsArePlanned == [][PlacementNext]_host

(***************************************************************************)
(* The same within one executor, where it holds: while no job of the other *)
(* executor has been submitted and no Kerf process has outlived the runner *)
(* or the daemon that waited for it, one lock, one preflight and one       *)
(* process at a time keep every change within the plans.  Processes killed *)
(* at their deadline and restarts of the daemon do no harm.                *)
(***************************************************************************)
OneExecutorInCharge ==
  /\ \A i, j \in Jobs :
       request[i] # None /\ request[j] # None => Executor(request[i]) = Executor(request[j])
  /\ \A j \in Jobs : process[j] # "outlived"

ExecutorsActAsPlanned == [][OneExecutorInCharge => PlacementNext]_host

(***************************************************************************)
(* How a job got where it is: what its client read is no newer than the    *)
(* inventory and equal to it at the same generation, an outcome was read   *)
(* off a published snapshot, and nobody who called Kerf lacks one.         *)
(***************************************************************************)
Before(snapshot) ==
  /\ current # None
  /\ snapshot.generation <= current.generation
  /\ snapshot.generation = current.generation => snapshot.view = current.view

JobInv(j) ==
  /\ step[j] \in {"start", "seen"} => request[j] = None
  /\ step[j] \in {"queued"} \cup InExecutor => request[j] # None
  /\ step[j] \in {"seen", "queued"} \cup InExecutor => saw[j] # None
  /\ step[j] \notin {"postflight", "done", "lost"} => process[j] = None
  /\ step[j] # "done" => result[j] = None
  /\ step[j] \in {"invoking", "running", "postflight"} => current # None
  /\ restarts = 0 /\ saw[j] # None => Before(saw[j])
  /\ restarts = 0 /\ result[j] # None /\ result[j].kind = "outcome" =>
       /\ current # None
       /\ result[j].generation \in Nat
       /\ result[j].generation <= current.generation

(***************************************************************************)
(* One executor, no stray process: at most one job is inside, its          *)
(* preflight probe reads one state of the kernel, and from there to Kerf's *)
(* change the kernel stays as it was planned for.                          *)
(***************************************************************************)
InChargeInv ==
  /\ orphans = {}
  /\ \A i, j \in Jobs : step[i] \in InExecutor /\ step[j] \in InExecutor => i = j
  /\ probe # None /\ step[probe.job] = "preflight" =>
       /\ probe.pool = PoolView(host)
       /\ probe.instances = host.instances
       /\ probe.topology = Cpus \ host.cpus
  /\ \A j \in Jobs : step[j] = "invoking" => Plan(request[j], Observe(host))
  /\ \A e \in Executors : kerf[e] # None =>
       /\ step[kerf[e].job] = "running"
       /\ ~kerf[e].applied => /\ Plan(request[kerf[e].job], Observe(host))
                              /\ MutatesKernel(request[kerf[e].job])

\* A runner lets go of a live process only at the deadline, and knows it.
LiveProcessesAreKnown ==
  \A e \in Executors : kerf[e] # None =>
    step[kerf[e].job] = "running" \/ process[kerf[e].job] = "outlived"

(***************************************************************************)
(* The inductive invariant behind the properties of this module: what a    *)
(* job knows, whose probe and whose Kerf process is under way, and what an *)
(* executor that has the host to itself can rely on.                       *)
(***************************************************************************)
ControlInv ==
  /\ TypeOK
  /\ \A j \in Jobs : JobInv(j)
  /\ RejectedNeverRan
  /\ restarts = 0 => ObservedGenerationShowsResult
  /\ probe # None => step[probe.job] \in Refreshing
  /\ \A e \in Executors : kerf[e] # None =>
       /\ request[kerf[e].job] # None
       /\ Executor(request[kerf[e].job]) = e
  /\ LiveProcessesAreKnown
  /\ OneExecutorInCharge => InChargeInv

(***************************************************************************)
(* docs/architecture.md keeps `indeterminate` for when the daemon "could   *)
(* not prove the resulting kernel state"; so a mutation recorded as failed *)
(* has been proved to be without effect, and has none later.               *)
(***************************************************************************)
FailedMutationIsOver ==
  [][\A e \in Executors :
       /\ kerf[e] # None /\ ~kerf[e].applied
       /\ kerf'[e] # None /\ kerf'[e].applied
       => \/ result[kerf[e].job] = None
          \/ result[kerf[e].job].state # "Failed"]_vars

(***************************************************************************)
(* Every submitted request gets an answer, unless the daemon goes down:    *)
(* neither a blocked Kerf, nor a hung probe, nor the two executors waiting *)
(* for the inventory's lock can hold it up for ever.                       *)
(***************************************************************************)
JobsFinish == \A j \in Jobs : step[j] = "queued" ~> step[j] \in {"done", "lost"}
=============================================================================
