-------------------------- MODULE HostControlProofs --------------------------
(***************************************************************************)
(* Proofs about HostControl, for any number of clients, any requests and   *)
(* any combination of faults.                                              *)
(*                                                                         *)
(* ControlInv is inductive.  A step is either about one job (its own row   *)
(* of step, saw, request, process and result), about the inventory, or     *)
(* about a Kerf process; RowStays, OthersStay and StandStill say when the  *)
(* rows of the others stay as they are.                                    *)
(***************************************************************************)
EXTENDS HostControl, LifecycleProofs

\* Most leaves are logic and functions: Zenon is the backend unless one names another.
USE ZenonT(60)

-----------------------------------------------------------------------------
(* Rows: what ControlInv says of one job.                                  *)

Honest(j) == result[j] # None /\ result[j].kind = "rejected" => process[j] = None

Shown(j) ==
  Judged(j) /\ current # None /\ result[j].generation = current.generation =>
    (result[j].state = "Succeeded") = ExpectedObserved(request[j], current.view)

Row(j) == JobInv(j) /\ Honest(j) /\ (restarts = 0 => Shown(j))

\* The inventory moves on: a published snapshot is kept or followed by a later one.
Advances ==
  current # None =>
    /\ current' # None
    /\ current.generation <= current'.generation
    /\ current'.generation = current.generation => current'.view = current.view

\* ControlInv by rows, apart from the processes that are let go of.
RowsInv ==
  /\ TypeOK
  /\ \A j \in Jobs : Row(j)
  /\ probe # None => step[probe.job] \in Refreshing
  /\ \A e \in Executors : kerf[e] # None =>
       /\ request[kerf[e].job] # None
       /\ Executor(request[kerf[e].job]) = e
  /\ OneExecutorInCharge => InChargeInv

LEMMA Rows == ControlInv <=> RowsInv /\ LiveProcessesAreKnown
<1>1. RejectedNeverRan <=> \A j \in Jobs : Honest(j)
  BY DEF RejectedNeverRan, Honest
<1>2. ObservedGenerationShowsResult <=> \A j \in Jobs : Shown(j)
  BY DEF ObservedGenerationShowsResult, Shown
<1> QED
  BY <1>1, <1>2, Zenon DEF ControlInv, RowsInv, Row

\* A row that is not touched stays true while the inventory moves on.
LEMMA RowStays ==
  ASSUME TypeOK, TypeOK', NEW j \in Jobs, Row(j), Advances, restarts' = restarts,
         step'[j] = step[j], saw'[j] = saw[j], request'[j] = request[j],
         process'[j] = process[j], result'[j] = result[j]
  PROVE  Row(j)'
<1>1. /\ saw[j] # None => saw[j] \in Snapshots
      /\ current # None => current \in Snapshots
      /\ current' # None => current' \in Snapshots
  BY DEF TypeOK
<1>2. /\ saw[j] # None => saw[j].generation \in Nat
      /\ current # None => current.generation \in Nat
      /\ current' # None => current'.generation \in Nat
  BY <1>1 DEF Snapshots
<1>3. JobInv(j)'
  <2>1. restarts = 0 /\ saw[j] # None => Before(saw[j])'
    BY <1>2, SMTT(60) DEF Row, JobInv, Before, Advances
  <2>2. restarts = 0 /\ result[j] # None /\ result[j].kind = "outcome" =>
          /\ current' # None
          /\ result[j].generation \in Nat
          /\ result[j].generation <= current'.generation
    BY <1>2, SMTT(60) DEF Row, JobInv, Advances
  <2> QED
    BY <2>1, <2>2 DEF Row, JobInv, Advances, Before
<1>4. Honest(j)'
  BY DEF Row, Honest
<1>5. restarts = 0 => Shown(j)'
  <2> SUFFICES ASSUME restarts = 0, Judged(j), current' # None,
                      result[j].generation = current'.generation
               PROVE  (result[j].state = "Succeeded")
                        = ExpectedObserved(request[j], current'.view)
    BY DEF Shown, Judged
  <2>1. /\ current # None
        /\ result[j].generation \in Nat
        /\ result[j].generation <= current.generation
    BY DEF Row, JobInv, Judged
  <2>2. current'.generation = current.generation /\ current'.view = current.view
    BY <1>2, <2>1, SMTT(60) DEF Advances
  <2> QED
    BY <2>1, <2>2 DEF Row, Shown
<1> QED
  BY <1>3, <1>4, <1>5 DEF Row

-----------------------------------------------------------------------------
(* The inventory.                                                          *)

LEMMA ProbedViewType ==
  ASSUME TypeOK, probe # None, NEW early \in SUBSET InstanceIds
  PROVE  ProbedView(early) \in Views /\ probe.job \in Jobs
<1>1. /\ probe.job \in Jobs
      /\ probe.pool.cpus \in SUBSET Cpus /\ probe.pool.available \in SUBSET Cpus
      /\ probe.pool.regions \in Layouts /\ probe.pool.devices \in SUBSET Devices
      /\ probe.topology \in SUBSET Cpus
  BY DEF TypeOK, Probes
<1>2. /\ host.instances \in [InstanceIds -> Instance \cup {None}]
      /\ probe.instances \in [InstanceIds -> Instance \cup {None}]
  BY HostFields DEF TypeOK, Probes
<1> DEFINE read == [i \in InstanceIds |-> IF i \in early THEN probe.instances[i]
                                                         ELSE host.instances[i]]
<1>3. read \in [InstanceIds -> Instance \cup {None}]
  BY <1>2
<1>4. ProbedView(early) = Snapshot(probe.pool, read, probe.topology)
  BY DEF ProbedView
<1> HIDE DEF read
<1>5. OwnedDevices(read) \in SUBSET Devices
  BY <1>3 DEF OwnedDevices, Instance, Present
<1>6. Snapshot(probe.pool, read, probe.topology) \in Views
  BY <1>1, <1>3, <1>5, SMTT(60) DEF Snapshot, Views
<1> QED
  BY <1>1, <1>4, <1>6

\* `refresh`: an unchanged view keeps its generation, a changed one gets a later one.
LEMMA PublishedLemma ==
  ASSUME TypeOK, NEW view \in Views, current' = Published(view)
  PROVE  /\ current' \in Snapshots
         /\ current' # None
         /\ current'.view = view
         /\ Advances
<1>1. CASE current = None
  BY <1>1, ControlAssumption, SMTT(60) DEF Published, Snapshots, Advances
<1>2. CASE current # None
  <2>1. current \in Snapshots /\ current.generation \in Nat
    BY <1>2 DEF TypeOK, Snapshots
  <2> QED
    BY <1>2, <2>1, ControlAssumption, SMTT(60) DEF Published, Snapshots, Advances
<1> QED
  BY <1>1, <1>2

(***************************************************************************)
(* What a job makes of a refreshed snapshot (Continue): it reads it, is    *)
(* rejected, may call Kerf, or is done.                                    *)
(***************************************************************************)
JobTypeOK ==
  /\ step \in [Jobs -> Steps]
  /\ saw \in [Jobs -> Snapshots \cup {None}]
  /\ request \in [Jobs -> Workload \cup {None}]
  /\ process \in [Jobs -> {None, "ok", "failed", "timeout", "outlived"}]
  /\ result \in [Jobs -> Results \cup {None}]

Untouched(i) ==
  /\ step'[i] = step[i] /\ saw'[i] = saw[i] /\ request'[i] = request[i]
  /\ process'[i] = process[i] /\ result'[i] = result[i]

LEMMA ReadLemma ==
  ASSUME TypeOK, NEW j \in Jobs, NEW h \in BOOLEAN, Row(j),
         current' \in Snapshots \cup {None}, restarts' = restarts,
         ReadSnapshot(j, [healthy |-> h, snapshot |-> current'])
  PROVE  /\ JobTypeOK'
         /\ Row(j)'
         /\ \A i \in Jobs \ {j} : Untouched(i)
         /\ request' = request /\ process' = process
         /\ step'[j] \in {"start", "seen"}
<1>1. /\ step[j] = "start" /\ saw' = [saw EXCEPT ![j] = current']
      /\ step' = [step EXCEPT ![j] = IF current' = None THEN "start" ELSE "seen"]
      /\ request' = request /\ process' = process /\ result' = result
  BY DEF ReadSnapshot, Enter
<1>2. JobTypeOK
  BY DEF TypeOK, JobTypeOK
<1>3. JobTypeOK'
  BY <1>1, <1>2 DEF JobTypeOK, Steps
<1>4. /\ saw'[j] = current' /\ step'[j] = (IF current' = None THEN "start" ELSE "seen")
      /\ \A i \in Jobs \ {j} : Untouched(i)
  BY <1>1, <1>2 DEF JobTypeOK, Untouched
<1>5. request[j] = None /\ process[j] = None /\ result[j] = None
  BY <1>1 DEF Row, JobInv
<1>6. current' # None => current'.generation \in Nat
  BY DEF Snapshots
<1>7. JobInv(j)'
  BY <1>1, <1>4, <1>5, <1>6, SMTT(60) DEF JobInv, Before, InExecutor
<1>8. Honest(j)' /\ Shown(j)'
  BY <1>1, <1>5 DEF Honest, Shown, Judged
<1> QED
  BY <1>1, <1>3, <1>4, <1>7, <1>8 DEF Row

LEMMA PreflightLemma ==
  ASSUME TypeOK, NEW j \in Jobs, NEW h \in BOOLEAN, Row(j), Advances,
         current' \in Snapshots \cup {None}, h => current' # None,
         restarts' = restarts,
         Preflight(j, [healthy |-> h, snapshot |-> current'])
  PROVE  /\ JobTypeOK'
         /\ Row(j)'
         /\ \A i \in Jobs \ {j} : Untouched(i)
         /\ request' = request /\ process' = process
         /\ step'[j] \in {"invoking", "done"}
         /\ step[j] = "preflight"
         /\ step'[j] = "invoking" =>
              /\ h
              /\ Plan(request[j], current'.view)
              /\ current'.generation = saw[j].generation
<1> DEFINE pass == /\ h /\ current'.generation = saw[j].generation
                   /\ Plan(request[j], current'.view)
<1>1. /\ step[j] = "preflight" /\ saw' = saw /\ request' = request /\ process' = process
      /\ IF pass THEN step' = [step EXCEPT ![j] = "invoking"] /\ result' = result
                 ELSE /\ result' = [result EXCEPT ![j] = Rejected]
                      /\ step' = [step EXCEPT ![j] = "done"]
  BY DEF Preflight, Enter, Record
<1>a. pass => h /\ Plan(request[j], current'.view) /\ current'.generation = saw[j].generation
  OBVIOUS
<1> HIDE DEF pass
<1>2. JobTypeOK
  BY DEF TypeOK, JobTypeOK
<1>3. Rejected \in Results /\ Rejected # None /\ Rejected.kind = "rejected"
  BY ControlAssumption, SMTT(60) DEF Rejected, Result, Results
<1>4. JobTypeOK'
  BY <1>1, <1>2, <1>3 DEF JobTypeOK, Steps
<1>5. /\ step'[j] = (IF pass THEN "invoking" ELSE "done")
      /\ result'[j] = (IF pass THEN result[j] ELSE Rejected)
      /\ \A i \in Jobs \ {j} : Untouched(i)
  BY <1>1, <1>2 DEF JobTypeOK, Untouched
<1>6. /\ request[j] # None /\ saw[j] # None /\ process[j] = None /\ result[j] = None
      /\ restarts = 0 => Before(saw[j])
  BY <1>1 DEF Row, JobInv, InExecutor
<1>7. /\ saw[j].generation \in Nat
      /\ current # None => current.generation \in Nat
      /\ current' # None => current'.generation \in Nat
  BY <1>6 DEF TypeOK, Snapshots
<1>8. restarts = 0 => Before(saw[j])'
  BY <1>1, <1>6, <1>7, SMTT(60) DEF Before, Advances
<1>9. JobInv(j)'
  BY <1>1, <1>3, <1>5, <1>6, <1>8, <1>a DEF JobInv, InExecutor, Before
<1>10. Honest(j)' /\ Shown(j)'
  BY <1>1, <1>3, <1>5, <1>6 DEF Honest, Shown, Judged
<1> QED
  BY <1>1, <1>4, <1>5, <1>9, <1>10, <1>a DEF Row

LEMMA ObservedIsBoolean ==
  ASSUME NEW r, NEW s
  PROVE  ExpectedObserved(r, s) \in BOOLEAN
<1>1. CASE r.op = "create"
  BY <1>1 DEF ExpectedObserved
<1>2. CASE r.op = "update"
  BY <1>2 DEF ExpectedObserved
<1>3. CASE r.op = "delete"
  BY <1>3 DEF ExpectedObserved
<1>4. CASE r.op = "pool"
  BY <1>4 DEF ExpectedObserved, RequestReached
<1>5. CASE r.op \notin {"create", "update", "delete", "pool"}
  BY <1>5, ZenonT(60) DEF ExpectedObserved
<1> QED
  BY <1>1, <1>2, <1>3, <1>4, <1>5

LEMMA PostflightLemma ==
  ASSUME TypeOK, NEW j \in Jobs, NEW h \in BOOLEAN, Row(j), Advances,
         current' \in Snapshots \cup {None}, restarts' = restarts,
         Postflight(j, [healthy |-> h, snapshot |-> current'])
  PROVE  /\ JobTypeOK'
         /\ Row(j)'
         /\ \A i \in Jobs \ {j} : Untouched(i)
         /\ request' = request /\ process' = process
         /\ step'[j] = "done"
<1> DEFINE refreshed == [healthy |-> h, snapshot |-> current']
           outcome == Reconciled(j, refreshed)
<1>1. step[j] = "postflight"
  BY DEF Postflight
<1>2. /\ request[j] # None /\ saw[j] # None
      /\ restarts = 0 => Before(saw[j])
      /\ current # None
  BY <1>1 DEF Row, JobInv, InExecutor
<1>3. current' # None /\ current' \in Snapshots
  BY <1>2 DEF Advances
<1>4. /\ saw' = saw /\ request' = request /\ process' = process
      /\ result' = [result EXCEPT ![j] = outcome]
      /\ step' = [step EXCEPT ![j] = "done"]
  BY <1>3 DEF Postflight, Enter, Record
<1>5. JobTypeOK
  BY DEF TypeOK, JobTypeOK
<1>6. current'.generation \in Nat /\ current.generation \in Nat /\ saw[j].generation \in Nat
  BY <1>2, <1>3 DEF TypeOK, Snapshots
<1>7. /\ outcome \in Results /\ outcome.kind = "outcome"
      /\ outcome.generation = current'.generation
      /\ MutatesKernel(request[j]) =>
           outcome.state = IF ~h THEN "Indeterminate"
                           ELSE IF ExpectedObserved(request[j], current'.view)
                           THEN "Succeeded" ELSE "Failed"
  BY <1>6 DEF Reconciled, Outcome, Result, Results
<1> HIDE DEF outcome, refreshed
<1>8. outcome # None
  BY <1>7, ControlAssumption
<1>9. JobTypeOK'
  BY <1>4, <1>5, <1>7 DEF JobTypeOK, Steps
<1>10. /\ step'[j] = "done" /\ result'[j] = outcome
       /\ \A i \in Jobs \ {j} : Untouched(i)
  BY <1>4, <1>5 DEF JobTypeOK, Untouched
<1>11. restarts = 0 => Before(saw[j])'
  BY <1>2, <1>3, <1>4, <1>6, SMTT(60) DEF Before, Advances
<1>12. JobInv(j)'
  BY <1>3, <1>4, <1>6, <1>7, <1>10, <1>11, SMTT(60) DEF JobInv, InExecutor, Before
<1>13. Honest(j)'
  BY <1>7, <1>10 DEF Honest
<1>14. Shown(j)'
  BY <1>4, <1>7, <1>10, ObservedIsBoolean DEF Shown, Judged
<1> QED
  BY <1>4, <1>9, <1>10, <1>12, <1>13, <1>14 DEF Row

LEMMA ContinueLemma ==
  ASSUME TypeOK, NEW j \in Jobs, NEW h \in BOOLEAN, Row(j), Advances,
         current' \in Snapshots \cup {None}, h => current' # None,
         restarts' = restarts,
         Continue(j, [healthy |-> h, snapshot |-> current'])
  PROVE  /\ JobTypeOK'
         /\ Row(j)'
         /\ \A i \in Jobs \ {j} : Untouched(i)
         /\ request' = request /\ process' = process
         /\ step'[j] \in {"start", "seen", "invoking", "done"}
         /\ step'[j] = "invoking" =>
              /\ step[j] = "preflight" /\ h
              /\ Plan(request[j], current'.view)
              /\ current'.generation = saw[j].generation
<1>1. CASE ReadSnapshot(j, [healthy |-> h, snapshot |-> current'])
  BY <1>1, ReadLemma
<1>2. CASE Preflight(j, [healthy |-> h, snapshot |-> current'])
  BY <1>2, PreflightLemma
<1>3. CASE Postflight(j, [healthy |-> h, snapshot |-> current'])
  BY <1>3, PostflightLemma
<1> QED
  BY <1>1, <1>2, <1>3 DEF Continue

-----------------------------------------------------------------------------
(* Steps of a refresh.                                                     *)

LEMMA Unpack ==
  ASSUME ControlInv
  PROVE  /\ TypeOK
         /\ \A j \in Jobs : Row(j)
         /\ probe # None => probe.job \in Jobs /\ step[probe.job] \in Refreshing
         /\ \A e \in Executors : kerf[e] # None =>
              /\ kerf[e] \in Processes /\ kerf[e].job \in Jobs
              /\ request[kerf[e].job] # None
              /\ Executor(request[kerf[e].job]) = e
         /\ LiveProcessesAreKnown
         /\ OneExecutorInCharge => InChargeInv
<1>1. /\ TypeOK
      /\ \A j \in Jobs : Row(j)
      /\ probe # None => step[probe.job] \in Refreshing
      /\ \A e \in Executors : kerf[e] # None =>
           /\ request[kerf[e].job] # None
           /\ Executor(request[kerf[e].job]) = e
      /\ LiveProcessesAreKnown
      /\ OneExecutorInCharge => InChargeInv
  BY Rows, Zenon DEF RowsInv
<1>2. probe # None => probe.job \in Jobs
  BY <1>1 DEF TypeOK, Probes
<1>3. \A e \in Executors : kerf[e] # None => kerf[e] \in Processes /\ kerf[e].job \in Jobs
  BY <1>1 DEF TypeOK, Processes
<1> QED
  BY <1>1, <1>2, <1>3

LEMMA Pack ==
  ASSUME TypeOK', \A j \in Jobs : Row(j)',
         probe' # None => step'[probe'.job] \in Refreshing,
         \A e \in Executors : kerf'[e] # None =>
           /\ request'[kerf'[e].job] # None
           /\ Executor(request'[kerf'[e].job]) = e,
         OneExecutorInCharge' => InChargeInv'
  PROVE  RowsInv'
  BY DEF RowsInv

(***************************************************************************)
(* EndProbe, FailProbe and RefuseProbe: a refresh that is over, well or    *)
(* not, keeps ControlInv.  Its job alone moves; if it goes on to call Kerf *)
(* it holds the plan for the state the probe has read.                     *)
(***************************************************************************)
LEMMA RefreshedKeeps ==
  ASSUME ControlInv, NEW j \in Jobs, NEW h \in BOOLEAN, Advances,
         current' \in Snapshots \cup {None}, h => current' # None,
         probe' = None, hung' \in BOOLEAN, restarts' = restarts,
         host' = host, kerf' = kerf, orphans' = orphans,
         step[j] \in Refreshing,
         h => /\ probe # None /\ probe.job = j
              /\ \E early \in SUBSET InstanceIds : current'.view = ProbedView(early),
         Continue(j, [healthy |-> h, snapshot |-> current'])
  PROVE  RowsInv'
<1>0. /\ TypeOK /\ \A i \in Jobs : Row(i)
      /\ probe # None => probe.job \in Jobs /\ step[probe.job] \in Refreshing
      /\ \A e \in Executors : kerf[e] # None =>
           /\ kerf[e].job \in Jobs
           /\ request[kerf[e].job] # None
           /\ Executor(request[kerf[e].job]) = e
      /\ OneExecutorInCharge => InChargeInv
  BY Unpack, Zenon
<1>1. /\ JobTypeOK'
      /\ Row(j)'
      /\ \A i \in Jobs \ {j} : Untouched(i)
      /\ request' = request /\ process' = process
      /\ step'[j] \in {"start", "seen", "invoking", "done"}
      /\ step'[j] = "invoking" =>
           /\ step[j] = "preflight" /\ h
           /\ Plan(request[j], current'.view)
  BY <1>0, ContinueLemma
<1>2. TypeOK'
  BY <1>0, <1>1 DEF TypeOK, JobTypeOK, HostTypeOK
<1>3. \A i \in Jobs : Row(i)'
  BY <1>0, <1>1, <1>2, RowStays, ZenonT(60) DEF Untouched
<1>4. ASSUME OneExecutorInCharge' PROVE InChargeInv'
  <2>1. OneExecutorInCharge
    BY <1>1, <1>4 DEF OneExecutorInCharge
  <2>2. InChargeInv
    BY <1>0, <2>1
  <2>3. \A a, b \in Jobs : step'[a] \in InExecutor /\ step'[b] \in InExecutor => a = b
    <3>1. \A a \in Jobs : step'[a] \in InExecutor => step[a] \in InExecutor
      BY <1>1, ZenonT(60) DEF Untouched, InExecutor
    <3> QED
      BY <2>2, <3>1, ZenonT(60) DEF InChargeInv
  <2>4. \A i \in Jobs : step'[i] = "invoking" => Plan(request'[i], Observe(host'))
    <3> SUFFICES ASSUME NEW i \in Jobs, step'[i] = "invoking"
                 PROVE  Plan(request[i], Observe(host))
      BY <1>1
    <3>1. CASE i # j
      BY <1>1, <2>2, <3>1 DEF InChargeInv, Untouched
    <3>2. CASE i = j
      <4>1. /\ probe # None /\ step[probe.job] = "preflight" /\ h
            /\ Plan(request[i], current'.view)
        BY <1>1, <3>2, ZenonT(60)
      <4>2. /\ probe.pool = PoolView(host) /\ probe.instances = host.instances
            /\ probe.topology = Cpus \ host.cpus
        BY <2>2, <4>1, ZenonT(60) DEF InChargeInv
      <4>4. PICK early \in SUBSET InstanceIds : current'.view = ProbedView(early)
        BY <4>1
      <4>5. host.instances \in [InstanceIds -> Instance \cup {None}]
        BY <1>0, HostFields DEF TypeOK
      <4>6. [x \in InstanceIds |-> IF x \in early THEN probe.instances[x]
                                                 ELSE host.instances[x]] = host.instances
        BY <4>2, <4>5
      <4>3. current'.view = Observe(host)
        BY <4>2, <4>4, <4>6 DEF ProbedView, Observe
      <4> QED
        BY <4>1, <4>3
    <3> QED
      BY <3>1, <3>2
  <2>5. \A e \in Executors : kerf[e] # None => kerf[e].job # j
    BY <2>2, ZenonT(60) DEF InChargeInv, Refreshing
  <2>6. \A e \in Executors : kerf'[e] # None =>
          /\ step'[kerf'[e].job] = "running"
          /\ ~kerf'[e].applied => /\ Plan(request'[kerf'[e].job], Observe(host'))
                                  /\ MutatesKernel(request'[kerf'[e].job])
    <3> SUFFICES ASSUME NEW e \in Executors, kerf[e] # None
                 PROVE  /\ step'[kerf[e].job] = "running"
                        /\ ~kerf[e].applied => /\ Plan(request[kerf[e].job], Observe(host))
                                               /\ MutatesKernel(request[kerf[e].job])
      BY <1>1, ZenonT(60)
    <3>1. kerf[e].job \in Jobs \ {j}
      BY <1>0, <2>5, ZenonT(60)
    <3> QED
      BY <1>1, <2>2, <3>1, ZenonT(60) DEF InChargeInv, Untouched
  <2> QED
    BY <2>2, <2>3, <2>4, <2>6, ZenonT(60) DEF InChargeInv
<1> QED
  <2>1. probe' # None => step'[probe'.job] \in Refreshing
    OBVIOUS
  <2>2. \A e \in Executors : kerf'[e] # None =>
          /\ request'[kerf'[e].job] # None
          /\ Executor(request'[kerf'[e].job]) = e
    BY <1>0, <1>1
  <2> QED
    BY <1>2, <1>3, <1>4, <2>1, <2>2, Pack

LEMMA RefreshEnds ==
  ASSUME ControlInv, NEW j \in Jobs, ProbeStep(j) \/ RefuseProbe(j)
  PROVE  RowsInv'
<1>0. /\ TypeOK
      /\ probe # None => probe.job \in Jobs /\ step[probe.job] \in Refreshing
  BY Unpack, Zenon
<1>1. CASE EndProbe(j)
  <2>1. /\ probe # None /\ probe.job = j
        /\ probe' = None /\ Continue(j, [healthy |-> TRUE, snapshot |-> current'])
        /\ UNCHANGED <<host, hung, kerf, orphans, restarts>>
    BY <1>1 DEF EndProbe, Healthy
  <2>4. PICK early \in SUBSET InstanceIds : current' = Published(ProbedView(early))
    BY <1>1 DEF EndProbe
  <2>2. /\ current' \in Snapshots /\ current' # None /\ current'.view = ProbedView(early)
        /\ Advances
    BY <1>0, <2>1, <2>4, ProbedViewType, PublishedLemma, ZenonT(60)
  <2>3. hung' \in BOOLEAN
    BY <1>0, <2>1 DEF TypeOK
  <2> QED
    BY <1>0, <2>1, <2>2, <2>3, RefreshedKeeps, ZenonT(60)
<1>2. CASE FailProbe(j) \/ RefuseProbe(j)
  <2>1. /\ step[j] \in Refreshing /\ current' = current /\ probe' = None
        /\ hung' \in BOOLEAN
        /\ Continue(j, [healthy |-> FALSE, snapshot |-> current'])
        /\ UNCHANGED <<host, kerf, orphans, restarts>>
    BY <1>0, <1>2, ZenonT(60) DEF FailProbe, RefuseProbe, Unhealthy, inventoryVars, TypeOK
  <2>2. current' \in Snapshots \cup {None} /\ Advances
    <3>1. current # None => current.generation \in Nat
      BY <1>0 DEF TypeOK, Snapshots
    <3> QED
      BY <1>0, <2>1, <3>1, SMTT(30) DEF TypeOK, Advances
  <2> QED
    BY <2>1, <2>2, RefreshedKeeps, ZenonT(60)
<1> QED
  BY <1>1, <1>2 DEF ProbeStep

(***************************************************************************)
(* BeginProbe reads the pool under the inventory's lock: no job moves.     *)
(***************************************************************************)
LEMMA StandStill ==
  ASSUME TypeOK, TypeOK', \A j \in Jobs : Row(j),
         UNCHANGED <<current, jobVars, restarts>>
  PROVE  \A j \in Jobs : Row(j)'
<1>1. current # None => current.generation \in Nat
  BY DEF TypeOK, Snapshots
<1>2. Advances
  BY <1>1, SMTT(60) DEF Advances
<1> QED
  BY <1>2, RowStays DEF jobVars

LEMMA BeginProbeKeeps ==
  ASSUME ControlInv, NEW j \in Jobs, BeginProbe(j)
  PROVE  RowsInv'
<1>0. /\ TypeOK /\ \A i \in Jobs : Row(i)
      /\ \A e \in Executors : kerf[e] # None =>
           /\ request[kerf[e].job] # None
           /\ Executor(request[kerf[e].job]) = e
      /\ OneExecutorInCharge => InChargeInv
  BY Unpack, Zenon
<1>1. /\ step[j] \in Refreshing
      /\ probe' = [job |-> j, pool |-> PoolView(host), instances |-> host.instances,
                   topology |-> Cpus \ host.cpus]
      /\ UNCHANGED <<host, current, hung, jobVars, step, saw, request, process, result,
                     kerf, orphans, restarts>>
  BY DEF BeginProbe, jobVars
<1>2. probe' \in Probes
  BY <1>0, <1>1, HostFields, ZenonT(60) DEF TypeOK, PoolView, Probes
<1>3. TypeOK'
  BY <1>0, <1>1, <1>2, ZenonT(60) DEF TypeOK, HostTypeOK
<1>4. \A i \in Jobs : Row(i)'
  BY <1>0, <1>1, <1>3, StandStill, ZenonT(60)
<1>5. OneExecutorInCharge' => InChargeInv'
  BY <1>0, <1>1, ZenonT(60) DEF OneExecutorInCharge, InChargeInv, PoolView, Observe
<1>6. probe'.job = j
  BY <1>1, ZenonT(60)
<1> QED
  BY <1>0, <1>1, <1>3, <1>4, <1>5, <1>6, Pack

LEMMA ProbeDiesKeeps ==
  ASSUME ControlInv, ProbeDies
  PROVE  RowsInv'
<1>0. /\ TypeOK /\ \A i \in Jobs : Row(i)
      /\ probe # None => step[probe.job] \in Refreshing
      /\ \A e \in Executors : kerf[e] # None =>
           /\ request[kerf[e].job] # None
           /\ Executor(request[kerf[e].job]) = e
      /\ OneExecutorInCharge => InChargeInv
  BY Unpack, Zenon
<1>1. hung' = FALSE /\ UNCHANGED <<host, current, probe, jobVars, step, saw, request,
                                   process, result, kerf, orphans, restarts>>
  BY DEF ProbeDies, jobVars
<1>2. TypeOK'
  BY <1>0, <1>1, ZenonT(60) DEF TypeOK, HostTypeOK
<1>3. \A i \in Jobs : Row(i)'
  BY <1>0, <1>1, <1>2, StandStill, ZenonT(60)
<1>4. OneExecutorInCharge' => InChargeInv'
  BY <1>0, <1>1, ZenonT(60) DEF OneExecutorInCharge, InChargeInv
<1> QED
  BY <1>0, <1>1, <1>2, <1>3, <1>4, Pack, ZenonT(60)

-----------------------------------------------------------------------------
(* Steps of one job.                                                       *)

\* The other jobs' rows stay while one job moves.
LEMMA OthersStay ==
  ASSUME TypeOK, TypeOK', \A i \in Jobs : Row(i), NEW j \in Jobs, Row(j)',
         current' = current, restarts' = restarts,
         \A i \in Jobs \ {j} : Untouched(i)
  PROVE  \A i \in Jobs : Row(i)'
<1>1. current # None => current.generation \in Nat
  BY DEF TypeOK, Snapshots
<1>2. Advances
  BY <1>1, SMTT(60) DEF Advances
<1> QED
  BY <1>2, RowStays DEF Untouched

LEMMA SubmitKeeps ==
  ASSUME ControlInv, NEW j \in Jobs, Submit(j)
  PROVE  RowsInv'
<1>0. /\ TypeOK /\ \A i \in Jobs : Row(i)
      /\ probe # None => probe.job \in Jobs /\ step[probe.job] \in Refreshing
      /\ \A e \in Executors : kerf[e] # None =>
           /\ kerf[e].job \in Jobs
           /\ request[kerf[e].job] # None
           /\ Executor(request[kerf[e].job]) = e
      /\ OneExecutorInCharge => InChargeInv
  BY Unpack, Zenon
<1>1. PICK r \in Workload : request' = [request EXCEPT ![j] = r]
  BY ZenonT(60) DEF Submit
<1>2. /\ step[j] = "seen" /\ step' = [step EXCEPT ![j] = "queued"]
      /\ UNCHANGED <<host, current, probe, hung, saw, process, result, kerf, orphans,
                     restarts>>
  BY DEF Submit, Enter, inventoryVars
<1>3. JobTypeOK
  BY <1>0 DEF TypeOK, JobTypeOK
<1>4. /\ step'[j] = "queued" /\ request'[j] = r /\ r # None
      /\ \A i \in Jobs \ {j} : Untouched(i)
  BY <1>1, <1>2, <1>3, ControlAssumption DEF JobTypeOK, Untouched
<1>5. TypeOK'
  BY <1>0, <1>1, <1>2 DEF TypeOK, HostTypeOK, Steps
<1>6. /\ saw[j] # None /\ process[j] = None /\ result[j] = None /\ request[j] = None
      /\ restarts = 0 => Before(saw[j])
  BY <1>0, <1>2, ZenonT(60) DEF Row, JobInv
<1>7. Row(j)'
  <2>1. JobInv(j)'
    BY <1>2, <1>4, <1>6, ZenonT(60) DEF JobInv, InExecutor, Before
  <2> QED
    BY <1>2, <1>6, <2>1, ZenonT(60) DEF Row, Honest, Shown, Judged
<1>8. \A i \in Jobs : Row(i)'
  BY <1>0, <1>2, <1>4, <1>5, <1>7, OthersStay, ZenonT(60)
<1>9. \A e \in Executors : kerf[e] # None => kerf[e].job # j
  BY <1>0, <1>6, ZenonT(60)
<1>10. ASSUME OneExecutorInCharge' PROVE InChargeInv'
  <2>1. OneExecutorInCharge
    BY <1>2, <1>4, <1>6, <1>10, ZenonT(60) DEF OneExecutorInCharge, Untouched
  <2>2. InChargeInv
    BY <1>0, <2>1
  <2>3. \A a, b \in Jobs : step'[a] \in InExecutor /\ step'[b] \in InExecutor => a = b
    BY <1>4, <2>2 DEF InChargeInv, Untouched, InExecutor
  <2>4. \A i \in Jobs : step'[i] = "invoking" => Plan(request'[i], Observe(host'))
    BY <1>2, <1>4, <2>2, ZenonT(60) DEF InChargeInv, Untouched
  <2>5. \A e \in Executors : kerf'[e] # None =>
          /\ step'[kerf'[e].job] = "running"
          /\ ~kerf'[e].applied => /\ Plan(request'[kerf'[e].job], Observe(host'))
                                  /\ MutatesKernel(request'[kerf'[e].job])
    <3>1. \A e \in Executors : kerf[e] # None =>
            /\ step[kerf[e].job] = "running"
            /\ ~kerf[e].applied => /\ Plan(request[kerf[e].job], Observe(host))
                                   /\ MutatesKernel(request[kerf[e].job])
      BY <2>2, ZenonT(60) DEF InChargeInv
    <3> QED
      BY <1>0, <1>2, <1>4, <1>9, <3>1, ZenonT(60) DEF Untouched
  <2>6. probe' # None /\ step'[probe'.job] = "preflight" =>
          /\ probe'.pool = PoolView(host')
          /\ probe'.instances = host'.instances
          /\ probe'.topology = Cpus \ host'.cpus
    BY <1>0, <1>2, <1>4, <2>2, ZenonT(60) DEF InChargeInv, Untouched
  <2> QED
    BY <1>2, <2>2, <2>3, <2>4, <2>5, <2>6, ZenonT(60) DEF InChargeInv
<1>11. probe' # None => step'[probe'.job] \in Refreshing
  BY <1>0, <1>2, <1>4, ZenonT(60) DEF Untouched, Refreshing
<1>12. \A e \in Executors : kerf'[e] # None =>
         /\ request'[kerf'[e].job] # None
         /\ Executor(request'[kerf'[e].job]) = e
  <2>1. SUFFICES ASSUME NEW e \in Executors, kerf[e] # None
                 PROVE  /\ request'[kerf[e].job] # None
                        /\ Executor(request'[kerf[e].job]) = e
    BY <1>2
  <2>2. /\ kerf[e].job \in Jobs /\ request[kerf[e].job] # None
        /\ Executor(request[kerf[e].job]) = e
    BY <1>0, <2>1
  <2>3. request'[kerf[e].job] = request[kerf[e].job]
    BY <1>4, <1>9, <2>1, <2>2 DEF Untouched
  <2> QED
    BY <2>2, <2>3
<1> QED
  BY <1>5, <1>8, <1>10, <1>11, <1>12, Pack

LEMMA ExecutorType == ASSUME NEW r PROVE Executor(r) \in Executors
  BY DEF Executor, Executors

(***************************************************************************)
(* A job moves on inside its executor (Acquire, SpawnKerf, Returns):       *)
(* nobody's knowledge changes, and the probe under way is not its own.     *)
(***************************************************************************)
LEMMA JobMoves ==
  ASSUME ControlInv, NEW j \in Jobs, NEW next \in {"preflight", "running", "postflight"},
         NEW outcome \in {None, "ok", "failed", "timeout", "outlived"},
         step[j] \in {"queued", "invoking", "running"},
         next # "preflight" => step[j] # "queued",
         next # "postflight" => outcome = None,
         step' = [step EXCEPT ![j] = next],
         process' = [process EXCEPT ![j] = outcome],
         kerf' \in [Executors -> Processes \cup {None}],
         UNCHANGED <<host, current, probe, hung, saw, request, result, orphans, restarts>>
  PROVE  /\ TypeOK'
         /\ \A i \in Jobs : Row(i)'
         /\ step'[j] = next /\ process'[j] = outcome
         /\ \A i \in Jobs \ {j} : Untouched(i)
         /\ probe' # None => step'[probe'.job] \in Refreshing
         /\ probe # None => probe.job \in Jobs \ {j}
<1>0. /\ TypeOK /\ \A i \in Jobs : Row(i)
      /\ probe # None => probe.job \in Jobs /\ step[probe.job] \in Refreshing
  BY Unpack, Zenon
<1>1. JobTypeOK
  BY <1>0 DEF TypeOK, JobTypeOK
<1>2. /\ step'[j] = next /\ process'[j] = outcome
      /\ \A i \in Jobs \ {j} : Untouched(i)
  BY <1>1 DEF JobTypeOK, Untouched
<1>3. TypeOK'
  BY <1>0 DEF TypeOK, HostTypeOK, Steps
<1>4. /\ request[j] # None /\ saw[j] # None /\ result[j] = None
      /\ restarts = 0 => Before(saw[j])
      /\ step[j] # "queued" => current # None
  BY <1>0 DEF Row, JobInv, InExecutor
<1>5. Row(j)'
  <2>1. JobInv(j)'
    BY <1>2, <1>4 DEF JobInv, InExecutor, Before
  <2> QED
    BY <1>4, <2>1, ZenonT(60) DEF Row, Honest, Shown, Judged
<1>6. \A i \in Jobs : Row(i)'
  BY <1>0, <1>2, <1>3, <1>5, OthersStay, ZenonT(60)
<1>7. probe # None => probe.job \in Jobs \ {j}
  BY <1>0 DEF Refreshing
<1>8. probe' # None => step'[probe'.job] \in Refreshing
  BY <1>0, <1>2, <1>7, SMTT(60) DEF Untouched
<1> QED
  BY <1>2, <1>3, <1>6, <1>7, <1>8, ZenonT(60)

LEMMA AcquireKeeps ==
  ASSUME ControlInv, NEW j \in Jobs, Acquire(j)
  PROVE  RowsInv'
<1>0. /\ TypeOK /\ \A i \in Jobs : Row(i)
      /\ \A e \in Executors : kerf[e] # None =>
           /\ kerf[e].job \in Jobs
           /\ request[kerf[e].job] # None
           /\ Executor(request[kerf[e].job]) = e
      /\ OneExecutorInCharge => InChargeInv
  BY Unpack, Zenon
<1>1. /\ step[j] = "queued" /\ ~Busy(Executor(request[j]))
      /\ step' = [step EXCEPT ![j] = "preflight"]
      /\ UNCHANGED <<host, current, probe, hung, saw, request, process, result, kerf,
                     orphans, restarts>>
  BY DEF Acquire, Enter, inventoryVars
<1>2. process[j] = None
  BY <1>0, <1>1, ZenonT(60) DEF Row, JobInv
<1>3. process' = [process EXCEPT ![j] = None] /\ kerf' \in [Executors -> Processes \cup {None}]
  BY <1>0, <1>1, <1>2 DEF TypeOK
<1>4. /\ TypeOK' /\ \A i \in Jobs : Row(i)'
      /\ step'[j] = "preflight"
      /\ \A i \in Jobs \ {j} : Untouched(i)
      /\ probe' # None => step'[probe'.job] \in Refreshing
      /\ probe # None => probe.job \in Jobs \ {j}
  BY <1>1, <1>3, JobMoves, ZenonT(60)
<1>5. ASSUME OneExecutorInCharge' PROVE InChargeInv'
  <2>1. OneExecutorInCharge
    BY <1>1, <1>5, ZenonT(60) DEF OneExecutorInCharge
  <2>2. InChargeInv
    BY <1>0, <2>1
  <2>3. \A i \in Jobs : step[i] \notin InExecutor
    <3> SUFFICES ASSUME NEW i \in Jobs, step[i] \in InExecutor PROVE FALSE
      OBVIOUS
    <3>1. request[i] # None /\ request[j] # None
      BY <1>0, <1>1, ZenonT(60) DEF Row, JobInv
    <3>2. Executor(request[i]) = Executor(request[j])
      BY <2>1, <3>1 DEF OneExecutorInCharge
    <3> QED
      BY <1>1, <3>2 DEF Busy
  <2>4. \A a, b \in Jobs : step'[a] \in InExecutor /\ step'[b] \in InExecutor => a = b
    BY <1>4, <2>3 DEF Untouched
  <2>5. \A i \in Jobs : step'[i] = "invoking" => Plan(request'[i], Observe(host'))
    BY <1>4, <2>3 DEF Untouched, InExecutor
  <2>6. \A e \in Executors : kerf'[e] = None
    BY <1>0, <1>1, <2>2, <2>3, ZenonT(60) DEF InChargeInv, InExecutor
  <2>7. probe' # None => step'[probe'.job] # "preflight"
    BY <1>1, <1>4, <2>3, ZenonT(60) DEF Untouched, InExecutor
  <2> QED
    BY <1>1, <2>2, <2>4, <2>5, <2>6, <2>7, ZenonT(60) DEF InChargeInv
<1> QED
  BY <1>0, <1>1, <1>4, <1>5, Pack, ZenonT(60)

LEMMA SpawnKerfKeeps ==
  ASSUME ControlInv, NEW j \in Jobs, SpawnKerf(j)
  PROVE  RowsInv'
<1> DEFINE e0 == Executor(request[j])
           p0 == [job |-> j, applied |-> ~MutatesKernel(request[j])]
<1>0. /\ TypeOK /\ \A i \in Jobs : Row(i)
      /\ \A e \in Executors : kerf[e] # None =>
           /\ kerf[e].job \in Jobs
           /\ request[kerf[e].job] # None
           /\ Executor(request[kerf[e].job]) = e
      /\ OneExecutorInCharge => InChargeInv
  BY Unpack, Zenon
<1>1. /\ step[j] = "invoking" /\ kerf[e0] = None
      /\ kerf' = [kerf EXCEPT ![e0] = p0]
      /\ step' = [step EXCEPT ![j] = "running"]
      /\ UNCHANGED <<host, current, probe, hung, saw, request, process, result,
                     orphans, restarts>>
  BY DEF SpawnKerf, Enter, inventoryVars
<1>2. process[j] = None /\ request[j] # None
  BY <1>0, <1>1 DEF Row, JobInv, InExecutor
<1>3. e0 \in Executors
  BY ExecutorType
<1>4. /\ p0 \in Processes /\ p0 # None /\ p0.job = j
      /\ ~p0.applied => MutatesKernel(request[j])
  <2> DEFINE harmless == ~MutatesKernel(request[j])
  <2>1. harmless \in BOOLEAN /\ (~harmless => MutatesKernel(request[j]))
    BY Zenon
  <2>2. p0 = [job |-> j, applied |-> harmless]
    BY Zenon
  <2> HIDE DEF harmless, p0
  <2> QED
    BY <2>1, <2>2, ControlAssumption, SMTT(60) DEF Processes
<1>a. e0 = Executor(request[j])
  OBVIOUS
<1> HIDE DEF e0, p0
<1>5. kerf \in [Executors -> Processes \cup {None}]
  BY <1>0 DEF TypeOK
<1>6. /\ process' = [process EXCEPT ![j] = None]
      /\ kerf' \in [Executors -> Processes \cup {None}]
  BY <1>0, <1>1, <1>2, <1>3, <1>4, <1>5 DEF TypeOK
<1>7. /\ TypeOK' /\ \A i \in Jobs : Row(i)'
      /\ step'[j] = "running"
      /\ \A i \in Jobs \ {j} : Untouched(i)
      /\ probe' # None => step'[probe'.job] \in Refreshing
      /\ probe # None => probe.job \in Jobs \ {j}
  BY <1>1, <1>6, JobMoves, ZenonT(60)
<1>8. \A e \in Executors : kerf'[e] = (IF e = e0 THEN p0 ELSE kerf[e])
  BY <1>1, <1>3, <1>5
<1>9. \A e \in Executors : kerf'[e] # None =>
        /\ request'[kerf'[e].job] # None
        /\ Executor(request'[kerf'[e].job]) = e
  BY <1>0, <1>1, <1>2, <1>4, <1>8, <1>a, ZenonT(60)
<1>10. ASSUME OneExecutorInCharge' PROVE InChargeInv'
  <2>1. OneExecutorInCharge
    BY <1>1, <1>10 DEF OneExecutorInCharge
  <2>2. InChargeInv
    BY <1>0, <2>1
  <2>3. \A i \in Jobs : step'[i] \in InExecutor => step[i] \in InExecutor
    BY <1>1, <1>7 DEF Untouched, InExecutor
  <2>4. \A a, b \in Jobs : step'[a] \in InExecutor /\ step'[b] \in InExecutor => a = b
    BY <2>2, <2>3 DEF InChargeInv
  <2>5. \A i \in Jobs : step'[i] = "invoking" => Plan(request'[i], Observe(host'))
    BY <1>1, <1>7, <2>2, ZenonT(60) DEF InChargeInv, Untouched
  <2>6. ASSUME NEW e \in Executors, kerf'[e] # None
        PROVE  /\ step'[kerf'[e].job] = "running"
               /\ ~kerf'[e].applied => /\ Plan(request'[kerf'[e].job], Observe(host'))
                                       /\ MutatesKernel(request'[kerf'[e].job])
    <3>1. CASE e = e0
      BY <1>1, <1>4, <1>7, <1>8, <2>2, <3>1, ZenonT(60) DEF InChargeInv
    <3>2. CASE e # e0
      <4>1. kerf'[e] = kerf[e] /\ kerf[e] # None
        BY <1>8, <2>6, <3>2
      <4>3. /\ step[kerf[e].job] = "running"
            /\ ~kerf[e].applied => /\ Plan(request[kerf[e].job], Observe(host))
                                   /\ MutatesKernel(request[kerf[e].job])
        BY <2>2, <4>1, ZenonT(60) DEF InChargeInv
      <4>2. kerf[e].job \in Jobs /\ kerf[e].job # j
        BY <1>0, <1>1, <2>2, <4>1, ZenonT(60) DEF InChargeInv
      <4> QED
        BY <1>1, <1>7, <4>1, <4>2, <4>3, ZenonT(60) DEF Untouched
    <3> QED
      BY <3>1, <3>2
  <2>7. probe' # None /\ step'[probe'.job] = "preflight" =>
          /\ probe'.pool = PoolView(host')
          /\ probe'.instances = host'.instances
          /\ probe'.topology = Cpus \ host'.cpus
    BY <1>1, <1>7, <2>2, ZenonT(60) DEF InChargeInv, Untouched
  <2> QED
    BY <1>1, <2>2, <2>4, <2>5, <2>6, <2>7, ZenonT(60) DEF InChargeInv
<1> QED
  BY <1>7, <1>9, <1>10, Pack, ZenonT(60)

(***************************************************************************)
(* Kerf is done, or was never started, and the job goes on to postflight.  *)
(* Unless it outlived its deadline, its own process is gone.               *)
(***************************************************************************)
LEMMA ReturnsKeeps ==
  ASSUME ControlInv, NEW j \in Jobs, NEW outcome \in {"ok", "failed", "timeout", "outlived"},
         step[j] \in {"invoking", "running"},
         Returns(j, outcome),
         kerf' \in [Executors -> Processes \cup {None}],
         \A e \in Executors : kerf'[e] # None => kerf'[e] = kerf[e],
         outcome # "outlived" /\ step[j] = "running" =>
           kerf'[Executor(request[j])] = None,
         UNCHANGED <<host, inventoryVars, orphans, restarts>>
  PROVE  RowsInv'
<1> DEFINE e0 == Executor(request[j])
<1>0. /\ TypeOK /\ \A i \in Jobs : Row(i)
      /\ \A e \in Executors : kerf[e] # None =>
           /\ kerf[e].job \in Jobs
           /\ request[kerf[e].job] # None
           /\ Executor(request[kerf[e].job]) = e
      /\ OneExecutorInCharge => InChargeInv
  BY Unpack, Zenon
<1>1. /\ process' = [process EXCEPT ![j] = outcome]
      /\ step' = [step EXCEPT ![j] = "postflight"]
      /\ UNCHANGED <<host, current, probe, hung, saw, request, result, orphans, restarts>>
  BY ZenonT(60) DEF Returns, Enter, inventoryVars
<1>2. e0 \in Executors
  BY ExecutorType
<1>5. /\ TypeOK' /\ \A i \in Jobs : Row(i)'
      /\ step'[j] = "postflight" /\ process'[j] = outcome
      /\ \A i \in Jobs \ {j} : Untouched(i)
      /\ probe' # None => step'[probe'.job] \in Refreshing
      /\ probe # None => probe.job \in Jobs \ {j}
  BY <1>1, JobMoves, ZenonT(60)
<1>6. \A e \in Executors : kerf'[e] # None =>
        /\ request'[kerf'[e].job] # None
        /\ Executor(request'[kerf'[e].job]) = e
  BY <1>0, <1>1, ZenonT(60)
<1>7. ASSUME OneExecutorInCharge' PROVE InChargeInv'
  <2>0. outcome # "outlived"
    BY <1>5, <1>7, ZenonT(60) DEF OneExecutorInCharge
  <2>1. OneExecutorInCharge
    <3>1. \A i \in Jobs : process[i] # "outlived"
      <4>1. process[j] # "outlived"
        BY <1>0, ControlAssumption, ZenonT(60) DEF Row, JobInv
      <4> QED
        BY <1>5, <1>7, <4>1, ZenonT(60) DEF OneExecutorInCharge, Untouched
    <3> QED
      BY <1>1, <1>7, <3>1 DEF OneExecutorInCharge
  <2>2. InChargeInv
    BY <1>0, <2>1, ZenonT(60)
  <2>3. \A i \in Jobs : step'[i] \in InExecutor => step[i] \in InExecutor
    BY <1>5, ZenonT(60) DEF Untouched, InExecutor
  <2>4. \A a, b \in Jobs : step'[a] \in InExecutor /\ step'[b] \in InExecutor => a = b
    BY <2>2, <2>3, ZenonT(60) DEF InChargeInv
  <2>5. \A i \in Jobs : step'[i] = "invoking" => Plan(request'[i], Observe(host'))
    BY <1>1, <1>5, <2>2, ZenonT(60) DEF InChargeInv, Untouched
  <2>6. ASSUME NEW e \in Executors, kerf'[e] # None
        PROVE  /\ step'[kerf'[e].job] = "running"
               /\ ~kerf'[e].applied => /\ Plan(request'[kerf'[e].job], Observe(host'))
                                       /\ MutatesKernel(request'[kerf'[e].job])
    <3>1. kerf'[e] = kerf[e] /\ kerf[e] # None
      BY <2>6
    <3>2. kerf[e].job \in Jobs /\ step[kerf[e].job] = "running"
      BY <1>0, <2>2, <3>1, ZenonT(60) DEF InChargeInv
    <3>4. ~kerf[e].applied => /\ Plan(request[kerf[e].job], Observe(host))
                              /\ MutatesKernel(request[kerf[e].job])
      BY <2>2, <3>1, ZenonT(60) DEF InChargeInv
    <3>3. kerf[e].job # j
      <4> SUFFICES ASSUME kerf[e].job = j PROVE FALSE
        OBVIOUS
      <4>1. e = e0 /\ step[j] = "running"
        BY <1>0, <3>1, <3>2
      <4>2. kerf'[e] = None
        BY <2>0, <4>1
      <4> QED
        BY <2>6, <4>2, ZenonT(60)
    <3> QED
      BY <1>1, <1>5, <3>1, <3>2, <3>3, <3>4, ZenonT(60) DEF Untouched
  <2>7. probe' # None /\ step'[probe'.job] = "preflight" =>
          /\ probe'.pool = PoolView(host')
          /\ probe'.instances = host'.instances
          /\ probe'.topology = Cpus \ host'.cpus
    BY <1>1, <1>5, <2>2, ZenonT(60) DEF InChargeInv, Untouched
  <2> QED
    BY <1>1, <2>2, <2>4, <2>5, <2>6, <2>7, ZenonT(60) DEF InChargeInv
<1> QED
  BY <1>5, <1>6, <1>7, Pack, ZenonT(60)

LEMMA JobStepKeeps ==
  ASSUME ControlInv, NEW j \in Jobs, JobStep(j)
  PROVE  RowsInv'
<1>0. TypeOK
  BY Unpack, Zenon
<1> DEFINE e == Executor(request[j])
<1>1. CASE Acquire(j)
  BY <1>1, AcquireKeeps
<1>2. CASE SpawnKerf(j)
  BY <1>2, SpawnKerfKeeps
<1>3. CASE SpawnKerfFails(j)
  <2>1. /\ step[j] = "invoking" /\ Returns(j, "failed")
        /\ kerf' = kerf /\ UNCHANGED <<host, inventoryVars, orphans, restarts>>
    BY <1>3 DEF SpawnKerfFails
  <2>2. kerf' \in [Executors -> Processes \cup {None}]
    BY <1>0, <2>1 DEF TypeOK
  <2> QED
    BY <2>1, <2>2, ReturnsKeeps
<1>4. CASE KerfExits(j)
  <2>1. /\ step[j] = "running" /\ kerf' = [kerf EXCEPT ![e] = None]
        /\ UNCHANGED <<host, inventoryVars, orphans, restarts>>
    BY <1>4 DEF KerfExits
  <2>2. PICK outcome \in {"ok", "failed"} : Returns(j, outcome)
    BY <1>4 DEF KerfExits
  <2>3. /\ kerf' \in [Executors -> Processes \cup {None}]
        /\ \A x \in Executors : kerf'[x] # None => kerf'[x] = kerf[x]
        /\ kerf'[e] = None
    BY <1>0, <2>1, ExecutorType DEF TypeOK
  <2> QED
    BY <2>1, <2>2, <2>3, ReturnsKeeps
<1>5. CASE KerfTimesOut(j)
  <2>1. step[j] = "running" /\ UNCHANGED <<host, inventoryVars, orphans, restarts>>
    BY <1>5 DEF KerfTimesOut
  <2>2. CASE kerf' = [kerf EXCEPT ![e] = None] /\ Returns(j, "timeout")
    <3>1. /\ kerf' \in [Executors -> Processes \cup {None}]
          /\ \A x \in Executors : kerf'[x] # None => kerf'[x] = kerf[x]
          /\ kerf'[e] = None
      BY <1>0, <2>2, ExecutorType DEF TypeOK
    <3> QED
      BY <2>1, <2>2, <3>1, ReturnsKeeps
  <2>3. CASE UNCHANGED kerf /\ Returns(j, "outlived")
    <3>1. kerf' \in [Executors -> Processes \cup {None}]
      BY <1>0, <2>3 DEF TypeOK
    <3> QED
      BY <2>1, <2>3, <3>1, ReturnsKeeps
  <2> QED
    BY <1>5, <2>2, <2>3 DEF KerfTimesOut
<1> QED
  BY <1>1, <1>2, <1>3, <1>4, <1>5 DEF JobStep

-----------------------------------------------------------------------------
(* Kerf processes and restarts.                                            *)

LEMMA KerfAppliesKeeps ==
  ASSUME ControlInv, NEW e \in Executors, KerfApplies(e)
  PROVE  RowsInv'
<1>0. /\ TypeOK /\ \A i \in Jobs : Row(i)
      /\ probe # None => step[probe.job] \in Refreshing /\ probe.job \in Jobs
      /\ \A x \in Executors : kerf[x] # None =>
           /\ kerf[x] \in Processes
           /\ kerf[x].job \in Jobs
           /\ request[kerf[x].job] # None
           /\ Executor(request[kerf[x].job]) = x
      /\ OneExecutorInCharge => InChargeInv
  BY Unpack, Zenon
<1>1. /\ kerf[e] # None /\ ~kerf[e].applied /\ Applicable(request[kerf[e].job])
      /\ host' \in Apply(request[kerf[e].job], host)
      /\ kerf' = [kerf EXCEPT ![e] = [kerf[e] EXCEPT !.applied = TRUE]]
      /\ UNCHANGED <<current, probe, hung, jobVars, step, saw, request, process, result,
                     orphans, restarts>>
  BY DEF KerfApplies, inventoryVars, jobVars
<1> DEFINE p == [kerf[e] EXCEPT !.applied = TRUE]
<1>2. p \in Processes /\ p.job = kerf[e].job /\ p.applied = TRUE
  BY <1>0, <1>1, ZenonT(60) DEF Processes
<1>3. p # None
  BY <1>2, ControlAssumption, ZenonT(60)
<1> HIDE DEF p
<1>4. kerf' = [kerf EXCEPT ![e] = p]
  BY <1>1 DEF p
<1>5. kerf \in [Executors -> Processes \cup {None}]
  BY <1>0 DEF TypeOK
<1>6. /\ kerf' \in [Executors -> Processes \cup {None}]
      /\ \A x \in Executors : kerf'[x] = (IF x = e THEN p ELSE kerf[x])
  BY <1>2, <1>4, <1>5
<1>7. request[kerf[e].job] \in Requests
  BY <1>0, <1>1, ControlAssumption DEF TypeOK
<1>8. HostTypeOK'
  BY <1>0, <1>1, <1>7, ApplyType DEF TypeOK
<1>9. TypeOK'
  BY <1>0, <1>1, <1>6, <1>8 DEF TypeOK
<1>10. \A i \in Jobs : Row(i)'
  BY <1>0, <1>1, <1>9, StandStill
<1>11. \A x \in Executors : kerf'[x] # None =>
         /\ request'[kerf'[x].job] # None
         /\ Executor(request'[kerf'[x].job]) = x
  BY <1>0, <1>1, <1>2, <1>6, SMTT(60)
<1>12. ASSUME OneExecutorInCharge' PROVE InChargeInv'
  <2>1. OneExecutorInCharge
    BY <1>1, <1>12 DEF OneExecutorInCharge
  <2>2. InChargeInv
    BY <1>0, <2>1
  <2>3. kerf[e].job \in Jobs /\ step[kerf[e].job] = "running"
    BY <1>0, <1>1, <2>2 DEF InChargeInv
  <2>4. \A i \in Jobs : step[i] \in InExecutor => step[i] = "running"
    BY <2>2, <2>3 DEF InChargeInv, InExecutor
  <2>5. ASSUME NEW x \in Executors, kerf'[x] # None
        PROVE  step'[kerf'[x].job] = "running" /\ kerf'[x].applied
    <3>1. CASE x = e
      BY <1>1, <1>2, <1>6, <2>3, <3>1
    <3>2. CASE x # e
      <4>1. kerf'[x] = kerf[x] /\ kerf[x] # None
        BY <1>6, <2>5, <3>2
      <4>2. kerf[x].job \in Jobs /\ step[kerf[x].job] = "running"
        BY <1>0, <2>2, <4>1, ZenonT(60) DEF InChargeInv
      <4>3. kerf[x].job = kerf[e].job
        BY <2>2, <2>3, <4>2 DEF InChargeInv, InExecutor
      <4> QED
        BY <1>0, <1>1, <3>2, <4>1, <4>3
    <3> QED
      BY <3>1, <3>2
  <2> QED
    BY <1>0, <1>1, <2>2, <2>4, <2>5 DEF InChargeInv, InExecutor
<1> QED
  BY <1>0, <1>1, <1>9, <1>10, <1>11, <1>12, Pack

LEMMA PendingKerfDiesKeeps ==
  ASSUME ControlInv, NEW e \in Executors, PendingKerfDies(e)
  PROVE  RowsInv'
<1>0. /\ TypeOK /\ \A i \in Jobs : Row(i)
      /\ probe # None => step[probe.job] \in Refreshing
      /\ \A x \in Executors : kerf[x] # None =>
           /\ request[kerf[x].job] # None
           /\ Executor(request[kerf[x].job]) = x
      /\ OneExecutorInCharge => InChargeInv
  BY Unpack, Zenon
<1>1. /\ kerf[e] # None /\ step[kerf[e].job] # "running"
      /\ kerf' = [kerf EXCEPT ![e] = None]
      /\ UNCHANGED <<host, current, probe, hung, jobVars, step, saw, request, process,
                     result, orphans, restarts>>
  BY ZenonT(60) DEF PendingKerfDies, inventoryVars, jobVars
<1>2. /\ kerf' \in [Executors -> Processes \cup {None}]
      /\ \A x \in Executors : kerf'[x] = (IF x = e THEN None ELSE kerf[x])
  BY <1>0, <1>1 DEF TypeOK
<1>3. TypeOK'
  BY <1>0, <1>1, <1>2, ZenonT(60) DEF TypeOK, HostTypeOK
<1>4. \A i \in Jobs : Row(i)'
  BY <1>0, <1>1, <1>3, StandStill, ZenonT(60)
<1>5. ~OneExecutorInCharge'
  BY <1>0, <1>1, ZenonT(60) DEF OneExecutorInCharge, InChargeInv
<1> QED
  BY <1>0, <1>1, <1>2, <1>3, <1>4, <1>5, Pack

LEMMA RestartKeeps ==
  ASSUME ControlInv, Restart
  PROVE  RowsInv'
<1>0. /\ TypeOK /\ \A i \in Jobs : Row(i)
      /\ \A x \in Executors : kerf[x] # None =>
           kerf[x].job \in Jobs /\ request[kerf[x].job] # None
      /\ LiveProcessesAreKnown
      /\ OneExecutorInCharge => InChargeInv
  BY Unpack, Zenon
<1> DEFINE Outlived(i) == \E e \in Unapplied : kerf[e].job = i
<1>1. /\ restarts < MaxRestarts /\ restarts' = restarts + 1
      /\ current' = None /\ probe' = None /\ hung' = FALSE
      /\ step' = [j \in Jobs |-> IF step[j] \in {"start", "seen", "done"}
                                   THEN step[j] ELSE "lost"]
      /\ orphans' = orphans \cup {request[kerf[e].job] : e \in Unapplied}
      /\ kerf' = [e \in Executors |-> None]
      /\ process' = [i \in Jobs |-> IF Outlived(i) THEN "outlived" ELSE process[i]]
      /\ UNCHANGED <<host, saw, request, result>>
  BY DEF Restart
<1>2. restarts \in Nat /\ restarts' \in 0..MaxRestarts /\ restarts' # 0
  BY <1>0, <1>1, ControlAssumption, SMTT(60) DEF TypeOK
<1>3. orphans' \subseteq Workload
  BY <1>0, <1>1, SMTT(60) DEF TypeOK, Unapplied
<1>4. TypeOK'
  <2>1. step' \in [Jobs -> Steps]
    BY <1>0, <1>1 DEF TypeOK, Steps
  <2>2. process' \in [Jobs -> {None, "ok", "failed", "timeout", "outlived"}]
    BY <1>0, <1>1 DEF TypeOK
  <2> QED
    BY <1>0, <1>1, <1>2, <1>3, <2>1, <2>2, ZenonT(60) DEF TypeOK, HostTypeOK
<1>5. \A i \in Jobs : Row(i)'
  <2> SUFFICES ASSUME NEW i \in Jobs PROVE Row(i)'
    OBVIOUS
  <2>1. step'[i] = IF step[i] \in {"start", "seen", "done"} THEN step[i] ELSE "lost"
    BY <1>1, ZenonT(60)
  <2>2. /\ process'[i] = (IF Outlived(i) THEN "outlived" ELSE process[i])
        /\ Outlived(i) => /\ request[i] # None
                          /\ step[i] = "running" \/ process[i] = "outlived"
    BY <1>0, <1>1, ZenonT(60) DEF Unapplied, LiveProcessesAreKnown
  <2> HIDE DEF Outlived
  <2>3. JobInv(i)'
    BY <1>0, <1>1, <1>2, <2>1, <2>2, ZenonT(60) DEF Row, JobInv, InExecutor
  <2>4. Honest(i)'
    BY <1>0, <1>1, <2>2, ControlAssumption, ZenonT(60) DEF Row, Honest, JobInv
  <2> QED
    BY <1>2, <2>3, <2>4 DEF Row
<1>6. ASSUME OneExecutorInCharge' PROVE InChargeInv'
  <2>1. \A i \in Jobs : ~Outlived(i) /\ process'[i] = process[i]
    BY <1>1, <1>6, ZenonT(60) DEF OneExecutorInCharge
  <2>2. OneExecutorInCharge
    BY <1>1, <1>6, <2>1, ZenonT(60) DEF OneExecutorInCharge
  <2>3. Unapplied = {}
    BY <1>0, <2>1 DEF Unapplied
  <2>4. orphans' = {}
    BY <1>0, <1>1, <2>2, <2>3 DEF InChargeInv
  <2>5. \A i \in Jobs : step'[i] \notin InExecutor
    BY <1>1, ZenonT(60) DEF InExecutor
  <2>6. \A e \in Executors : kerf'[e] = None
    BY <1>1
  <2> QED
    BY <1>1, <2>4, <2>5, <2>6, ZenonT(60) DEF InChargeInv, InExecutor
<1> QED
  BY <1>1, <1>4, <1>5, <1>6, Pack, ZenonT(60)

LEMMA OrphanEndsKeeps ==
  ASSUME ControlInv, NEW r \in orphans, OrphanEnds(r)
  PROVE  RowsInv'
<1>0. /\ TypeOK /\ \A i \in Jobs : Row(i)
      /\ probe # None => step[probe.job] \in Refreshing
      /\ \A x \in Executors : kerf[x] # None =>
           /\ request[kerf[x].job] # None
           /\ Executor(request[kerf[x].job]) = x
      /\ OneExecutorInCharge => InChargeInv
  BY Unpack, Zenon
<1>1. /\ orphans' = orphans \ {r}
      /\ (Applicable(r) /\ host' \in Apply(r, host)) \/ host' = host
      /\ UNCHANGED <<current, probe, hung, jobVars, step, saw, request, process, result,
                     kerf, restarts>>
  BY DEF OrphanEnds, inventoryVars, jobVars
<1>2. r \in Requests
  BY <1>0, ControlAssumption DEF TypeOK
<1>3. HostTypeOK'
  <2>1. CASE host' = host
    BY <1>0, <2>1 DEF TypeOK, HostTypeOK
  <2>2. CASE Applicable(r) /\ host' \in Apply(r, host)
    BY <1>0, <1>2, <2>2, ApplyType DEF TypeOK
  <2> QED
    BY <1>1, <2>1, <2>2
<1>4. TypeOK'
  BY <1>0, <1>1, <1>3 DEF TypeOK
<1>5. \A i \in Jobs : Row(i)'
  BY <1>0, <1>1, <1>4, StandStill
<1>6. ~OneExecutorInCharge'
  BY <1>0, <1>1, ZenonT(60) DEF OneExecutorInCharge, InChargeInv
<1> QED
  BY <1>0, <1>1, <1>4, <1>5, <1>6, Pack, ZenonT(60)

(***************************************************************************)
(* Every step keeps track of the processes that are still alive.           *)
(***************************************************************************)
LEMMA ProcessesStayKnown ==
  ASSUME ControlInv, [Next]_vars
  PROVE  LiveProcessesAreKnown'
<1>0. /\ TypeOK /\ step \in [Jobs -> Steps] /\ kerf \in [Executors -> Processes \cup {None}]
      /\ process \in [Jobs -> {None, "ok", "failed", "timeout", "outlived"}]
      /\ \A e \in Executors : kerf[e] # None =>
           kerf[e].job \in Jobs /\ Executor(request[kerf[e].job]) = e
      /\ \A j \in Jobs : step[j] = "invoking" => process[j] # "outlived"
      /\ LiveProcessesAreKnown
  <2>1. TypeOK /\ \A j \in Jobs : JobInv(j)
    BY DEF ControlInv
  <2>2. \A j \in Jobs : step[j] = "invoking" => process[j] # "outlived"
    BY <2>1, ControlAssumption DEF JobInv
  <2> QED
    BY <2>1, <2>2 DEF ControlInv, TypeOK, Processes
<1> DEFINE Held(e) ==
      kerf'[e] # None => step'[kerf'[e].job] = "running" \/ process'[kerf'[e].job] = "outlived"
<1>1. ASSUME NEW e \in Executors, NEW j \in Jobs, kerf'[e] = kerf[e],
             \A i \in Jobs \ {j} : step'[i] = step[i] /\ process'[i] = process[i],
             \/ step[j] # "running" /\ process'[j] = process[j]
             \/ process'[j] = "outlived"
             \/ step[j] = "invoking"
             \/ Executor(request[j]) # e
      PROVE  Held(e)
  BY <1>0, <1>1 DEF LiveProcessesAreKnown
<1>2. ASSUME NEW j \in Jobs, RefreshStep(j) \/ ProbeStep(j) \/ Submit(j) \/ Acquire(j),
             NEW e \in Executors
      PROVE  Held(e)
  <2>1. UNCHANGED <<kerf, process>>
    BY <1>2 DEF RefreshStep, BeginProbe, RefuseProbe, ProbeStep, EndProbe, FailProbe, Continue,
                ReadSnapshot, Preflight, Postflight, Submit, Acquire, jobVars
  <2>2. /\ \A i \in Jobs \ {j} : step'[i] = step[i]
        /\ step[j] # "running"
    BY <1>0, <1>2
    DEF RefreshStep, BeginProbe, RefuseProbe, ProbeStep, EndProbe, FailProbe, Continue,
        ReadSnapshot, Preflight, Postflight, Submit, Acquire, Record, Enter, jobVars, Refreshing
  <2> QED
    BY <1>1, <2>1, <2>2
<1>3. ASSUME NEW j \in Jobs, SpawnKerf(j), NEW e \in Executors
      PROVE  Held(e)
  <2>1. /\ step[j] = "invoking" /\ step'[j] = "running" /\ process' = process
        /\ \A i \in Jobs \ {j} : step'[i] = step[i]
        /\ Executor(request[j]) # e => kerf'[e] = kerf[e]
        /\ Executor(request[j]) = e => kerf'[e].job = j
    BY <1>0, <1>3 DEF SpawnKerf, Enter
  <2> QED
    BY <1>1, <2>1
<1>4. ASSUME NEW j \in Jobs, SpawnKerfFails(j), NEW e \in Executors
      PROVE  Held(e)
  <2>1. /\ step[j] = "invoking" /\ kerf' = kerf
        /\ \A i \in Jobs \ {j} : step'[i] = step[i] /\ process'[i] = process[i]
    BY <1>0, <1>4 DEF SpawnKerfFails, Returns, Enter
  <2> QED
    BY <1>1, <2>1
<1>5. ASSUME NEW j \in Jobs, KerfExits(j) \/ KerfTimesOut(j), NEW e \in Executors
      PROVE  Held(e)
  <2>1. /\ \A i \in Jobs \ {j} : step'[i] = step[i] /\ process'[i] = process[i]
        /\ kerf'[e] \in {None, kerf[e]}
        /\ Executor(request[j]) # e => kerf'[e] = kerf[e]
        /\ Executor(request[j]) = e => kerf'[e] = None \/ process'[j] = "outlived"
    BY <1>0, <1>5 DEF KerfExits, KerfTimesOut, Returns, Enter
  <2> QED
    BY <1>1, <2>1
<1>6. ASSUME NEW d \in Executors, KerfApplies(d) \/ PendingKerfDies(d), NEW e \in Executors
      PROVE  Held(e)
  <2>1. UNCHANGED <<step, process>> /\ kerf[d] # None
    BY <1>6 DEF KerfApplies, PendingKerfDies, jobVars
  <2>2. CASE KerfApplies(d)
    <3>1. kerf' = [kerf EXCEPT ![d] = [kerf[d] EXCEPT !.applied = TRUE]]
      BY <2>2 DEF KerfApplies
    <3>2. [kerf[d] EXCEPT !.applied = TRUE].job = kerf[d].job
      BY <1>0, <2>1 DEF Processes
    <3>3. kerf'[e] = kerf[e] \/ (e = d /\ kerf'[e].job = kerf[e].job)
      BY <1>0, <3>1, <3>2
    <3> QED
      BY <1>0, <2>1, <3>3 DEF LiveProcessesAreKnown
  <2>3. CASE PendingKerfDies(d)
    <3>1. kerf'[e] \in {None, kerf[e]}
      BY <1>0, <2>3 DEF PendingKerfDies
    <3> QED
      BY <1>0, <2>1, <3>1 DEF LiveProcessesAreKnown
  <2> QED
    BY <1>6, <2>2, <2>3
<1>7. ASSUME Restart, NEW e \in Executors PROVE Held(e)
  BY <1>7 DEF Restart
<1>8. ASSUME ProbeDies \/ (\E r \in orphans : OrphanEnds(r)) \/ UNCHANGED vars,
             NEW e \in Executors
      PROVE  Held(e)
  BY <1>0, <1>8 DEF LiveProcessesAreKnown, ProbeDies, OrphanEnds, vars, jobVars
<1>9. \A e \in Executors : Held(e)
  BY <1>2, <1>3, <1>4, <1>5, <1>6, <1>7, <1>8 DEF Next, JobStep
<1> QED
  BY <1>9 DEF LiveProcessesAreKnown

-----------------------------------------------------------------------------
(* Theorems.                                                               *)

(***************************************************************************)
(* ControlInv holds in every reachable state, whatever the clients ask     *)
(* for, however Kerf and the probes fail, and however often the daemon of  *)
(* inventory.rs and the two executors restarts.                            *)
(***************************************************************************)
THEOREM ControlInvariant == Safety => []ControlInv
<1>1. Init => ControlInv
  <2> SUFFICES ASSUME Init PROVE ControlInv
    OBVIOUS
  <2>1. TypeOK
    <3>1. HostTypeOK /\ restarts \in 0..MaxRestarts
      BY ControlAssumption, SMTT(60) DEF Init, HostTypeOK
    <3>2. step \in [Jobs -> Steps]
      BY DEF Init, Steps
    <3>3. /\ saw \in [Jobs -> Snapshots \cup {None}]
          /\ request \in [Jobs -> Workload \cup {None}]
          /\ kerf \in [Executors -> Processes \cup {None}]
          /\ process \in [Jobs -> {None, "ok", "failed", "timeout", "outlived"}]
          /\ result \in [Jobs -> Results \cup {None}]
      BY DEF Init
    <3> QED
      BY <3>1, <3>2, <3>3, ZenonT(60) DEF Init, TypeOK
  <2>2. \A j \in Jobs : JobInv(j) /\ Honest(j) /\ Shown(j)
    BY DEF Init, JobInv, Honest, Shown, Judged, InExecutor
  <2>3. InChargeInv
    BY ZenonT(60) DEF Init, InChargeInv, InExecutor
  <2>4. probe = None /\ \A e \in Executors : kerf[e] = None
    BY DEF Init
  <2> QED
    BY <2>1, <2>2, <2>3, <2>4, ZenonT(60)
    DEF ControlInv, LiveProcessesAreKnown, RejectedNeverRan, ObservedGenerationShowsResult,
        Honest, Shown
<1>2. ASSUME ControlInv, [Next]_vars PROVE RowsInv'
  <2>1. CASE \E j \in Jobs : RefreshStep(j) \/ ProbeStep(j) \/ Submit(j) \/ JobStep(j)
    BY <1>2, <2>1, BeginProbeKeeps, RefreshEnds, SubmitKeeps, JobStepKeeps, Zenon
    DEF RefreshStep
  <2>2. CASE \E e \in Executors : KerfApplies(e) \/ PendingKerfDies(e)
    BY <1>2, <2>2, KerfAppliesKeeps, PendingKerfDiesKeeps, Zenon
  <2>3. CASE ProbeDies
    BY <1>2, <2>3, ProbeDiesKeeps
  <2>4. CASE Restart
    BY <1>2, <2>4, RestartKeeps
  <2>5. CASE \E r \in orphans : OrphanEnds(r)
    BY <1>2, <2>5, OrphanEndsKeeps, Zenon
  <2>6. CASE UNCHANGED vars
    <3>0. /\ TypeOK /\ \A i \in Jobs : Row(i)
          /\ probe # None => step[probe.job] \in Refreshing
          /\ \A x \in Executors : kerf[x] # None =>
               /\ request[kerf[x].job] # None
               /\ Executor(request[kerf[x].job]) = x
          /\ OneExecutorInCharge => InChargeInv
      BY <1>2, Unpack, Zenon
    <3>1. UNCHANGED <<host, current, probe, hung, jobVars, step, saw, request, process,
                      result, kerf, orphans, restarts>>
      BY <2>6 DEF vars, inventoryVars, jobVars
    <3>2. TypeOK'
      BY <3>0, <3>1 DEF TypeOK, HostTypeOK
    <3>3. \A i \in Jobs : Row(i)'
      BY <3>0, <3>1, <3>2, StandStill, ZenonT(60)
    <3>4. OneExecutorInCharge' => InChargeInv'
      BY <3>0, <3>1, ZenonT(60) DEF OneExecutorInCharge, InChargeInv
    <3> QED
      BY <3>0, <3>1, <3>2, <3>3, <3>4, Pack, ZenonT(60)
  <2> QED
    BY <1>2, <2>1, <2>2, <2>3, <2>4, <2>5, <2>6 DEF Next
<1>3. ControlInv /\ [Next]_vars => RowsInv' /\ LiveProcessesAreKnown'
  BY <1>2, ProcessesStayKnown
<1> QED
  BY <1>1, <1>3, Rows, PTL DEF Safety

(***************************************************************************)
(* "operation was rejected before execution" is never said of a request    *)
(* that reached Kerf, restarts included: RejectedNeverRan.                 *)
(***************************************************************************)
THEOREM Rejections == Safety => []RejectedNeverRan
<1>1. ControlInv => RejectedNeverRan
  BY DEF ControlInv
<1> QED
  BY <1>1, ControlInvariant, PTL

(***************************************************************************)
(* Within one life of the daemon, the snapshot at the generation that an   *)
(* outcome reports shows that outcome: ObservedGenerationShowsResult.      *)
(***************************************************************************)
THEOREM OutcomesShow ==
  ASSUME MaxRestarts = 0
  PROVE  Safety => []ObservedGenerationShowsResult
<1>1. ControlInv => ObservedGenerationShowsResult
  <2>1. TypeOK => restarts = 0
    BY SMTT(60) DEF TypeOK
  <2> QED
    BY <2>1 DEF ControlInv
<1> QED
  BY <1>1, ControlInvariant, PTL

(***************************************************************************)
(* A runner waits for its previous process: OneKerfPerRunner.              *)
(***************************************************************************)
THEOREM OneKerf == Safety => OneKerfPerRunner
<1> DEFINE Same == \A e \in Executors :
                     kerf[e] # None /\ kerf'[e] # None => kerf'[e].job = kerf[e].job
<1>1. ASSUME ControlInv, [Next]_vars PROVE Same
  <2>0. /\ TypeOK
        /\ \A e \in Executors : kerf[e] # None => kerf[e] \in Processes
    BY <1>1, Unpack, Zenon
  <2>1. kerf \in [Executors -> Processes \cup {None}]
    BY <2>0 DEF TypeOK
  <2>2. ASSUME NEW j \in Jobs, SpawnKerf(j) PROVE Same
    BY <2>1, <2>2, ExecutorType DEF SpawnKerf
  <2>3. ASSUME NEW j \in Jobs, KerfExits(j) PROVE Same
    BY <2>1, <2>3, ExecutorType DEF KerfExits
  <2>4. ASSUME NEW j \in Jobs, KerfTimesOut(j) PROVE Same
    BY <2>1, <2>4, ExecutorType DEF KerfTimesOut
  <2>5. ASSUME NEW j \in Jobs,
               RefreshStep(j) \/ ProbeStep(j) \/ Submit(j) \/ Acquire(j) \/ SpawnKerfFails(j)
        PROVE  Same
    <3>1. kerf' = kerf
      BY <2>5, ZenonT(60) DEF RefreshStep, ProbeStep, BeginProbe, RefuseProbe, EndProbe, FailProbe,
         Submit, Acquire, SpawnKerfFails
    <3> QED
      BY <3>1
  <2>6. ASSUME NEW x \in Executors, KerfApplies(x) PROVE Same
    <3>1. kerf' = [kerf EXCEPT ![x] = [kerf[x] EXCEPT !.applied = TRUE]] /\ kerf[x] # None
      BY <2>6 DEF KerfApplies
    <3>2. [kerf[x] EXCEPT !.applied = TRUE].job = kerf[x].job
      BY <2>0, <3>1 DEF Processes
    <3> QED
      BY <2>1, <3>1, <3>2
  <2>7. ASSUME NEW x \in Executors, PendingKerfDies(x) PROVE Same
    BY <2>1, <2>7 DEF PendingKerfDies
  <2>8. ASSUME Restart PROVE Same
    BY <2>8 DEF Restart
  <2>9. ASSUME ProbeDies \/ (\E r \in orphans : OrphanEnds(r)) \/ UNCHANGED vars PROVE Same
    <3>1. kerf' = kerf
      BY <2>9 DEF ProbeDies, OrphanEnds, vars
    <3> QED
      BY <3>1
  <2> HIDE DEF Same
  <2> QED
    BY <1>1, <2>2, <2>3, <2>4, <2>5, <2>6, <2>7, <2>8, <2>9, Zenon DEF Next, JobStep
<1> QED
  BY <1>1, ControlInvariant, PTL DEF Safety, OneKerfPerRunner

(***************************************************************************)
(* Within one life of the daemon, a request that passes preflight is       *)
(* executed against the view its client read: ActsOnWhatClientSaw.         *)
(***************************************************************************)
THEOREM StaleFailsClosed ==
  ASSUME MaxRestarts = 0
  PROVE  Safety => ActsOnWhatClientSaw
<1> DEFINE Fresh == \A j \in Jobs : step[j] = "preflight" /\ step'[j] = "invoking" =>
                      current'.view = saw[j].view
<1>1. ASSUME ControlInv, [Next]_vars PROVE Fresh
  <2>0. TypeOK /\ \A i \in Jobs : Row(i)
    BY <1>1, Unpack, Zenon
  <2>1. restarts = 0
    BY <2>0, SMTT(60) DEF TypeOK
  <2>2. JobTypeOK
    BY <2>0 DEF TypeOK, JobTypeOK
  <2>3. ASSUME NEW j \in Jobs, EndProbe(j) PROVE Fresh
    <3>1. /\ probe # None /\ restarts' = restarts
          /\ Continue(j, [healthy |-> TRUE, snapshot |-> current'])
      BY <2>3 DEF EndProbe, Healthy
    <3>5. PICK early \in SUBSET InstanceIds : current' = Published(ProbedView(early))
      BY <2>3 DEF EndProbe
    <3>2. current' \in Snapshots /\ current' # None /\ Advances
      BY <2>0, <3>1, <3>5, ProbedViewType, PublishedLemma
    <3>3. /\ \A i \in Jobs \ {j} : Untouched(i)
          /\ step'[j] = "invoking" =>
               step[j] = "preflight" /\ current'.generation = saw[j].generation
      BY <2>0, <3>1, <3>2, ContinueLemma, ZenonT(60)
    <3>4. ASSUME step[j] = "preflight", step'[j] = "invoking"
          PROVE  current'.view = saw[j].view
      <4>1. saw[j] # None /\ Before(saw[j])
        BY <2>0, <2>1, <3>4, ZenonT(60) DEF Row, JobInv, InExecutor
      <4>2. /\ current.generation \in Nat /\ current'.generation \in Nat
            /\ saw[j].generation \in Nat
        BY <2>0, <3>2, <4>1, ZenonT(60) DEF TypeOK, Snapshots, Before
      <4> QED
        BY <3>2, <3>3, <3>4, <4>1, <4>2, SMTT(60) DEF Before, Advances
    <3> QED
      BY <3>3, <3>4 DEF Untouched
  <2>4. ASSUME NEW j \in Jobs, FailProbe(j) \/ RefuseProbe(j) PROVE Fresh
    <3>1. step[j] # "preflight" \/ step' = [step EXCEPT ![j] = "done"]
      BY <2>4, ZenonT(60) DEF FailProbe, RefuseProbe, Continue, ReadSnapshot, Preflight, Postflight,
         Unhealthy, Record, Enter
    <3>2. \E next : step' = [step EXCEPT ![j] = next]
      BY <2>4, ZenonT(60) DEF FailProbe, RefuseProbe, Continue, ReadSnapshot, Preflight, Postflight,
         Record, Enter
    <3> QED
      BY <2>2, <3>1, <3>2 DEF JobTypeOK
  <2>5. ASSUME NEW j \in Jobs, Submit(j) \/ JobStep(j) PROVE Fresh
    <3>1. \E next \in {"queued", "preflight", "running", "postflight"} :
            step' = [step EXCEPT ![j] = next]
      BY <2>5 DEF Submit, JobStep, Acquire, SpawnKerf, SpawnKerfFails, KerfExits,
         KerfTimesOut, Returns, Enter
    <3> QED
      BY <2>2, <3>1 DEF JobTypeOK
  <2>6. ASSUME Restart PROVE Fresh
    BY <2>6, ZenonT(60) DEF Restart
  <2>7. ASSUME \/ \E j \in Jobs : BeginProbe(j)
               \/ \E e \in Executors : KerfApplies(e) \/ PendingKerfDies(e)
               \/ ProbeDies \/ (\E r \in orphans : OrphanEnds(r)) \/ UNCHANGED vars
        PROVE  Fresh
    <3>1. step' = step
      BY <2>7 DEF BeginProbe, KerfApplies, PendingKerfDies, ProbeDies, OrphanEnds,
         jobVars, vars
    <3> QED
      BY <3>1, ZenonT(60)
  <2> HIDE DEF Fresh
  <2> QED
    BY <1>1, <2>3, <2>4, <2>5, <2>6, <2>7, Zenon DEF Next, RefreshStep, ProbeStep
<1> QED
  BY <1>1, ControlInvariant, PTL DEF Safety, ActsOnWhatClientSaw

(***************************************************************************)
(* While one executor is in charge and no Kerf process outlives its runner *)
(* or its daemon, every change Kerf makes is a step of the lifecycle       *)
(* specification, planned for the state it is made in, whatever was killed *)
(* at its deadline and however often the daemon restarted:                 *)
(* ExecutorsActAsPlanned.                                                  *)
(***************************************************************************)
THEOREM ActsAsPlanned == Safety => ExecutorsActAsPlanned
<1>1. ASSUME ControlInv, [Next]_vars PROVE [OneExecutorInCharge => PlacementNext]_host
  <2> SUFFICES ASSUME OneExecutorInCharge, host' # host PROVE PlacementNext
    BY Zenon
  <2>0. /\ TypeOK
        /\ \A x \in Executors : kerf[x] # None =>
             kerf[x].job \in Jobs /\ request[kerf[x].job] # None
        /\ OneExecutorInCharge => InChargeInv
    BY <1>1, Unpack, Zenon
  <2>1. InChargeInv
    BY <2>0
  <2>2. PICK e \in Executors : KerfApplies(e)
    <3>1. orphans = {}
      BY <2>1, ZenonT(60) DEF InChargeInv
    <3>2. ASSUME NEW j \in Jobs PROVE ~(RefreshStep(j) \/ ProbeStep(j) \/ Submit(j) \/ JobStep(j))
      BY ZenonT(60) DEF RefreshStep, ProbeStep, JobStep, BeginProbe, RefuseProbe, EndProbe, FailProbe,
         Submit, Acquire, SpawnKerf, SpawnKerfFails, KerfExits, KerfTimesOut
    <3>3. ~ProbeDies /\ ~Restart /\ ~UNCHANGED vars
      BY DEF ProbeDies, Restart, vars
    <3>4. \A e \in Executors : ~PendingKerfDies(e)
      BY DEF PendingKerfDies
    <3> QED
      BY <1>1, <3>1, <3>2, <3>3, <3>4, Zenon DEF Next
  <2>3. /\ kerf[e] # None /\ ~kerf[e].applied
        /\ host' \in Apply(request[kerf[e].job], host)
    BY <2>2 DEF KerfApplies
  <2>4. request[kerf[e].job] \in Requests
    BY <2>0, <2>3, ControlAssumption DEF TypeOK
  <2>5. Plan(request[kerf[e].job], Observe(host)) /\ MutatesKernel(request[kerf[e].job])
    BY <2>1, <2>3, ZenonT(60) DEF InChargeInv
  <2> QED
    BY <2>3, <2>4, <2>5, PlannedStep, ZenonT(60)
<1> QED
  BY <1>1, ControlInvariant, PTL DEF Safety, ExecutorsActAsPlanned

(***************************************************************************)
(* So Lifecycle's ownership invariants carry over to the concurrent        *)
(* executors of lifecycle_executor.rs and resource_pool.rs: a daemon that  *)
(* finds every CPU, byte, device and name with one owner keeps it so,      *)
(* across restarts and killed processes, as long as one executor is in     *)
(* charge and no process is left behind (ResourcesHaveOneOwner).           *)
(***************************************************************************)
THEOREM OwnershipCarriesOver ==
  Safety /\ ResourcesHaveOneOwner /\ []OneExecutorInCharge => []ResourcesHaveOneOwner
<1>1. ASSUME ResourcesHaveOneOwner, OneExecutorInCharge,
             [OneExecutorInCharge => PlacementNext]_host
      PROVE  ResourcesHaveOneOwner'
  <2>1. CASE PlacementNext
    BY <1>1, <2>1, CreatePreserves, UpdatePreserves, StatePreserves, DeletePreserves,
       PoolPreserves, Zenon DEF PlacementNext
  <2>2. CASE UNCHANGED host
    BY <1>1, <2>2, ZenonT(60) DEF ResourcesHaveOneOwner, HostTypeOK, CpuOwnership, MemoryOwnership,
       DeviceOwnership, IdentityIsUnique, Present, Peers
  <2> QED
    BY <1>1, <2>1, <2>2
<1> QED
  BY <1>1, ActsAsPlanned, PTL DEF ExecutorsActAsPlanned

-----------------------------------------------------------------------------
(* Why jobs finish: the safety half of JobsFinish.                         *)

\* A submitted job that has no answer yet.
InHand(j) == step[j] \in {"queued"} \cup InExecutor

\* The guards of RefreshStep, ProbeStep and JobStep.
RefreshReady(j) == step[j] \in Refreshing /\ probe = None

ProbeReady(j) == probe # None /\ probe.job = j /\ step[j] \in Refreshing

JobReady(j) ==
  \/ step[j] = "queued" /\ ~Busy(Executor(request[j]))
  \/ step[j] \in {"invoking", "running"}

Ready(j) == RefreshReady(j) \/ ProbeReady(j) \/ JobReady(j)

(***************************************************************************)
(* Nobody waits for a job that waits itself: a submitted job can go on, or *)
(* the one that has its executor can, or the one whose probe holds the     *)
(* inventory's lock.  The locks are taken in that order, and neither a     *)
(* blocked Kerf process nor a hung probe keeps one.                        *)
(***************************************************************************)
NoJobWaitsInVain ==
  \A j \in Jobs : InHand(j) =>
    \/ Ready(j)
    \/ probe # None /\ ProbeReady(probe.job)
    \/ \E i \in Jobs : /\ step[i] \in InExecutor
                       /\ Executor(request[i]) = Executor(request[j])
                       /\ Ready(i)

\* An upper bound on the steps of a job up to its answer.
StepsLeft(j) ==
  CASE step[j] = "queued" -> 8
    [] step[j] = "preflight" -> IF probe # None /\ probe.job = j THEN 6 ELSE 7
    [] step[j] = "invoking" -> 5
    [] step[j] = "running" -> 4
    [] step[j] = "postflight" -> IF probe # None /\ probe.job = j THEN 2 ELSE 3
    [] OTHER -> 0

(***************************************************************************)
(* No step takes a submitted job back: each of its own steps brings it     *)
(* closer to its answer, and no step of another job, of a Kerf process, of *)
(* a dying probe or of a restart pushes it away.                           *)
(***************************************************************************)
JobsProgress ==
  [][\A j \in Jobs : InHand(j) =>
       /\ StepsLeft(j)' <= StepsLeft(j)
       /\ RefreshStep(j) \/ ProbeStep(j) \/ JobStep(j) => StepsLeft(j)' < StepsLeft(j)]_vars

(***************************************************************************)
(* The converse of the flaw that FailedMutationIsOver shows: a result is   *)
(* overtaken by its own Kerf process only if that process had outlived its *)
(* deadline, and then it is a judgement of what was observed, not a        *)
(* rejection.                                                              *)
(***************************************************************************)
OnlyTimeoutsOvertakeResults ==
  [][\A e \in Executors :
       /\ kerf[e] # None /\ ~kerf[e].applied
       /\ kerf'[e] # None /\ kerf'[e].applied
       /\ result[kerf[e].job] # None
       => /\ process[kerf[e].job] = "outlived"
          /\ result[kerf[e].job].kind = "outcome"]_vars

LEMMA SomebodyIsReady ==
  ASSUME ControlInv
  PROVE  NoJobWaitsInVain
<1>0. TypeOK /\ (probe # None => step[probe.job] \in Refreshing)
  BY DEF ControlInv
<1>1. ASSUME NEW i \in Jobs, step[i] \in InExecutor
      PROVE  Ready(i) \/ (probe # None /\ ProbeReady(probe.job))
  <2>1. step[i] \in {"invoking", "running"} => Ready(i)
    BY DEF Ready, JobReady
  <2>2. step[i] \in {"preflight", "postflight"} /\ probe = None => Ready(i)
    BY DEF Ready, RefreshReady, Refreshing
  <2>3. CASE probe # None
    BY <1>0, <2>3 DEF ProbeReady
  <2>4. step[i] \in {"preflight", "invoking", "running", "postflight"}
    BY <1>1 DEF InExecutor
  <2> QED
    BY <2>1, <2>2, <2>3, <2>4
<1>2. ASSUME NEW j \in Jobs, step[j] = "queued"
      PROVE  \/ Ready(j)
             \/ probe # None /\ ProbeReady(probe.job)
             \/ \E i \in Jobs : /\ step[i] \in InExecutor
                                /\ Executor(request[i]) = Executor(request[j])
                                /\ Ready(i)
  <2>1. CASE ~Busy(Executor(request[j]))
    BY <1>2, <2>1 DEF Ready, JobReady
  <2>2. CASE Busy(Executor(request[j]))
    <3>1. PICK i \in Jobs : step[i] \in InExecutor /\ Executor(request[i]) = Executor(request[j])
      BY <2>2 DEF Busy
    <3> QED
      BY <1>1, <3>1
  <2> QED
    BY <2>1, <2>2
<1> QED
  BY <1>1, <1>2 DEF NoJobWaitsInVain, InHand

(***************************************************************************)
(* Where a step of a submitted job takes it.                               *)
(***************************************************************************)
LEMMA JobMovesOn ==
  ASSUME ControlInv, NEW j \in Jobs, InHand(j), RefreshStep(j) \/ ProbeStep(j) \/ JobStep(j)
  PROVE  \/ step[j] = "queued" /\ step'[j] = "preflight"
         \/ step[j] = "preflight" /\ step'[j] \in {"invoking", "done"}
         \/ step[j] = "invoking" /\ step'[j] \in {"running", "postflight"}
         \/ step[j] = "running" /\ step'[j] = "postflight"
         \/ step[j] = "postflight" /\ step'[j] = "done"
         \/ /\ step[j] \in {"preflight", "postflight"} /\ step'[j] = step[j]
            /\ probe = None /\ probe' # None /\ probe'.job = j
<1>0. TypeOK /\ step \in [Jobs -> Steps]
  BY DEF ControlInv, TypeOK
<1>1. CASE BeginProbe(j)
  <2>1. /\ step[j] \in Refreshing /\ probe = None /\ UNCHANGED step
        /\ probe' = [job |-> j, pool |-> PoolView(host), instances |-> host.instances,
                   topology |-> Cpus \ host.cpus]
    BY <1>1 DEF BeginProbe, jobVars
  <2>2. probe' \in Probes
    BY <1>0, <2>1, HostFields DEF TypeOK, PoolView, Probes
  <2>3. probe' # None /\ probe'.job = j
    BY <2>1, <2>2, ControlAssumption
  <2> QED
    BY <2>1, <2>3 DEF InHand, InExecutor, Refreshing
<1>2. ASSUME NEW refreshed, Continue(j, refreshed)
      PROVE  \/ step[j] = "preflight" /\ step'[j] \in {"invoking", "done"}
             \/ step[j] = "postflight" /\ step'[j] = "done"
  BY <1>0, <1>2 DEF Continue, ReadSnapshot, Preflight, Postflight, Record, Enter, InHand,
                    InExecutor
<1>3. CASE RefuseProbe(j) \/ ProbeStep(j)
  <2>1. \E refreshed : Continue(j, refreshed)
    BY <1>3 DEF RefuseProbe, ProbeStep, EndProbe, FailProbe
  <2> QED
    BY <1>2, <2>1
<1>4. CASE JobStep(j)
  BY <1>0, <1>4 DEF JobStep, Acquire, SpawnKerf, SpawnKerfFails, KerfExits, KerfTimesOut,
                    Returns, Enter
<1> QED
  BY <1>1, <1>3, <1>4 DEF RefreshStep

(***************************************************************************)
(* Where a step of anybody else leaves it.                                 *)
(***************************************************************************)
LEMMA OthersLeaveJob ==
  ASSUME ControlInv, [Next]_vars, NEW j \in Jobs, InHand(j),
         ~(RefreshStep(j) \/ ProbeStep(j) \/ JobStep(j))
  PROVE  \/ /\ step'[j] = step[j]
            /\ (probe' # None /\ probe'.job = j) <=> (probe # None /\ probe.job = j)
         \/ step'[j] = "lost"
<1>0. TypeOK /\ step \in [Jobs -> Steps]
  BY DEF ControlInv, TypeOK
<1>1. ASSUME NEW i \in Jobs, RefreshStep(i) \/ ProbeStep(i) \/ Submit(i) \/ JobStep(i)
      PROVE  /\ step'[j] = step[j]
             /\ (probe' # None /\ probe'.job = j) <=> (probe # None /\ probe.job = j)
  <2>1. i # j
    BY <1>1 DEF Submit, InHand, InExecutor
  <2>2. ASSUME NEW refreshed, Continue(i, refreshed)
        PROVE  step'[j] = step[j]
    BY <1>0, <2>1, <2>2 DEF Continue, ReadSnapshot, Preflight, Postflight, Record, Enter
  <2>3. CASE BeginProbe(i)
    <3>1. UNCHANGED step /\ probe = None /\ probe'.job = i
      BY <2>3 DEF BeginProbe, jobVars
    <3> QED
      BY <2>1, <3>1
  <2>4. CASE RefuseProbe(i)
    BY <2>2, <2>4 DEF RefuseProbe, inventoryVars
  <2>5. CASE ProbeStep(i)
    <3>1. probe' = None /\ probe.job = i /\ \E refreshed : Continue(i, refreshed)
      BY <2>5 DEF ProbeStep, EndProbe, FailProbe
    <3> QED
      BY <2>1, <2>2, <3>1
  <2>6. CASE Submit(i) \/ JobStep(i)
    BY <1>0, <2>1, <2>6 DEF Submit, JobStep, Acquire, SpawnKerf, SpawnKerfFails, KerfExits,
                            KerfTimesOut, Returns, Enter, inventoryVars
  <2> QED
    BY <1>1, <2>3, <2>4, <2>5, <2>6 DEF RefreshStep
<1>2. CASE Restart
  BY <1>0, <1>2 DEF Restart, InHand, InExecutor
<1>3. CASE UNCHANGED <<step, probe>>
  BY <1>3
<1>4. ASSUME \/ \E e \in Executors : KerfApplies(e) \/ PendingKerfDies(e)
             \/ ProbeDies \/ (\E r \in orphans : OrphanEnds(r)) \/ UNCHANGED vars
      PROVE  UNCHANGED <<step, probe>>
  BY <1>4 DEF KerfApplies, PendingKerfDies, ProbeDies, OrphanEnds, vars, inventoryVars, jobVars
<1> QED
  BY <1>1, <1>2, <1>3, <1>4 DEF Next

LEMMA StepProgresses ==
  ASSUME ControlInv, [Next]_vars, NEW j \in Jobs, InHand(j)
  PROVE  /\ StepsLeft(j)' <= StepsLeft(j)
         /\ RefreshStep(j) \/ ProbeStep(j) \/ JobStep(j) => StepsLeft(j)' < StepsLeft(j)
<1>1. CASE RefreshStep(j) \/ ProbeStep(j) \/ JobStep(j)
  <2>1. StepsLeft(j)' < StepsLeft(j) /\ StepsLeft(j)' <= StepsLeft(j)
    BY <1>1, JobMovesOn, SMTT(60) DEF StepsLeft
  <2> QED
    BY <2>1
<1>2. ASSUME ~(RefreshStep(j) \/ ProbeStep(j) \/ JobStep(j))
      PROVE  StepsLeft(j)' <= StepsLeft(j)
  <2>1. CASE step'[j] = "lost"
    BY <2>1, SMTT(60) DEF StepsLeft, InHand, InExecutor
  <2>2. CASE /\ step'[j] = step[j]
             /\ (probe' # None /\ probe'.job = j) <=> (probe # None /\ probe.job = j)
    <3>1. step[j] \in {"queued", "preflight", "invoking", "running", "postflight"}
      BY DEF InHand, InExecutor
    <3>2. CASE probe # None /\ probe.job = j
      <4>1. probe' # None /\ probe'.job = j /\ step'[j] = step[j]
        BY <2>2, <3>2
      <4> QED
        BY <3>1, <3>2, <4>1, SMTT(60) DEF StepsLeft
    <3>3. CASE ~(probe # None /\ probe.job = j)
      <4>1. ~(probe' # None /\ probe'.job = j) /\ step'[j] = step[j]
        BY <2>2, <3>3
      <4> QED
        BY <3>1, <3>3, <4>1, SMTT(60) DEF StepsLeft
    <3> QED
      BY <3>2, <3>3
  <2> QED
    BY <1>2, <2>1, <2>2, OthersLeaveJob
<1> QED
  BY <1>1, <1>2

LEMMA OvertakenTimedOut ==
  ASSUME ControlInv, NEW e \in Executors, kerf[e] # None,
         result[kerf[e].job] # None
  PROVE  process[kerf[e].job] = "outlived" /\ result[kerf[e].job].kind = "outcome"
<1>1. /\ TypeOK /\ kerf[e].job \in Jobs /\ JobInv(kerf[e].job) /\ RejectedNeverRan
      /\ result[kerf[e].job] \in Results
  BY DEF ControlInv, TypeOK, Processes
<1>2. process[kerf[e].job] = "outlived"
  BY <1>1 DEF ControlInv, LiveProcessesAreKnown, JobInv
<1>3. result[kerf[e].job].kind # "rejected"
  BY <1>1, <1>2, ControlAssumption DEF RejectedNeverRan
<1> QED
  BY <1>1, <1>2, <1>3 DEF Results

(***************************************************************************)
(* The locks of execute, InventoryService::refresh and the runners never   *)
(* make submitted requests wait for each other.                            *)
(***************************************************************************)
THEOREM JobsNeverStick == Safety => []NoJobWaitsInVain
<1>1. ControlInv => NoJobWaitsInVain
  BY SomebodyIsReady
<1> QED
  BY <1>1, ControlInvariant, PTL

(***************************************************************************)
(* A submitted request takes at most eight steps of its own to its answer, *)
(* whatever the other jobs, Kerf, the probes and restarts do in between.   *)
(***************************************************************************)
THEOREM JobsMoveOn == Safety => JobsProgress
<1>1. ControlInv /\ [Next]_vars =>
        [\A j \in Jobs : InHand(j) =>
           /\ StepsLeft(j)' <= StepsLeft(j)
           /\ RefreshStep(j) \/ ProbeStep(j) \/ JobStep(j) =>
                StepsLeft(j)' < StepsLeft(j)]_vars
  BY StepProgresses
<1> QED
  BY <1>1, ControlInvariant, PTL DEF Safety, JobsProgress

(***************************************************************************)
(* Kerf changes the kernel after its job was answered only when the runner *)
(* gave up on it at the deadline, and never after a rejection: outside     *)
(* time-outs an answer is final.                                           *)
(***************************************************************************)
THEOREM AnswersAreFinalWithoutTimeouts == Safety => OnlyTimeoutsOvertakeResults
<1>1. ControlInv =>
        \A e \in Executors : kerf[e] # None /\ result[kerf[e].job] # None =>
          process[kerf[e].job] = "outlived" /\ result[kerf[e].job].kind = "outcome"
  BY OvertakenTimedOut
<1>2. ControlInv =>
        [\A e \in Executors :
           /\ kerf[e] # None /\ ~kerf[e].applied
           /\ kerf'[e] # None /\ kerf'[e].applied
           /\ result[kerf[e].job] # None
           => /\ process[kerf[e].job] = "outlived"
              /\ result[kerf[e].job].kind = "outcome"]_vars
  BY <1>1
<1> QED
  BY <1>2, ControlInvariant, PTL DEF OnlyTimeoutsOvertakeResults
=============================================================================
