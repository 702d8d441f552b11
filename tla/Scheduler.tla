------------------------------ MODULE Scheduler ------------------------------
(***************************************************************************)
(* Accepting, running, cancelling and recording asynchronous mutations:    *)
(* scheduler.rs, the submit_* and cancel handlers of host_api.rs and the   *)
(* mutation permits of security.rs, over the operation registry.           *)
(*                                                                         *)
(* Request handlers and worker threads interleave at every lock: a handler *)
(* takes a permit, creates the operation, spawns its thread and only then  *)
(* lists it as a worker; the thread starts the operation, runs its task    *)
(* under the executor's lock and finishes the operation.  What a task does *)
(* inside that lock is one step here with every result the code can        *)
(* return.  HostControl models the inside of the two executors.            *)
(***************************************************************************)
EXTENDS OperationRegistry, FiniteSets

CONSTANTS
  Classes,          \* the submit_* handlers in use
  MutationLimit,    \* `ServiceLimits.mutations`
  RejectCodes       \* error codes a rejected request may carry

AllClasses == {"lifecycle", "pool", "load", "image", "os_image"}

ASSUME SchedulerAssumption ==
  /\ Classes \subseteq AllClasses
  /\ MutationLimit \in Nat \ {0}
  /\ RejectCodes \subseteq {"BackendUnavailable", "PreconditionFailed",
                            "InvalidRequest", "NotFound", "Conflict"}

VARIABLES
  permits,     \* mutation permits in use, `LimitState.mutations`
  admitted,    \* handlers that hold a permit and have not created yet
  class,       \* which handler submitted the operation
  submitter,   \* where `submit` stands for the operation
  thread,      \* where the operation's worker thread stands
  workers,     \* operations listed in `workers`
  cancelled,   \* the operation's cancellation token
  holder,      \* which operation holds each lock, or None
  result       \* what the operation's task returned, or None

schedulerVars ==
  <<permits, admitted, class, submitter, thread, workers, cancelled, holder, result>>
vars == <<registryVars, schedulerVars>>

Ids == 1..MaxOperations

Locks == {"lifecycle", "pool", "catalog"}

Lock(id) ==
  CASE class[id] \in {"lifecycle", "load"} -> "lifecycle"
    [] class[id] = "pool" -> "pool"
    [] OTHER -> "catalog"

TaskResult(state, observed, error) ==
  [state |-> state, observed |-> observed, error |-> error]

Error(code, retryable) == [code |-> code, retryable |-> retryable]

CancelledResult   == TaskResult("Cancelled", None, None)
WorkerPanicResult == TaskResult("Failed", None, Error("Internal", FALSE))
WorkerSpawnResult == TaskResult("Failed", None, Error("Internal", TRUE))

Succeeded == {TaskResult("Succeeded", g, None) : g \in Generations}

\* `outcome_result`: a reconciled outcome, with the generation it was read at.
OutcomeResults ==
  Succeeded
  \cup {TaskResult("Failed", g, Error("BackendUnavailable", TRUE)) : g \in Generations}
  \cup {TaskResult("Indeterminate", g, Error("BackendUnavailable", TRUE)) : g \in Generations}

\* `failure_result`: the request was rejected before execution.
FailureResults ==
  {TaskResult("Failed", None,
              Error(code, code \in {"BackendUnavailable", "Timeout"})) :
     code \in RejectCodes}

\* `image_catalog_task_error`: only a stale generation reports one.
CatalogFailures ==
  {TaskResult("Failed", g, Error("PreconditionFailed", FALSE)) : g \in Generations}
  \cup {TaskResult("Failed", None, Error(code, code = "BackendUnavailable")) :
          code \in RejectCodes \cap {"BackendUnavailable", "NotFound", "InvalidRequest"}}

ResultsOf(id) ==
  IF class[id] \in {"image", "os_image"}
    THEN Succeeded \cup CatalogFailures
    ELSE OutcomeResults \cup FailureResults

TaskResults ==
  {CancelledResult, WorkerPanicResult, WorkerSpawnResult}
    \cup OutcomeResults \cup FailureResults \cup CatalogFailures

ASSUME ErrorAssumption == {r.error : r \in TaskResults} \subseteq Errors \cup {None}

Init ==
  /\ RegistryInit
  /\ permits = 0
  /\ admitted = 0
  /\ class = [id \in Ids |-> None]
  /\ submitter = [id \in Ids |-> "none"]
  /\ thread = [id \in Ids |-> "none"]
  /\ workers = {}
  /\ cancelled = [id \in Ids |-> FALSE]
  /\ holder = [lock \in Locks |-> None]
  /\ result = [id \in Ids |-> None]

-----------------------------------------------------------------------------
(* The request handler.                                                    *)

Admit ==
  /\ permits < MutationLimit
  /\ next_operation + admitted <= MaxOperations
  /\ permits' = permits + 1
  /\ admitted' = admitted + 1
  /\ UNCHANGED <<registryVars, class, submitter, thread, workers, cancelled,
                 holder, result>>

\* Mutant: a thread that has its result but still has to record it is reaped.
Unreaped_Early == {id \in workers : thread[id] \notin {"returned", "exited"}}

\* `reap_finished` joins and unlists the threads that have exited.
Unreaped == {id \in workers : thread[id] # "exited"}

\* The head of `submit`.
Accept(c, expected) ==
  /\ admitted > 0
  /\ admitted' = admitted - 1
  /\ workers' = Unreaped
  /\ Create(expected)
  /\ class' = [class EXCEPT ![next_operation] = c]
  /\ submitter' = [submitter EXCEPT ![next_operation] = "created"]
  /\ UNCHANGED <<permits, thread, cancelled, holder, result>>

Spawn(id) ==
  /\ submitter[id] = "created"
  /\ submitter' = [submitter EXCEPT ![id] = "spawned"]
  /\ thread' = [thread EXCEPT ![id] = "spawned"]
  /\ UNCHANGED <<registryVars, permits, admitted, class, workers, cancelled,
                 holder, result>>

\* Mutant: the permit stays taken.
SpawnFails_LeaksPermit(id) ==
  /\ submitter[id] = "created"
  /\ submitter' = [submitter EXCEPT ![id] = "spawn_failed"]
  /\ result' = [result EXCEPT ![id] = WorkerSpawnResult]
  /\ UNCHANGED <<registryVars, permits, admitted, class, thread, workers,
                 cancelled, holder>>

\* The task, and the permit it owns, is dropped with the thread's closure.
SpawnFails(id) ==
  /\ submitter[id] = "created"
  /\ submitter' = [submitter EXCEPT ![id] = "spawn_failed"]
  /\ permits' = permits - 1
  /\ result' = [result EXCEPT ![id] = WorkerSpawnResult]
  /\ UNCHANGED <<registryVars, admitted, class, thread, workers, cancelled,
                 holder>>

\* Mutant: the error is not recorded.
FinishIgnoringErrors_DropsError(id, r) ==
  IF Retained(id)
    THEN Finish(id, r.state, r.observed, None)
    ELSE UNCHANGED registryVars

\* `let _ = registry.finish(...)`: an evicted operation is passed over.
FinishIgnoringErrors(id, r) ==
  IF Retained(id)
    THEN Finish(id, r.state, r.observed, r.error)
    ELSE UNCHANGED registryVars

RecordSpawnFailure(id) ==
  /\ submitter[id] = "spawn_failed"
  /\ FinishIgnoringErrors(id, WorkerSpawnResult)
  /\ submitter' = [submitter EXCEPT ![id] = "returned"]
  /\ UNCHANGED <<permits, admitted, class, thread, workers, cancelled, holder,
                 result>>

ListWorker(id) ==
  /\ submitter[id] = "spawned"
  /\ workers' = workers \cup {id}
  /\ submitter' = [submitter EXCEPT ![id] = "returned"]
  /\ UNCHANGED <<registryVars, permits, admitted, class, thread, cancelled,
                 holder, result>>

\* `cancel`: reap, then flag the worker if it is still listed.
Cancel(id) ==
  /\ id < next_operation
  /\ workers' = Unreaped
  /\ cancelled' = [cancelled EXCEPT ![id] = @ \/ id \in Unreaped]
  /\ UNCHANGED <<registryVars, permits, admitted, class, submitter, thread,
                 holder, result>>

-----------------------------------------------------------------------------
(* The worker thread.                                                      *)

Step(id, from, to) ==
  /\ thread[id] = from
  /\ thread' = [thread EXCEPT ![id] = to]

\* Mutant: the lock outlives the guard.
Return_KeepsLock(id, from, r) ==
  /\ Step(id, from, "returned")
  /\ result' = [result EXCEPT ![id] = r]
  /\ permits' = permits - 1
  /\ UNCHANGED <<registryVars, admitted, class, submitter, workers, cancelled,
                 holder>>

\* The closure ends: its permit and the lock it may hold are released.
Return(id, from, r) ==
  /\ Step(id, from, "returned")
  /\ result' = [result EXCEPT ![id] = r]
  /\ permits' = permits - 1
  /\ holder' = [lock \in Locks |-> IF holder[lock] = id THEN None ELSE holder[lock]]
  /\ UNCHANGED <<registryVars, admitted, class, submitter, workers, cancelled>>

\* The first thing the thread does; without a record the task never runs.
StartOperation(id) ==
  /\ UNCHANGED <<admitted, class, submitter, workers, cancelled, holder, result>>
  /\ \/ Start(id) /\ Step(id, "spawned", "running") /\ UNCHANGED permits
     \/ /\ ~Retained(id)
        /\ Step(id, "spawned", "exited")
        /\ permits' = permits - 1
        /\ UNCHANGED registryVars

\* Only a managed load has work to do before it queues for its executor.
CheckCancellation(id) ==
  LET next == IF class[id] = "load" THEN "resolving" ELSE "waiting"
  IN  \/ cancelled[id] /\ Return(id, "running", CancelledResult)
      \/ /\ ~cancelled[id]
         /\ Step(id, "running", next)
         /\ UNCHANGED <<registryVars, permits, admitted, class, submitter,
                        workers, cancelled, holder, result>>

\* Both images are resolved under the catalog's lock, then it is released.
ResolveImages(id) ==
  /\ holder["catalog"] = None
  /\ \/ \E r \in CatalogFailures : Return(id, "resolving", r)
     \/ /\ Step(id, "resolving", "resolved")
        /\ UNCHANGED <<registryVars, permits, admitted, class, submitter,
                       workers, cancelled, holder, result>>

\* `run_lifecycle` looks at the token again before it queues.
CheckResolved(id) ==
  \/ cancelled[id] /\ Return(id, "resolved", CancelledResult)
  \/ /\ ~cancelled[id]
     /\ Step(id, "resolved", "waiting")
     /\ UNCHANGED <<registryVars, permits, admitted, class, submitter, workers,
                    cancelled, holder, result>>

\* Mutant: the executor is used without its lock.
AcquireExecutor_NoLock(id) ==
  IF cancelled[id] /\ class[id] # "os_image"
    THEN Return(id, "waiting", CancelledResult)
    ELSE /\ Step(id, "waiting", "executing")
         /\ holder' = [holder EXCEPT ![Lock(id)] = id]
         /\ UNCHANGED <<registryVars, permits, admitted, class, submitter,
                        workers, cancelled, result>>

\* Mutant: nobody looks at the token again under the lock.
AcquireExecutor_NoCheck(id) ==
  /\ holder[Lock(id)] = None
  /\ Step(id, "waiting", "executing")
  /\ holder' = [holder EXCEPT ![Lock(id)] = id]
  /\ UNCHANGED <<registryVars, permits, admitted, class, submitter, workers,
                 cancelled, result>>

\* Everyone but the OS image import looks at the token under the lock too.
AcquireExecutor(id) ==
  /\ holder[Lock(id)] = None
  /\ IF cancelled[id] /\ class[id] # "os_image"
       THEN Return(id, "waiting", CancelledResult)
       ELSE /\ Step(id, "waiting", "executing")
            /\ holder' = [holder EXCEPT ![Lock(id)] = id]
            /\ UNCHANGED <<registryVars, permits, admitted, class, submitter,
                           workers, cancelled, result>>

ExecuteTask(id) == \E r \in ResultsOf(id) : Return(id, "executing", r)

TaskPanics(id) == Return(id, "executing", WorkerPanicResult)

RecordResult(id) ==
  /\ Step(id, "returned", "exited")
  /\ FinishIgnoringErrors(id, result[id])
  /\ UNCHANGED <<permits, admitted, class, submitter, workers, cancelled,
                 holder, result>>

HandlerStep(id) ==
  Spawn(id) \/ SpawnFails(id) \/ RecordSpawnFailure(id) \/ ListWorker(id)

WorkerStep(id) ==
  \/ StartOperation(id)
  \/ CheckCancellation(id)
  \/ ResolveImages(id)
  \/ CheckResolved(id)
  \/ AcquireExecutor(id)
  \/ ExecuteTask(id)
  \/ TaskPanics(id)
  \/ RecordResult(id)

Next ==
  \/ Admit
  \/ \E c \in Classes, expected \in Generations : Accept(c, expected)
  \/ \E id \in Ids : HandlerStep(id) \/ Cancel(id) \/ WorkerStep(id)

\* Threads are scheduled, and both Kerf and the inventory probe have deadlines.
Fairness == \A id \in Ids : WF_vars(HandlerStep(id)) /\ WF_vars(WorkerStep(id))

Safety == Init /\ [][Next]_vars
Spec   == Safety /\ Fairness

-----------------------------------------------------------------------------

(***************************************************************************)
(* A permit is held exactly by the handlers admitted and the tasks alive:  *)
(* a failed spawn, an evicted operation, a cancellation, a panic and a     *)
(* normal return each give back one permit, once.  So the daemon neither   *)
(* leaks mutation slots until it refuses all work nor exceeds the limit.   *)
(***************************************************************************)
TaskAlive(id) ==
  \/ submitter[id] = "created"
  \/ thread[id] \in {"spawned", "running", "resolving", "resolved", "waiting",
                     "executing"}

PermitsMatchTasks ==
  permits = admitted + Cardinality({id \in Ids : TaskAlive(id)})

(***************************************************************************)
(* Mutations of one executor are serialised: whoever executes holds its    *)
(* lock, so no two execute under the same lock, and a lock is never left   *)
(* held by a task that ended.                                              *)
(***************************************************************************)
ExecutionIsSerialised ==
  /\ \A id \in Ids : thread[id] = "executing" => holder[Lock(id)] = id
  /\ \A lock \in Locks : holder[lock] # None => thread[holder[lock]] = "executing"

(***************************************************************************)
(* A cancellation accepted before its task executes prevents execution,    *)
(* at whatever point it arrives.  The OS image import is the exception: it *)
(* does not look again once it queues for the catalog.                     *)
(***************************************************************************)
CancelIsHonoured ==
  [][\A id \in Ids :
       /\ cancelled[id]
       /\ thread[id] # "executing" /\ thread'[id] = "executing"
       => class[id] = "os_image" /\ thread[id] = "waiting"]_vars

(***************************************************************************)
(* Once `submit` has returned the operation to the client, `cancel` finds  *)
(* its worker until the thread is over, although threads are listed after  *)
(* they start and reaped by whichever request comes next.                  *)
(***************************************************************************)
ReturnedWorkersAreListed ==
  \A id \in Ids :
    /\ submitter[id] = "returned"
    /\ thread[id] \notin {"none", "exited"}
    => id \in workers

(***************************************************************************)
(* The record of a retained operation says what its task did: terminal     *)
(* only once the task is over and then with exactly the task's result,     *)
(* running only while the thread is at work, queued only before it starts. *)
(***************************************************************************)
RecordAgrees(operation, id) ==
  \/ /\ operation.state = "Queued"
     /\ thread[id] \in {"none", "spawned"}
     /\ submitter[id] = "returned" => thread[id] = "spawned"
  \/ /\ operation.state = "Running"
     /\ thread[id] \notin {"none", "spawned", "exited"}
  \/ /\ operation.state \in Terminal
     /\ thread[id] = "exited" \/ submitter[id] = "returned"
     /\ result[id] = TaskResult(operation.state, operation.observed_generation,
                                operation.error)

RecordsMatchTasks ==
  \A i \in DOMAIN operations : RecordAgrees(operations[i], operations[i].id)

(***************************************************************************)
(* Every accepted operation is settled: it reaches a terminal state, or    *)
(* its record is evicted; either way its task ends and its permit returns. *)
(***************************************************************************)
Settled(id) ==
  /\ ~TaskAlive(id)
  /\ Retained(id) => StatusOf(id) \in Terminal

OperationsSettle == \A id \in Ids : id < next_operation ~> Settled(id)
=============================================================================
