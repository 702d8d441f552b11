--------------------------- MODULE SchedulerProofs ---------------------------
(***************************************************************************)
(* Proofs about Scheduler, for any number of operations, any limit on      *)
(* mutations and any capacity of the histories.                            *)
(*                                                                         *)
(* Request handlers and worker threads of different operations meet only   *)
(* in the permits, the worker list, the locks and the registry.  The       *)
(* invariant therefore says, for each operation, where its handler, its    *)
(* thread, its result and its record stand relative to each other (Task),  *)
(* and relates the shared state to all of them.                            *)
(***************************************************************************)
EXTENDS Scheduler, OperationRegistryProofs, FiniteSetTheorems, TLAPS

\* Most leaves are logic and functions: Zenon is the backend unless one names another.
USE ZenonT(60)

Alive == {"spawned", "running", "resolving", "resolved", "waiting", "executing"}

Threads == {"none", "returned", "exited"} \cup Alive

Tasks == {id \in Ids : TaskAlive(id)}

\* Types of the scheduler's own state.
SchedulerTypeOK ==
  /\ permits \in Nat
  /\ admitted \in Nat
  /\ class \in [Ids -> AllClasses \cup {None}]
  /\ submitter \in [Ids -> {"none", "created", "spawned", "spawn_failed", "returned"}]
  /\ thread \in [Ids -> Threads]
  /\ workers \subseteq Ids
  /\ cancelled \in [Ids -> BOOLEAN]
  /\ holder \in [Locks -> Ids \cup {None}]
  /\ result \in [Ids -> TaskResults \cup {None}]

\* How far the handler of an operation is bounds how far its thread can be,
\* and a result exists from the moment there is one to record.
Task(id) ==
  /\ submitter[id] = "none" <=> id >= next_operation
  /\ submitter[id] \in {"none", "created", "spawn_failed"} => thread[id] = "none"
  /\ submitter[id] = "spawned" => thread[id] # "none"
  /\ submitter[id] = "spawn_failed" => result[id] = WorkerSpawnResult
  /\ thread[id] = "returned" => result[id] \in TaskResults

\* RecordAgrees, and a record is terminal only when no thread is left.
Record(operation, id) ==
  /\ RecordAgrees(operation, id)
  /\ operation.state \in Terminal => thread[id] \in {"none", "exited"}

RecordsInv ==
  /\ next_operation <= MaxOperations + 1
  /\ \A i \in DOMAIN operations :
       operations[i].id \in Ids /\ Record(operations[i], operations[i].id)

SchedulerInv ==
  /\ RegistryInv
  /\ SchedulerTypeOK
  /\ \A id \in Ids : Task(id)
  /\ PermitsMatchTasks /\ permits <= MutationLimit
  /\ ExecutionIsSerialised
  /\ ReturnedWorkersAreListed
  /\ RecordsInv

-----------------------------------------------------------------------------
(* Facts about the parts.                                                  *)

(***************************************************************************)
(* What a task returns is fit for `finish`.                                *)
(***************************************************************************)
LEMMA ResultFields ==
  ASSUME NEW r \in TaskResults
  PROVE  /\ r = TaskResult(r.state, r.observed, r.error)
         /\ r.state \in Terminal
         /\ r.observed \in Generations \cup {None}
         /\ r.error \in Errors \cup {None}
<1>1. r.error \in Errors \cup {None}
  BY ErrorAssumption
<1>2. /\ r = TaskResult(r.state, r.observed, r.error)
      /\ r.state \in Terminal
      /\ r.observed \in Generations \cup {None}
  <2>1. PICK state \in Terminal, observed \in Generations \cup {None} :
          \E error : r = TaskResult(state, observed, error)
    <3>1. CASE r \in {CancelledResult, WorkerPanicResult, WorkerSpawnResult}
      BY <3>1, ZenonT(60) DEF CancelledResult, WorkerPanicResult, WorkerSpawnResult, Terminal
    <3>2. CASE r \in OutcomeResults
      BY <3>2, ZenonT(60) DEF OutcomeResults, Succeeded, Terminal
    <3>3. CASE r \in FailureResults
      BY <3>3 DEF FailureResults, Terminal
    <3>4. CASE r \in CatalogFailures
      BY <3>4, ZenonT(60) DEF CatalogFailures, Terminal
    <3> QED
      BY <3>1, <3>2, <3>3, <3>4 DEF TaskResults
  <2> QED
    BY <2>1, SMTT(60) DEF TaskResult
<1> QED
  BY <1>1, <1>2

(***************************************************************************)
(* Ids are numbers, finitely many, and none of them is None.               *)
(***************************************************************************)
LEMMA IdFacts ==
  /\ IsFiniteSet(Ids) /\ Ids \subseteq Nat /\ None \notin Ids
  /\ IsFiniteSet(Tasks) /\ Cardinality(Tasks) \in Nat
<1>1. IsFiniteSet(Ids) /\ Ids \subseteq Nat /\ None \notin Ids
  BY BoundAssumption, GenerationAssumption, FS_Interval, SMTT(60) DEF Ids
<1>2. Tasks \subseteq Ids
  BY DEF Tasks
<1> QED
  BY <1>1, <1>2, FS_Subset, FS_CardinalityType, ZenonT(60)

(***************************************************************************)
(* Counting: a task comes alive, or ends.                                  *)
(***************************************************************************)
LEMMA TaskBegins ==
  ASSUME NEW id, id \notin Tasks, Tasks' = Tasks \cup {id}
  PROVE  Cardinality(Tasks)' = Cardinality(Tasks) + 1
  BY IdFacts, FS_AddElement, ZenonT(60)

LEMMA TaskEnds ==
  ASSUME NEW id, id \in Tasks, Tasks' = Tasks \ {id}
  PROVE  Cardinality(Tasks)' = Cardinality(Tasks) - 1 /\ Cardinality(Tasks) > 0
<1>1. Cardinality(Tasks)' = Cardinality(Tasks) - 1
  BY IdFacts, FS_RemoveElement, ZenonT(60)
<1>2. Cardinality(Tasks) # 0
  BY IdFacts, FS_EmptySet
<1> QED
  BY <1>1, <1>2, IdFacts, SMTT(60)

\* A step of one operation leaves handler, thread and result of the others.
OthersStay(id) ==
  \A d \in Ids \ {id} :
    submitter'[d] = submitter[d] /\ thread'[d] = thread[d] /\ result'[d] = result[d]

(***************************************************************************)
(* A step that does not touch the registry keeps it, and keeps the records *)
(* true if it keeps its own operation's record true.                       *)
(***************************************************************************)
LEMMA RegistryStays ==
  ASSUME SchedulerInv, UNCHANGED registryVars
  PROVE  RegistryInv' /\ \A id : Retained(id)' = Retained(id)
<1>1. RegistryInv
  BY DEF SchedulerInv
<1> QED
  BY <1>1
  DEF registryVars, RegistryInv, RegistryTypeOK, NewestOperationsRetained,
      EventsAreContiguous, GenerationsAnnounced, QueuedHasNoProgress,
      OperationGeneration, Retained

LEMMA RecordsStay ==
  ASSUME SchedulerInv, UNCHANGED registryVars, NEW id \in Ids, OthersStay(id),
         \A operation : Record(operation, id) => Record(operation, id)'
  PROVE  RecordsInv'
<1>1. operations' = operations /\ next_operation' = next_operation
  BY DEF registryVars
<1>2. RecordsInv
  BY DEF SchedulerInv
<1>3. ASSUME NEW i \in DOMAIN operations
      PROVE  Record(operations[i], operations[i].id)'
  <2>1. Record(operations[i], operations[i].id) /\ operations[i].id \in Ids
    BY <1>2 DEF RecordsInv
  <2>2. CASE operations[i].id = id
    <3>1. Record(operations[i], id)
      BY <2>1, <2>2
    <3> QED
      BY <1>1, <2>2, <3>1 DEF Record, RecordAgrees
  <2>3. CASE operations[i].id # id
    BY <1>1, <2>1, <2>3 DEF Record, RecordAgrees, OthersStay
  <2> QED
    BY <2>2, <2>3
<1> QED
  BY <1>1, <1>2, <1>3 DEF RecordsInv

(***************************************************************************)
(* A step of one operation has to account for that operation alone.        *)
(***************************************************************************)
LEMMA TaskStep ==
  ASSUME SchedulerInv, NEW id \in Ids, OthersStay(id), next_operation' = next_operation,
         RegistryInv', RecordsInv', SchedulerTypeOK', Task(id)',
         PermitsMatchTasks', permits' <= MutationLimit,
         ExecutionIsSerialised', ReturnedWorkersAreListed'
  PROVE  SchedulerInv'
<1>1. ASSUME NEW d \in Ids \ {id} PROVE Task(d)'
  BY DEF SchedulerInv, Task, OthersStay
<1> QED
  BY <1>1 DEF SchedulerInv

(***************************************************************************)
(* The tasks alive after a step of one operation.                          *)
(***************************************************************************)
LEMMA TasksStay ==
  ASSUME NEW id \in Ids, OthersStay(id), TaskAlive(id)' = TaskAlive(id)
  PROVE  Tasks' = Tasks
  BY DEF Tasks, TaskAlive, OthersStay

LEMMA PermitsStay ==
  ASSUME SchedulerInv, NEW id \in Ids, OthersStay(id), TaskAlive(id)' = TaskAlive(id),
         UNCHANGED <<permits, admitted>>
  PROVE  PermitsMatchTasks' /\ permits' <= MutationLimit
<1>1. Tasks' = Tasks
  BY TasksStay
<1> QED
  BY <1>1 DEF SchedulerInv, PermitsMatchTasks, Tasks

LEMMA PermitReturns ==
  ASSUME SchedulerInv, NEW id \in Ids, OthersStay(id), TaskAlive(id), ~TaskAlive(id)',
         permits' = permits - 1, admitted' = admitted
  PROVE  PermitsMatchTasks' /\ permits' \in Nat /\ permits' <= MutationLimit
<1>1. id \in Tasks /\ Tasks' = Tasks \ {id}
  BY DEF Tasks, TaskAlive, OthersStay
<1>2. Cardinality(Tasks)' = Cardinality(Tasks) - 1 /\ Cardinality(Tasks) > 0
  BY <1>1, TaskEnds
<1>3. /\ permits = admitted + Cardinality(Tasks) /\ permits \in Nat /\ admitted \in Nat
      /\ permits <= MutationLimit /\ Cardinality(Tasks) \in Nat /\ MutationLimit \in Nat
  BY IdFacts, SchedulerAssumption DEF SchedulerInv, PermitsMatchTasks, SchedulerTypeOK, Tasks
<1>4. permits' = admitted' + Cardinality(Tasks)'
  BY <1>2, <1>3, SMTT(60)
<1> QED
  BY <1>2, <1>3, <1>4, SMTT(60) DEF PermitsMatchTasks, Tasks

(***************************************************************************)
(* Every operation has one lock, given by its class.                       *)
(***************************************************************************)
LEMMA LockFacts ==
  ASSUME NEW id
  PROVE  Lock(id) \in Locks /\ (class'[id] = class[id] => Lock(id)' = Lock(id))
<1>1. Lock(id) \in Locks
  BY DEF Lock, Locks
<1>2. class'[id] = class[id] => Lock(id)' = Lock(id)
  BY DEF Lock
<1> QED
  BY <1>1, <1>2

(***************************************************************************)
(* Locks are as they were when nobody begins or ends an execution.         *)
(***************************************************************************)
LEMMA LocksStay ==
  ASSUME SchedulerInv, UNCHANGED <<class, holder>>, thread' \in [Ids -> Threads],
         \A d \in Ids : thread'[d] = "executing" <=> thread[d] = "executing"
  PROVE  ExecutionIsSerialised'
<1>1. ExecutionIsSerialised /\ holder \in [Locks -> Ids \cup {None}]
  BY DEF SchedulerInv, SchedulerTypeOK
<1>2. ASSUME NEW d \in Ids, thread'[d] = "executing" PROVE holder'[Lock(d)'] = d
  BY <1>1, <1>2, LockFacts DEF ExecutionIsSerialised
<1>3. ASSUME NEW lock \in Locks, holder'[lock] # None PROVE thread'[holder'[lock]] = "executing"
  BY <1>1, <1>3 DEF ExecutionIsSerialised
<1> QED
  BY <1>2, <1>3 DEF ExecutionIsSerialised

(***************************************************************************)
(* Without a record there is nothing to keep true.                         *)
(***************************************************************************)
LEMMA NoRecordStays ==
  ASSUME SchedulerInv, UNCHANGED registryVars, NEW id \in Ids, OthersStay(id), ~Retained(id)
  PROVE  RecordsInv'
<1>1. operations' = operations /\ next_operation' = next_operation
  BY DEF registryVars
<1>2. ASSUME NEW i \in DOMAIN operations
      PROVE  Record(operations[i], operations[i].id)'
  <2>1. /\ Record(operations[i], operations[i].id)
        /\ operations[i].id \in Ids /\ operations[i].id # id
    BY DEF SchedulerInv, RecordsInv, Retained
  <2> QED
    BY <1>1, <2>1 DEF Record, RecordAgrees, OthersStay
<1> QED
  BY <1>1, <1>2 DEF SchedulerInv, RecordsInv

(***************************************************************************)
(* `update` changes the one record with the operation's id: ids are unique *)
(* among the retained operations.                                          *)
(***************************************************************************)
LEMMA RecordUpdate ==
  ASSUME SchedulerInv, NEW id \in Ids, OthersStay(id),
         NEW i \in DOMAIN operations, operations[i].id = id,
         NEW operation \in Operation, operation.id = id, operation.state # "Queued",
         Update(i, operation), Record(operation, id)'
  PROVE  RegistryInv' /\ RecordsInv' /\ next_operation' = next_operation
<1>1. RegistryInv /\ RecordsInv
  BY DEF SchedulerInv
<1>2. RegistryInv'
  BY <1>1, UpdateLemma
<1>3. /\ operations' = [operations EXCEPT ![i] = operation]
      /\ next_operation' = next_operation
  BY DEF Update
<1>4. operations \in Seq(Operation) /\ next_operation \in Nat
  BY <1>1 DEF RegistryInv, RegistryTypeOK
<1>5. ASSUME NEW j \in DOMAIN operations, j # i
      PROVE  operations[j].id # id
  <2>1. /\ operations[j].id = next_operation - Len(operations) + j - 1
        /\ operations[i].id = next_operation - Len(operations) + i - 1
    BY <1>1 DEF RegistryInv, NewestOperationsRetained
  <2>2. i \in Nat /\ j \in Nat /\ Len(operations) \in Nat
    BY <1>4, SMTT(60)
  <2> QED
    BY <1>4, <1>5, <2>1, <2>2, SMTT(60)
<1>6. ASSUME NEW j \in DOMAIN operations'
      PROVE  operations'[j].id \in Ids /\ Record(operations[j], operations[j].id)'
  <2>1. j \in DOMAIN operations
    BY <1>3, <1>6
  <2>2. CASE j = i
    <3>1. operations'[j] = operation
      BY <1>3, <2>1, <2>2
    <3> QED
      BY <3>1 DEF Record, RecordAgrees
  <2>3. CASE j # i
    <3>1. /\ operations'[j] = operations[j] /\ operations[j].id \in Ids \ {id}
          /\ Record(operations[j], operations[j].id)
      BY <1>1, <1>3, <1>5, <2>1, <2>3 DEF RecordsInv
    <3> QED
      BY <3>1 DEF Record, RecordAgrees, OthersStay
  <2> QED
    BY <2>2, <2>3
<1> QED
  BY <1>1, <1>2, <1>3, <1>6 DEF RecordsInv

(***************************************************************************)
(* `let _ = registry.finish(...)` of an operation whose thread is over.    *)
(***************************************************************************)
LEMMA FinishKeepsRecords ==
  ASSUME SchedulerInv, NEW id \in Ids, OthersStay(id), NEW r \in TaskResults,
         FinishIgnoringErrors(id, r), result'[id] = r, thread'[id] \in {"none", "exited"},
         thread'[id] = "exited" \/ submitter'[id] = "returned"
  PROVE  RegistryInv' /\ RecordsInv' /\ next_operation' = next_operation
<1>1. CASE ~Retained(id)
  BY <1>1, RegistryStays, NoRecordStays DEF FinishIgnoringErrors, registryVars
<1>2. CASE Retained(id)
  <2> DEFINE Finished(i) ==
        [operations[i] EXCEPT
           !.state = r.state, !.observed_generation = r.observed, !.error = r.error,
           !.progress = IF r.state = "Succeeded" THEN 100 ELSE @]
  <2>1. PICK i \in DOMAIN operations : operations[i].id = id /\ Update(i, Finished(i))
    BY <1>2, ZenonT(60) DEF FinishIgnoringErrors, Finish
  <2>2. operations[i] \in Operation
    BY SMTT(60) DEF SchedulerInv, RegistryInv, RegistryTypeOK
  <2>3. /\ r.state \in OperationState \ {"Queued"} /\ 100 \in Progress
        /\ r.observed \in Generations \cup {None} /\ r.error \in Errors \cup {None}
        /\ r.state \in Terminal /\ r = TaskResult(r.state, r.observed, r.error)
    BY ResultFields, SMTT(60) DEF OperationState, Progress, Terminal
  <2>4. Finished(i) \in Operation
    BY <2>2, <2>3, ZenonT(60) DEF Operation
  <2>5. /\ Finished(i).id = id /\ Finished(i).state = r.state
        /\ Finished(i).observed_generation = r.observed /\ Finished(i).error = r.error
    BY <2>1, <2>2 DEF Operation
  <2> HIDE DEF Finished
  <2>6. PICK f \in Operation :
          /\ Update(i, f) /\ f.id = id /\ f.state = r.state
          /\ f.observed_generation = r.observed /\ f.error = r.error
    BY <2>1, <2>4, <2>5, SMTT(60)
  <2>7. Record(f, id)'
    BY <2>3, <2>6 DEF Record, RecordAgrees
  <2> QED
    BY <2>1, <2>3, <2>6, <2>7, RecordUpdate, SMTT(30)
<1> QED
  BY <1>1, <1>2

-----------------------------------------------------------------------------
(* The worker thread.                                                      *)

(***************************************************************************)
(* The closure of a task ends, wherever it stands after `start`: permit    *)
(* and lock go back, the record still says Running.                        *)
(***************************************************************************)
LEMMA ReturnKeeps ==
  ASSUME SchedulerInv, NEW id \in Ids, NEW from \in Alive \ {"spawned"},
         NEW r \in TaskResults, Return(id, from, r)
  PROVE  SchedulerInv'
<1>1. /\ thread[id] = from /\ thread' = [thread EXCEPT ![id] = "returned"]
      /\ result' = [result EXCEPT ![id] = r] /\ permits' = permits - 1
      /\ holder' = [lock \in Locks |-> IF holder[lock] = id THEN None ELSE holder[lock]]
      /\ UNCHANGED <<registryVars, admitted, class, submitter, workers, cancelled>>
  BY DEF Return, Step
<1>2. /\ thread \in [Ids -> Threads] /\ result \in [Ids -> TaskResults \cup {None}]
      /\ holder \in [Locks -> Ids \cup {None}] /\ Task(id)
      /\ ExecutionIsSerialised /\ ReturnedWorkersAreListed
  BY DEF SchedulerInv, SchedulerTypeOK
<1>3. OthersStay(id) /\ thread'[id] = "returned" /\ result'[id] = r
  BY <1>1, <1>2 DEF OthersStay
<1>4. RegistryInv' /\ next_operation' = next_operation
  BY <1>1, RegistryStays DEF registryVars
<1>5. submitter[id] \in {"spawned", "returned"}
  BY <1>1, <1>2 DEF Task, Alive, SchedulerInv, SchedulerTypeOK
<1>6. Task(id)'
  BY <1>1, <1>2, <1>3, <1>4, <1>5 DEF Task
<1>7. PermitsMatchTasks' /\ permits' \in Nat /\ permits' <= MutationLimit
  <2>1. TaskAlive(id) /\ ~TaskAlive(id)'
    BY <1>1, <1>3, <1>5 DEF TaskAlive, Alive
  <2> QED
    BY <1>1, <1>3, <2>1, PermitReturns
<1>8. SchedulerTypeOK'
  BY <1>1, <1>2, <1>7 DEF SchedulerInv, SchedulerTypeOK, Threads
<1>9. ExecutionIsSerialised'
  <2>1. ASSUME NEW d \in Ids, thread'[d] = "executing" PROVE holder'[Lock(d)'] = d
    <3>1. d # id /\ thread[d] = "executing"
      BY <1>1, <1>2, <2>1
    <3>2. holder[Lock(d)] = d /\ Lock(d)' = Lock(d) /\ Lock(d) \in Locks
      BY <1>1, <1>2, <3>1, LockFacts DEF ExecutionIsSerialised
    <3> QED
      BY <1>1, <3>1, <3>2
  <2>2. ASSUME NEW lock \in Locks, holder'[lock] # None
        PROVE  thread'[holder'[lock]] = "executing"
    <3>1. holder'[lock] = holder[lock] /\ holder[lock] # id /\ holder[lock] \in Ids
      BY <1>1, <1>2, <2>2
    <3> QED
      BY <1>1, <1>2, <2>2, <3>1 DEF ExecutionIsSerialised
  <2> QED
    BY <2>1, <2>2 DEF ExecutionIsSerialised
<1>10. ReturnedWorkersAreListed'
  BY <1>1, <1>2 DEF ReturnedWorkersAreListed, Alive
<1>11. RecordsInv'
  <2>1. ASSUME NEW operation, Record(operation, id) PROVE Record(operation, id)'
    <3>1. operation.state = "Running"
      BY <1>1, <2>1 DEF Record, RecordAgrees, Alive, Terminal
    <3> QED
      BY <1>3, <3>1 DEF Record, RecordAgrees, Terminal
  <2> QED
    BY <1>1, <1>3, <2>1, RecordsStay
<1> QED
  BY <1>1, <1>3, <1>4, <1>6, <1>7, <1>8, <1>9, <1>10, <1>11, TaskStep, SMTT(30)

(***************************************************************************)
(* The thread moves on before it executes.                                 *)
(***************************************************************************)
LEMMA MoveKeeps ==
  ASSUME SchedulerInv, NEW id \in Ids,
         NEW from \in Alive \ {"spawned", "executing"}, NEW to \in Alive \ {"spawned", "executing"},
         Step(id, from, to),
         UNCHANGED <<registryVars, permits, admitted, class, submitter, workers, cancelled,
                     holder, result>>
  PROVE  SchedulerInv'
<1>1. /\ thread[id] = from /\ thread' = [thread EXCEPT ![id] = to]
      /\ thread \in [Ids -> Threads] /\ Task(id) /\ ReturnedWorkersAreListed
  BY SMTT(30) DEF Step, SchedulerInv, SchedulerTypeOK
<1>2. OthersStay(id) /\ thread'[id] = to
  BY <1>1 DEF OthersStay
<1>3. RegistryInv' /\ next_operation' = next_operation
  BY RegistryStays DEF registryVars
<1>4. Task(id)'
  BY <1>1, <1>2, <1>3 DEF Task, Alive
<1>5. PermitsMatchTasks' /\ permits' <= MutationLimit
  <2>1. TaskAlive(id)' = TaskAlive(id)
    BY <1>1, <1>2 DEF TaskAlive, Alive
  <2> QED
    BY <1>2, <2>1, PermitsStay
<1>6. SchedulerTypeOK'
  BY <1>1 DEF SchedulerInv, SchedulerTypeOK, Threads
<1>7. ExecutionIsSerialised'
  <2>1. \A d \in Ids : thread'[d] = "executing" <=> thread[d] = "executing"
    BY <1>1
  <2>2. thread' \in [Ids -> Threads]
    BY <1>6 DEF SchedulerTypeOK
  <2> QED
    BY <2>1, <2>2, LocksStay
<1>8. ReturnedWorkersAreListed'
  BY <1>1 DEF ReturnedWorkersAreListed, Alive
<1>9. RecordsInv'
  <2>1. ASSUME NEW operation, Record(operation, id) PROVE Record(operation, id)'
    <3>1. operation.state = "Running"
      BY <1>1, <2>1 DEF Record, RecordAgrees, Alive, Terminal
    <3> QED
      BY <1>2, <3>1 DEF Record, RecordAgrees, Terminal, Alive
  <2> QED
    BY <1>2, <2>1, RecordsStay
<1> QED
  BY <1>2, <1>3, <1>4, <1>5, <1>6, <1>7, <1>8, <1>9, TaskStep, SMTT(30)

(***************************************************************************)
(* The executor's lock is taken when it is free, for good or only to find  *)
(* the task cancelled.                                                     *)
(***************************************************************************)
LEMMA AcquireKeeps ==
  ASSUME SchedulerInv, NEW id \in Ids, AcquireExecutor(id)
  PROVE  SchedulerInv'
<1>1. CASE Return(id, "waiting", CancelledResult)
  BY <1>1, ReturnKeeps, SMTT(60) DEF Alive, TaskResults
<1>2. CASE /\ holder[Lock(id)] = None /\ Step(id, "waiting", "executing")
           /\ holder' = [holder EXCEPT ![Lock(id)] = id]
           /\ UNCHANGED <<registryVars, permits, admitted, class, submitter, workers,
                          cancelled, result>>
  <2>1. /\ thread[id] = "waiting" /\ thread' = [thread EXCEPT ![id] = "executing"]
        /\ thread \in [Ids -> Threads] /\ holder \in [Locks -> Ids \cup {None}]
        /\ Task(id) /\ ReturnedWorkersAreListed /\ ExecutionIsSerialised
    BY <1>2 DEF Step, SchedulerInv, SchedulerTypeOK
  <2>2. OthersStay(id) /\ thread'[id] = "executing"
    BY <1>2, <2>1 DEF OthersStay
  <2>3. RegistryInv' /\ next_operation' = next_operation
    BY <1>2, RegistryStays DEF registryVars
  <2>4. Task(id)'
    BY <1>2, <2>1, <2>2, <2>3 DEF Task
  <2>5. PermitsMatchTasks' /\ permits' <= MutationLimit
    <3>1. TaskAlive(id)' = TaskAlive(id)
      BY <1>2, <2>1, <2>2 DEF TaskAlive
    <3> QED
      BY <1>2, <2>2, <3>1, PermitsStay
  <2>6. SchedulerTypeOK'
    BY <1>2, <2>1, LockFacts DEF SchedulerInv, SchedulerTypeOK, Threads, Alive
  <2>7. ExecutionIsSerialised'
    <3>1. ASSUME NEW d \in Ids, thread'[d] = "executing" PROVE holder'[Lock(d)'] = d
      <4>1. Lock(d)' = Lock(d) /\ Lock(d) \in Locks /\ Lock(id) \in Locks
        BY <1>2, LockFacts
      <4>2. CASE d = id
        BY <1>2, <2>1, <4>1, <4>2
      <4>3. CASE d # id
        <5>1. holder[Lock(d)] = d /\ d # None
          BY <2>1, <3>1, <4>3, IdFacts DEF ExecutionIsSerialised
        <5>2. Lock(d) # Lock(id)
          BY <1>2, <5>1
        <5> QED
          BY <1>2, <2>1, <4>1, <5>1, <5>2
      <4> QED
        BY <4>2, <4>3
    <3>2. ASSUME NEW lock \in Locks, holder'[lock] # None
          PROVE  thread'[holder'[lock]] = "executing"
      BY <1>2, <2>1, <2>2, <3>2 DEF ExecutionIsSerialised
    <3> QED
      BY <3>1, <3>2 DEF ExecutionIsSerialised
  <2>8. ReturnedWorkersAreListed'
    BY <1>2, <2>1 DEF ReturnedWorkersAreListed
  <2>9. RecordsInv'
    <3>1. ASSUME NEW operation, Record(operation, id) PROVE Record(operation, id)'
      <4>1. operation.state = "Running"
        BY <2>1, <3>1 DEF Record, RecordAgrees, Terminal
      <4> QED
        BY <2>2, <4>1 DEF Record, RecordAgrees, Terminal
    <3> QED
      BY <1>2, <2>2, <3>1, RecordsStay, SMTT(30)
  <2> QED
    BY <2>2, <2>3, <2>4, <2>5, <2>6, <2>7, <2>8, <2>9, TaskStep, SMTT(30)
<1> QED
  BY <1>1, <1>2 DEF AcquireExecutor

(***************************************************************************)
(* The thread starts its operation, or finds it evicted and exits.         *)
(***************************************************************************)
LEMMA StartKeeps ==
  ASSUME SchedulerInv, NEW id \in Ids, StartOperation(id)
  PROVE  SchedulerInv'
<1>0. /\ UNCHANGED <<admitted, class, submitter, workers, cancelled, holder, result>>
      /\ thread \in [Ids -> Threads] /\ Task(id) /\ ReturnedWorkersAreListed
  BY SMTT(60) DEF StartOperation, SchedulerInv, SchedulerTypeOK
<1>1. CASE Start(id) /\ Step(id, "spawned", "running") /\ UNCHANGED permits
  <2>1. /\ thread[id] = "spawned" /\ thread' = [thread EXCEPT ![id] = "running"]
        /\ thread'[id] = "running" /\ OthersStay(id)
    BY <1>0, <1>1 DEF Step, OthersStay
  <2>2. RegistryInv' /\ RecordsInv' /\ next_operation' = next_operation
    <3>1. PICK i \in DOMAIN operations :
            /\ operations[i].id = id
            /\ Update(i, [operations[i] EXCEPT !.state = "Running", !.progress = 0])
      BY <1>1, ZenonT(60) DEF Start
    <3>2. operations[i] \in Operation
      BY SMTT(60) DEF SchedulerInv, RegistryInv, RegistryTypeOK
    <3> DEFINE Started == [operations[i] EXCEPT !.state = "Running", !.progress = 0]
    <3>3. "Running" \in OperationState /\ 0 \in Progress
      BY SMTT(60) DEF OperationState, Progress
    <3>4. Started \in Operation /\ Started.id = id /\ Started.state = "Running"
      BY <3>1, <3>2, <3>3, ZenonT(60) DEF Operation
    <3> HIDE DEF Started
    <3>5. PICK f \in Operation : Update(i, f) /\ f.id = id /\ f.state = "Running"
      BY <3>1, <3>4, ZenonT(60) DEF Started
    <3>6. Record(f, id)'
      BY <2>1, <3>5 DEF Record, RecordAgrees, Terminal
    <3> QED
      BY <2>1, <3>1, <3>5, <3>6, RecordUpdate, SMTT(30)
  <2>3. Task(id)'
    BY <1>0, <2>1, <2>2 DEF Task
  <2>4. PermitsMatchTasks' /\ permits' <= MutationLimit
    <3>1. TaskAlive(id)' = TaskAlive(id)
      BY <1>0, <2>1 DEF TaskAlive
    <3> QED
      BY <1>0, <1>1, <2>1, <3>1, PermitsStay
  <2>5. SchedulerTypeOK'
    BY <1>0, <1>1, <2>1 DEF SchedulerInv, SchedulerTypeOK, Threads, Alive
  <2>6. ExecutionIsSerialised'
    BY <1>0, <2>1, <2>5, LocksStay DEF SchedulerTypeOK
  <2>7. ReturnedWorkersAreListed'
    BY <1>0, <2>1 DEF ReturnedWorkersAreListed
  <2> QED
    BY <2>1, <2>2, <2>3, <2>4, <2>5, <2>6, <2>7, TaskStep, SMTT(30)
<1>2. CASE /\ ~Retained(id) /\ Step(id, "spawned", "exited")
           /\ permits' = permits - 1 /\ UNCHANGED registryVars
  <2>1. /\ thread[id] = "spawned" /\ thread' = [thread EXCEPT ![id] = "exited"]
        /\ thread'[id] = "exited" /\ OthersStay(id)
    BY <1>0, <1>2 DEF Step, OthersStay
  <2>2. RegistryInv' /\ RecordsInv' /\ next_operation' = next_operation
    BY <1>2, <2>1, RegistryStays, NoRecordStays DEF registryVars
  <2>3. Task(id)' /\ submitter[id] # "created"
    BY <1>0, <2>1, <2>2 DEF Task
  <2>4. PermitsMatchTasks' /\ permits' \in Nat /\ permits' <= MutationLimit
    <3>1. TaskAlive(id) /\ ~TaskAlive(id)'
      BY <1>0, <2>1, <2>3 DEF TaskAlive
    <3> QED
      BY <1>0, <1>2, <2>1, <3>1, PermitReturns
  <2>5. SchedulerTypeOK'
    BY <1>0, <2>1, <2>4 DEF SchedulerInv, SchedulerTypeOK, Threads
  <2>6. ExecutionIsSerialised'
    BY <1>0, <2>1, <2>5, LocksStay DEF SchedulerTypeOK
  <2>7. ReturnedWorkersAreListed'
    BY <1>0, <2>1, SMTT(60) DEF ReturnedWorkersAreListed
  <2> QED
    BY <2>1, <2>2, <2>3, <2>4, <2>5, <2>6, <2>7, TaskStep, SMTT(30)
<1> QED
  BY <1>1, <1>2 DEF StartOperation

(***************************************************************************)
(* The thread records its result and is over.                              *)
(***************************************************************************)
LEMMA RecordResultKeeps ==
  ASSUME SchedulerInv, NEW id \in Ids, RecordResult(id)
  PROVE  SchedulerInv'
<1>1. /\ thread[id] = "returned" /\ thread' = [thread EXCEPT ![id] = "exited"]
      /\ FinishIgnoringErrors(id, result[id])
      /\ UNCHANGED <<permits, admitted, class, submitter, workers, cancelled, holder, result>>
      /\ thread \in [Ids -> Threads] /\ Task(id) /\ ReturnedWorkersAreListed
  BY DEF RecordResult, Step, SchedulerInv, SchedulerTypeOK
<1>2. OthersStay(id) /\ thread'[id] = "exited" /\ result[id] \in TaskResults
  BY <1>1 DEF OthersStay, Task
<1>3. RegistryInv' /\ RecordsInv' /\ next_operation' = next_operation
  <2>1. PICK r \in TaskResults : r = result[id]
    BY <1>2
  <2> QED
    BY <1>1, <1>2, <2>1, FinishKeepsRecords
<1>4. Task(id)'
  BY <1>1, <1>2, <1>3 DEF Task
<1>5. PermitsMatchTasks' /\ permits' <= MutationLimit
  <2>1. TaskAlive(id)' = TaskAlive(id)
    BY <1>1, <1>2 DEF TaskAlive
  <2> QED
    BY <1>1, <1>2, <2>1, PermitsStay
<1>6. SchedulerTypeOK'
  BY <1>1, SMTT(30) DEF SchedulerInv, SchedulerTypeOK, Threads
<1>7. ExecutionIsSerialised'
  BY <1>1, <1>6, LocksStay, SMTT(30) DEF SchedulerTypeOK
<1>8. ReturnedWorkersAreListed'
  BY <1>1 DEF ReturnedWorkersAreListed
<1> QED
  BY <1>2, <1>3, <1>4, <1>5, <1>6, <1>7, <1>8, TaskStep, SMTT(30)

(***************************************************************************)
(* Every step of a worker thread.                                          *)
(***************************************************************************)
LEMMA WorkerKeeps ==
  ASSUME SchedulerInv, NEW id \in Ids, WorkerStep(id)
  PROVE  SchedulerInv'
<1>1. CASE CheckCancellation(id)
  <2> DEFINE next == IF class[id] = "load" THEN "resolving" ELSE "waiting"
  <2>1. CASE Return(id, "running", CancelledResult)
    BY <2>1, ReturnKeeps DEF Alive, TaskResults
  <2>2. CASE ~Return(id, "running", CancelledResult)
    <3>1. /\ Step(id, "running", next)
          /\ UNCHANGED <<registryVars, permits, admitted, class, submitter, workers,
                         cancelled, holder, result>>
      BY <1>1, <2>2 DEF CheckCancellation
    <3>2. next \in Alive \ {"spawned", "executing"} /\ "running" \in Alive
      BY DEF Alive
    <3> HIDE DEF next
    <3> QED
      BY <3>1, <3>2, MoveKeeps
  <2> QED
    BY <1>1, <2>1, <2>2 DEF CheckCancellation
<1>2. CASE ResolveImages(id)
  <2>1. CASE \E r \in CatalogFailures : Return(id, "resolving", r)
    BY <2>1, ReturnKeeps DEF Alive, TaskResults
  <2>2. CASE ~\E r \in CatalogFailures : Return(id, "resolving", r)
    BY <1>2, <2>2, MoveKeeps DEF ResolveImages, Alive
  <2> QED
    BY <2>1, <2>2
<1>3. CASE CheckResolved(id)
  <2>1. CASE Return(id, "resolved", CancelledResult)
    BY <2>1, ReturnKeeps DEF Alive, TaskResults
  <2>2. CASE ~Return(id, "resolved", CancelledResult)
    BY <1>3, <2>2, MoveKeeps DEF CheckResolved, Alive
  <2> QED
    BY <2>1, <2>2
<1>4. CASE ExecuteTask(id) \/ TaskPanics(id)
  <2>1. ResultsOf(id) \subseteq TaskResults /\ WorkerPanicResult \in TaskResults
    BY ZenonT(60) DEF ResultsOf, TaskResults, OutcomeResults
  <2>2. PICK r \in TaskResults : Return(id, "executing", r)
    BY <1>4, <2>1 DEF ExecuteTask, TaskPanics
  <2> QED
    BY <2>2, ReturnKeeps DEF Alive
<1> QED
  BY <1>1, <1>2, <1>3, <1>4, StartKeeps, AcquireKeeps, RecordResultKeeps, SMTT(30) DEF WorkerStep

-----------------------------------------------------------------------------
(* The request handler.                                                    *)

(***************************************************************************)
(* `submit` spawns the thread, or loses the task with the closure.         *)
(***************************************************************************)
LEMMA SpawnKeeps ==
  ASSUME SchedulerInv, NEW id \in Ids, Spawn(id) \/ SpawnFails(id)
  PROVE  SchedulerInv'
<1>0. /\ submitter[id] = "created" /\ thread[id] = "none" /\ Task(id)
      /\ thread \in [Ids -> Threads] /\ result \in [Ids -> TaskResults \cup {None}]
      /\ submitter \in [Ids -> {"none", "created", "spawned", "spawn_failed", "returned"}]
      /\ ReturnedWorkersAreListed
      /\ UNCHANGED <<registryVars, admitted, class, workers, cancelled, holder>>
  BY DEF Spawn, SpawnFails, SchedulerInv, SchedulerTypeOK, Task
<1>1. RegistryInv' /\ next_operation' = next_operation
  BY <1>0, RegistryStays DEF registryVars
<1>2. ASSUME NEW operation, Record(operation, id)
      PROVE  operation.state = "Queued"
  BY <1>0, <1>2, SMTT(60) DEF Record, RecordAgrees, Terminal
<1>3. CASE Spawn(id)
  <2>1. /\ submitter' = [submitter EXCEPT ![id] = "spawned"]
        /\ thread' = [thread EXCEPT ![id] = "spawned"] /\ UNCHANGED <<permits, result>>
        /\ submitter'[id] = "spawned" /\ thread'[id] = "spawned"
    BY <1>0, <1>3 DEF Spawn
  <2>2. OthersStay(id)
    BY <1>0, <2>1 DEF OthersStay
  <2>3. Task(id)'
    BY <1>0, <1>1, <2>1 DEF Task
  <2>4. PermitsMatchTasks' /\ permits' <= MutationLimit
    <3>1. TaskAlive(id)' = TaskAlive(id)
      BY <1>0, <2>1 DEF TaskAlive
    <3> QED
      BY <1>0, <2>1, <2>2, <3>1, PermitsStay
  <2>5. SchedulerTypeOK'
    BY <1>0, <2>1, SMTT(30) DEF SchedulerInv, SchedulerTypeOK, Threads, Alive
  <2>6. ExecutionIsSerialised'
    BY <1>0, <2>1, <2>5, LocksStay DEF SchedulerTypeOK
  <2>7. ReturnedWorkersAreListed'
    BY <1>0, <2>1 DEF ReturnedWorkersAreListed
  <2>8. RecordsInv'
    <3>1. ASSUME NEW operation, Record(operation, id) PROVE Record(operation, id)'
      BY <1>2, <2>1, <3>1 DEF Record, RecordAgrees, Terminal
    <3> QED
      BY <1>0, <2>2, <3>1, RecordsStay, SMTT(30)
  <2> QED
    BY <1>1, <2>2, <2>3, <2>4, <2>5, <2>6, <2>7, <2>8, TaskStep, SMTT(30)
<1>4. CASE SpawnFails(id)
  <2>1. /\ submitter' = [submitter EXCEPT ![id] = "spawn_failed"]
        /\ result' = [result EXCEPT ![id] = WorkerSpawnResult]
        /\ permits' = permits - 1 /\ UNCHANGED thread
        /\ submitter'[id] = "spawn_failed" /\ result'[id] = WorkerSpawnResult
    BY <1>0, <1>4 DEF SpawnFails
  <2>2. OthersStay(id)
    BY <1>0, <2>1 DEF OthersStay
  <2>3. Task(id)'
    BY <1>0, <1>1, <2>1 DEF Task
  <2>4. PermitsMatchTasks' /\ permits' \in Nat /\ permits' <= MutationLimit
    <3>1. TaskAlive(id) /\ ~TaskAlive(id)'
      BY <1>0, <2>1, SMTT(30) DEF TaskAlive
    <3> QED
      BY <1>0, <2>1, <2>2, <3>1, PermitReturns, SMTT(60)
  <2>5. SchedulerTypeOK'
    BY <1>0, <2>1, <2>4, SMTT(60) DEF SchedulerInv, SchedulerTypeOK, TaskResults
  <2>6. ExecutionIsSerialised'
    BY <1>0, <2>1, LocksStay
  <2>7. ReturnedWorkersAreListed'
    BY <1>0, <2>1, SMTT(30) DEF ReturnedWorkersAreListed
  <2>8. RecordsInv'
    <3>1. ASSUME NEW operation, Record(operation, id) PROVE Record(operation, id)'
      BY <1>0, <1>2, <2>1, <3>1, SMTT(30) DEF Record, RecordAgrees, Terminal
    <3> QED
      BY <1>0, <2>2, <3>1, RecordsStay
  <2> QED
    BY <1>1, <2>2, <2>3, <2>4, <2>5, <2>6, <2>7, <2>8, TaskStep, SMTT(30)
<1> QED
  BY <1>3, <1>4

(***************************************************************************)
(* `submit` returns: after recording that there is no thread, or after     *)
(* listing it.                                                             *)
(***************************************************************************)
LEMMA SubmitReturnsKeeps ==
  ASSUME SchedulerInv, NEW id \in Ids, RecordSpawnFailure(id) \/ ListWorker(id)
  PROVE  SchedulerInv'
<1>0. /\ Task(id) /\ ReturnedWorkersAreListed
      /\ submitter \in [Ids -> {"none", "created", "spawned", "spawn_failed", "returned"}]
      /\ submitter[id] \in {"spawn_failed", "spawned"}
      /\ submitter' = [submitter EXCEPT ![id] = "returned"] /\ submitter'[id] = "returned"
      /\ UNCHANGED <<permits, admitted, class, thread, cancelled, holder, result>>
  BY DEF RecordSpawnFailure, ListWorker, SchedulerInv, SchedulerTypeOK
<1>1. OthersStay(id)
  BY <1>0 DEF OthersStay
<1>2. PermitsMatchTasks' /\ permits' <= MutationLimit
  <2>1. TaskAlive(id)' = TaskAlive(id)
    BY <1>0 DEF TaskAlive
  <2> QED
    BY <1>0, <1>1, <2>1, PermitsStay
<1>3. ExecutionIsSerialised'
  <2>1. thread \in [Ids -> Threads]
    BY SMTT(60) DEF SchedulerInv, SchedulerTypeOK
  <2> QED
    BY <1>0, <2>1, LocksStay, ZenonT(60)
<1>4. CASE RecordSpawnFailure(id)
  <2>1. /\ submitter[id] = "spawn_failed" /\ UNCHANGED workers
        /\ FinishIgnoringErrors(id, WorkerSpawnResult)
    BY <1>4, SMTT(60) DEF RecordSpawnFailure
  <2>2. /\ WorkerSpawnResult \in TaskResults
        /\ result'[id] = WorkerSpawnResult /\ thread'[id] = "none"
    BY <1>0, <2>1, SMTT(30) DEF TaskResults, Task
  <2>3. RegistryInv' /\ RecordsInv' /\ next_operation' = next_operation
    BY <1>0, <1>1, <2>1, <2>2, FinishKeepsRecords, SMTT(60)
  <2>4. Task(id)'
    BY <1>0, <2>1, <2>2, <2>3 DEF Task
  <2>5. SchedulerTypeOK'
    BY <1>0, <2>1, SMTT(30) DEF SchedulerInv, SchedulerTypeOK
  <2>6. ReturnedWorkersAreListed'
    BY <1>0, <2>1, <2>2 DEF ReturnedWorkersAreListed
  <2> QED
    BY <1>1, <1>2, <1>3, <2>3, <2>4, <2>5, <2>6, TaskStep, SMTT(30)
<1>5. CASE ListWorker(id)
  <2>1. /\ submitter[id] = "spawned" /\ workers' = workers \cup {id}
        /\ UNCHANGED registryVars /\ thread[id] # "none"
    BY <1>0, <1>5, SMTT(30) DEF ListWorker, Task
  <2>2. RegistryInv' /\ next_operation' = next_operation
    BY <2>1, RegistryStays, ZenonT(60) DEF registryVars
  <2>3. Task(id)'
    BY <1>0, <2>1, <2>2, SMTT(60) DEF Task
  <2>4. SchedulerTypeOK'
    BY <1>0, <2>1 DEF SchedulerInv, SchedulerTypeOK
  <2>5. ReturnedWorkersAreListed'
    BY <1>0, <2>1, SMTT(30) DEF ReturnedWorkersAreListed
  <2>6. RecordsInv'
    <3>1. ASSUME NEW operation, Record(operation, id) PROVE Record(operation, id)'
      BY <1>0, <2>1, <3>1 DEF Record, RecordAgrees
    <3>2. \A operation : Record(operation, id) => Record(operation, id)'
      BY <3>1
    <3>3. UNCHANGED registryVars /\ OthersStay(id)
      BY <1>1, <2>1
    <3> QED
      BY <3>2, <3>3, RecordsStay
  <2> QED
    BY <1>1, <1>2, <1>3, <2>2, <2>3, <2>4, <2>5, <2>6, TaskStep, SMTT(30)
<1> QED
  BY <1>4, <1>5

(***************************************************************************)
(* Reaping unlists only threads that are over.                             *)
(***************************************************************************)
LEMMA ReapKeeps ==
  ASSUME ReturnedWorkersAreListed, workers' = Unreaped,
         \A d \in Ids : submitter'[d] = "returned" =>
                         submitter[d] = "returned" /\ thread'[d] = thread[d]
  PROVE  ReturnedWorkersAreListed'
  BY DEF ReturnedWorkersAreListed, Unreaped

(***************************************************************************)
(* `cancel` reaps, and flags a worker that is still listed.                *)
(***************************************************************************)
LEMMA CancelKeeps ==
  ASSUME SchedulerInv, NEW id \in Ids, Cancel(id)
  PROVE  SchedulerInv'
<1>1. /\ workers' = Unreaped
      /\ cancelled' = [cancelled EXCEPT ![id] = cancelled[id] \/ id \in Unreaped]
      /\ UNCHANGED <<registryVars, permits, admitted, class, submitter, thread, holder, result>>
      /\ thread \in [Ids -> Threads] /\ ReturnedWorkersAreListed /\ Task(id)
  BY SMTT(30) DEF Cancel, SchedulerInv, SchedulerTypeOK
<1>2. OthersStay(id)
  BY <1>1 DEF OthersStay
<1>3. RegistryInv' /\ next_operation' = next_operation
  BY <1>1, RegistryStays, SMTT(60) DEF registryVars
<1>4. Task(id)'
  BY <1>1, <1>3 DEF Task
<1>5. PermitsMatchTasks' /\ permits' <= MutationLimit
  <2>1. TaskAlive(id)' = TaskAlive(id)
    BY <1>1, SMTT(30) DEF TaskAlive
  <2> QED
    BY <1>1, <1>2, <2>1, PermitsStay, SMTT(60)
<1>6. SchedulerTypeOK'
  <2>1. cancelled' \in [Ids -> BOOLEAN]
    BY <1>1, Zenon DEF SchedulerInv, SchedulerTypeOK
  <2> QED
    BY <1>1, <2>1, SMTT(60) DEF SchedulerInv, SchedulerTypeOK, Unreaped
<1>7. ExecutionIsSerialised'
  BY <1>1, LocksStay, SMTT(60)
<1>8. ReturnedWorkersAreListed'
  BY <1>1, ReapKeeps
<1>9. RecordsInv'
  <2>1. ASSUME NEW operation, Record(operation, id) PROVE Record(operation, id)'
    BY <1>1, <2>1 DEF Record, RecordAgrees
  <2> QED
    BY <1>1, <1>2, <2>1, RecordsStay, SMTT(30)
<1> QED
  BY <1>2, <1>3, <1>4, <1>5, <1>6, <1>7, <1>8, <1>9, TaskStep, SMTT(30)

(***************************************************************************)
(* A request is admitted only below the limit.                             *)
(***************************************************************************)
LEMMA AdmitKeeps ==
  ASSUME SchedulerInv, Admit
  PROVE  SchedulerInv'
<1>1. /\ permits < MutationLimit /\ permits' = permits + 1 /\ admitted' = admitted + 1
      /\ UNCHANGED <<registryVars, class, submitter, thread, workers, cancelled, holder, result>>
      /\ permits \in Nat /\ admitted \in Nat /\ thread \in [Ids -> Threads]
  BY DEF Admit, SchedulerInv, SchedulerTypeOK
<1>2. RegistryInv' /\ next_operation' = next_operation /\ operations' = operations
  BY <1>1, RegistryStays DEF registryVars
<1>3. SchedulerTypeOK'
  BY <1>1, SMTT(60) DEF SchedulerInv, SchedulerTypeOK
<1>4. \A id \in Ids : Task(id)'
  BY <1>1, <1>2 DEF SchedulerInv, Task
<1>5. PermitsMatchTasks' /\ permits' <= MutationLimit
  <2>1. Tasks' = Tasks
    BY <1>1 DEF Tasks, TaskAlive
  <2>2. Cardinality(Tasks)' = Cardinality(Tasks) /\ Cardinality(Tasks) \in Nat
    BY <2>1, IdFacts
  <2>3. permits = admitted + Cardinality(Tasks) /\ MutationLimit \in Nat
    BY SchedulerAssumption DEF SchedulerInv, PermitsMatchTasks, Tasks
  <2>4. permits' = admitted' + Cardinality(Tasks)' /\ permits' <= MutationLimit
    BY <1>1, <2>2, <2>3, SMTT(60)
  <2> QED
    BY <2>4 DEF PermitsMatchTasks, Tasks
<1>6. ExecutionIsSerialised'
  BY <1>1, LocksStay
<1>7. ReturnedWorkersAreListed'
  BY <1>1, SMTT(30) DEF SchedulerInv, ReturnedWorkersAreListed
<1>8. RecordsInv'
  <2>1. UNCHANGED <<submitter, thread, result, cancelled, class>>
    BY <1>1, SMTT(30)
  <2>2. ASSUME NEW i \in DOMAIN operations
        PROVE  operations[i].id \in Ids /\ Record(operations[i], operations[i].id)'
    <3>1. operations[i].id \in Ids /\ Record(operations[i], operations[i].id)
      BY DEF SchedulerInv, RecordsInv
    <3> QED
      BY <1>2, <2>1, <3>1 DEF Record, RecordAgrees
  <2>3. next_operation' <= MaxOperations + 1
    BY <1>2, SMTT(30) DEF SchedulerInv, RecordsInv
  <2> QED
    BY <1>2, <2>2, <2>3 DEF RecordsInv
<1> QED
  BY <1>2, <1>3, <1>4, <1>5, <1>6, <1>7, <1>8, SMTT(30) DEF SchedulerInv

(***************************************************************************)
(* `submit` creates the operation: the record is new, and the records that *)
(* stay were there before.                                                 *)
(***************************************************************************)
LEMMA CreateKeepsRecords ==
  ASSUME SchedulerInv, NEW expected \in Generations, Create(expected),
         OthersStay(next_operation), submitter'[next_operation] = "created",
         thread'[next_operation] = "none"
  PROVE  RegistryInv' /\ RecordsInv' /\ next_operation \in Ids
<1> DEFINE operation == NewOperation(next_operation, expected)
<1>1. /\ RegistryInv /\ RecordsInv
      /\ operations \in Seq(Operation) /\ Len(operations) <= OperationCapacity
      /\ next_operation \in Nat \ {0} /\ OperationCapacity \in Nat \ {0}
  BY CapacityAssumption DEF SchedulerInv, RegistryInv, RegistryTypeOK
<1>2. /\ next_operation <= MaxOperations /\ next_operation' = next_operation + 1
      /\ operations' = PushBack(operations, operation, OperationCapacity)
  BY DEF Create
<1>3. RegistryInv'
  BY <1>1, CreateLemma
<1>4. next_operation \in Ids
  BY <1>1, <1>2, BoundAssumption, SMTT(30) DEF Ids
<1>5. /\ operation \in Operation /\ operation.id = next_operation
      /\ operation.state = "Queued"
  BY <1>1, SMTT(30) DEF NewOperation, Operation, OperationState
<1> HIDE DEF operation
<1>6. PICK dropped \in {0, 1} :
        /\ operations' \in Seq(Operation) /\ Len(operations') \in 1..OperationCapacity
        /\ operations'[Len(operations')] = operation
        /\ Len(operations') = Len(operations) + 1 - dropped
        /\ \A k \in 1..(Len(operations') - 1) : operations'[k] = operations[k + dropped]
  <2>1. PICK pushed : pushed = PushBack(operations, operation, OperationCapacity)
    OBVIOUS
  <2>2. /\ pushed \in Seq(Operation) /\ Len(pushed) \in 1..OperationCapacity
        /\ pushed[Len(pushed)] = operation
        /\ \E dropped \in {0, 1} :
             /\ Len(pushed) = Len(operations) + 1 - dropped
             /\ \A i \in 1..(Len(pushed) - 1) : pushed[i] = operations[i + dropped]
    <3>1. /\ operations \in Seq(Operation) /\ operation \in Operation
          /\ OperationCapacity \in Nat \ {0} /\ Len(operations) <= OperationCapacity
      BY <1>1, <1>5
    <3> QED
      BY <2>1, <3>1, PushBackLemma, SMTT(60)
  <2>3. operations' = pushed
    BY <1>2, <2>1, SMTT(60)
  <2> QED
    BY <2>2, <2>3
<1>7. ASSUME NEW k \in DOMAIN operations'
      PROVE  operations'[k].id \in Ids /\ Record(operations[k], operations[k].id)'
  <2>1. k \in 1..Len(operations') /\ Len(operations) \in Nat
    BY <1>1, <1>6, SMTT(60)
  <2>2. CASE k = Len(operations')
    <3>1. operations'[k] = operation
      BY <1>6, <2>2
    <3>2. thread'[operation.id] = "none" /\ submitter'[operation.id] = "created"
      BY <1>5, SMTT(30)
    <3> QED
      BY <1>4, <1>5, <3>1, <3>2 DEF Record, RecordAgrees, Terminal
  <2>3. CASE k # Len(operations')
    <3>1. /\ k \in 1..(Len(operations') - 1) /\ k + dropped \in 1..Len(operations)
          /\ operations'[k] = operations[k + dropped]
      <4>1. PICK m, n : m = Len(operations') /\ n = Len(operations)
        OBVIOUS
      <4>2. /\ n \in Nat /\ m \in Nat /\ k \in 1..m /\ k # m /\ dropped \in {0, 1}
            /\ m = n + 1 - dropped
        BY <1>6, <2>1, <2>3, <4>1, SMTT(60)
      <4>3. k \in 1..(m - 1) /\ k + dropped \in 1..n
        BY <4>2, SMTT(60)
      <4>4. \A i \in 1..(m - 1) : operations'[i] = operations[i + dropped]
        BY <1>6, <4>1, SMTT(60)
      <4> QED
        BY <4>1, <4>3, <4>4
    <3>2. PICK j \in DOMAIN operations : operations'[k] = operations[j]
      BY <1>1, <3>1, SMTT(60)
    <3>3. operations[j].id = next_operation - Len(operations) + j - 1 /\ j \in 1..Len(operations)
      BY <1>1, SMTT(60) DEF RegistryInv, NewestOperationsRetained
    <3>4. operations[j].id # next_operation
      BY <1>1, <2>1, <3>3, SMTT(60)
    <3>5. operations[j].id \in Ids /\ Record(operations[j], operations[j].id)
      BY <1>1 DEF RecordsInv
    <3>6. PICK old : old = operations[j]
      OBVIOUS
    <3>7. /\ old.id \in Ids \ {next_operation} /\ Record(old, old.id)
          /\ operations'[k] = old
      BY <3>2, <3>4, <3>5, <3>6
    <3>8. Record(old, old.id)'
      BY <3>7, SMTT(60) DEF Record, RecordAgrees, OthersStay
    <3> QED
      BY <3>7, <3>8
  <2> QED
    BY <2>2, <2>3, ZenonT(60)
<1>8. next_operation' <= MaxOperations + 1
  BY <1>1, <1>2, BoundAssumption, SMTT(60)
<1> QED
  BY <1>3, <1>4, <1>7, <1>8, SMTT(60) DEF RecordsInv

(***************************************************************************)
(* Acceptance turns an admitted handler into a task, permit included.      *)
(***************************************************************************)
LEMMA AcceptKeeps ==
  ASSUME SchedulerInv, NEW c \in Classes, NEW expected \in Generations, Accept(c, expected)
  PROVE  SchedulerInv'
<1> DEFINE id == next_operation
<1>1. /\ admitted > 0 /\ admitted' = admitted - 1 /\ workers' = Unreaped
      /\ Create(expected) /\ class' = [class EXCEPT ![id] = c]
      /\ submitter' = [submitter EXCEPT ![id] = "created"]
      /\ UNCHANGED <<permits, thread, cancelled, holder, result>>
  BY DEF Accept
<1>2. /\ SchedulerTypeOK /\ ReturnedWorkersAreListed /\ ExecutionIsSerialised
      /\ next_operation \in Nat \ {0} /\ \A d \in Ids : Task(d)
      /\ submitter \in [Ids -> {"none", "created", "spawned", "spawn_failed", "returned"}]
      /\ class \in [Ids -> AllClasses \cup {None}]
  BY DEF SchedulerInv, SchedulerTypeOK, RegistryInv, RegistryTypeOK
<1>3. id \in Ids /\ next_operation' = next_operation + 1
  BY <1>1, <1>2, BoundAssumption, SMTT(60) DEF Create, Ids
<1>4. submitter[id] = "none" /\ thread[id] = "none" /\ submitter'[id] = "created"
  BY <1>1, <1>2, <1>3, SMTT(60) DEF Task
<1>5. OthersStay(id)
  BY <1>1, <1>2, SMTT(30) DEF OthersStay
<1>6. RegistryInv' /\ RecordsInv'
  BY <1>1, <1>4, <1>5, CreateKeepsRecords, ZenonT(60)
<1>7. ASSUME NEW d \in Ids PROVE Task(d)'
  <2>1. CASE d = id
    BY <1>1, <1>2, <1>3, <1>4, <2>1, SMTT(30) DEF Task
  <2>2. CASE d # id
    <3>1. d >= next_operation' <=> d >= next_operation
      BY <1>2, <1>3, <2>2, IdFacts, SMTT(30)
    <3>2. Task(d) /\ submitter'[d] = submitter[d] /\ thread'[d] = thread[d] /\ result'[d] = result[d]
      BY <1>2, <1>5, <2>2, ZenonT(60) DEF OthersStay
    <3> QED
      BY <3>1, <3>2, SMTT(60) DEF Task
  <2> QED
    BY <2>1, <2>2, SMTT(60)
<1>8. SchedulerTypeOK'
  <2>1. admitted' \in Nat
    BY <1>1, <1>2, SMTT(60) DEF SchedulerTypeOK
  <2>2. class' \in [Ids -> AllClasses \cup {None}]
    BY <1>1, <1>2, SchedulerAssumption, ZenonT(60)
  <2>3. workers' \subseteq Ids
    BY <1>1, <1>2 DEF SchedulerTypeOK, Unreaped
  <2> QED
    BY <1>1, <1>2, <2>1, <2>2, <2>3, SMTT(30) DEF SchedulerTypeOK
<1>9. PermitsMatchTasks' /\ permits' <= MutationLimit
  <2>1. id \notin Tasks /\ Tasks' = Tasks \cup {id}
    BY <1>1, <1>2, <1>3, <1>4 DEF Tasks, TaskAlive
  <2>2. Cardinality(Tasks)' = Cardinality(Tasks) + 1 /\ Cardinality(Tasks) \in Nat
    BY <2>1, TaskBegins, IdFacts, ZenonT(60)
  <2>3. permits = admitted + Cardinality(Tasks) /\ admitted \in Nat /\ permits <= MutationLimit
    BY <1>2 DEF SchedulerInv, PermitsMatchTasks, Tasks, SchedulerTypeOK
  <2>4. permits' = admitted' + Cardinality(Tasks)'
    BY <1>1, <2>2, <2>3, SMTT(60)
  <2> QED
    BY <1>1, <2>3, <2>4, SMTT(60) DEF PermitsMatchTasks, Tasks
<1>10. ExecutionIsSerialised'
  <2>1. ASSUME NEW d \in Ids, thread'[d] = "executing" PROVE holder'[Lock(d)'] = d
    <3>1. d # id /\ class'[d] = class[d]
      BY <1>1, <1>2, <1>4, <2>1, SMTT(60)
    <3> QED
      BY <1>1, <1>2, <2>1, <3>1, LockFacts, SMTT(30) DEF ExecutionIsSerialised
  <2> QED
    BY <1>1, <1>2, <2>1, SMTT(60) DEF ExecutionIsSerialised
<1>11. ReturnedWorkersAreListed'
  BY <1>1, <1>2, <1>4, ReapKeeps
<1> QED
  BY <1>6, <1>7, <1>8, <1>9, <1>10, <1>11, SMTT(30) DEF SchedulerInv

-----------------------------------------------------------------------------

(***************************************************************************)
(* The invariant is inductive.                                             *)
(***************************************************************************)
THEOREM SchedulerInvariant == Spec => []SchedulerInv
<1>1. ASSUME Init PROVE SchedulerInv
  <2>1. RegistryInv
    BY <1>1, CapacityAssumption, SMTT(60)
    DEF Init, RegistryInit, RegistryInv, RegistryTypeOK, NewestOperationsRetained,
        EventsAreContiguous, GenerationsAnnounced, QueuedHasNoProgress
  <2>2. SchedulerTypeOK
    BY <1>1 DEF Init, SchedulerTypeOK, Threads
  <2>3. \A id \in Ids : Task(id)
    <3>1. ASSUME NEW id \in Ids
          PROVE  /\ id >= next_operation /\ submitter[id] = "none"
                 /\ thread[id] = "none" /\ id \in Nat
      BY <1>1, BoundAssumption, SMTT(60) DEF Init, RegistryInit, Ids
    <3> QED
      BY <3>1 DEF Task
  <2>4. PermitsMatchTasks /\ permits <= MutationLimit
    <3>1. Tasks = {}
      BY <1>1 DEF Init, Tasks, TaskAlive
    <3>2. Cardinality(Tasks) = 0
      BY <3>1, FS_EmptySet, SMTT(60)
    <3>3. permits = admitted + Cardinality(Tasks) /\ permits <= MutationLimit
      BY <1>1, <3>2, SchedulerAssumption, SMTT(60) DEF Init
    <3> QED
      BY <3>3 DEF PermitsMatchTasks, Tasks
  <2>5. ExecutionIsSerialised /\ ReturnedWorkersAreListed
    BY <1>1 DEF Init, ExecutionIsSerialised, ReturnedWorkersAreListed
  <2>6. RecordsInv
    BY <1>1, BoundAssumption, SMTT(60) DEF Init, RegistryInit, RecordsInv
  <2> QED
    BY <2>1, <2>2, <2>3, <2>4, <2>5, <2>6, SMTT(30) DEF SchedulerInv
<1>2. ASSUME SchedulerInv, [Next]_vars PROVE SchedulerInv'
  <2>1. CASE Next
    BY <1>2, <2>1, AdmitKeeps, AcceptKeeps, SpawnKeeps, SubmitReturnsKeeps, CancelKeeps, SMTT(30),
       WorkerKeeps
    DEF Next, HandlerStep
  <2>2. CASE UNCHANGED vars
    <3>1. /\ UNCHANGED <<permits, admitted, class, submitter, thread, workers, cancelled,
                         holder, result>>
          /\ UNCHANGED registryVars
      BY <2>2 DEF vars, schedulerVars
    <3>2. RegistryInv' /\ next_operation' = next_operation /\ operations' = operations
      BY <1>2, <3>1, RegistryStays, SMTT(30) DEF registryVars
    <3>3. SchedulerTypeOK' /\ \A id \in Ids : Task(id)'
      BY <1>2, <3>1, <3>2, SMTT(30) DEF SchedulerInv, SchedulerTypeOK, Task
    <3>4. PermitsMatchTasks' /\ permits' <= MutationLimit
      BY <1>2, <3>1, SMTT(60) DEF SchedulerInv, PermitsMatchTasks, TaskAlive
    <3>5. ExecutionIsSerialised'
      BY <1>2, <3>1, LocksStay, SMTT(30) DEF SchedulerInv, SchedulerTypeOK
    <3>6. ReturnedWorkersAreListed' /\ RecordsInv'
      BY <1>2, <3>1, <3>2, ZenonT(60)
      DEF SchedulerInv, ReturnedWorkersAreListed, RecordsInv, Record, RecordAgrees
    <3> QED
      BY <3>2, <3>3, <3>4, <3>5, <3>6, SMTT(60) DEF SchedulerInv
  <2> QED
    BY <1>2, <2>1, <2>2
<1> QED
  BY <1>1, <1>2, PTL DEF Spec, Safety

(***************************************************************************)
(* Permits never leak and never exceed the limit: `LimitState.mutations`   *)
(* counts the admitted handlers and the tasks alive, however each ended.   *)
(***************************************************************************)
THEOREM PermitsMatch == Spec => []PermitsMatchTasks
<1>1. SchedulerInv => PermitsMatchTasks
  BY SMTT(60) DEF SchedulerInv
<1> QED
  BY <1>1, SchedulerInvariant, PTL

(***************************************************************************)
(* Whoever executes holds its executor's lock, and nobody else does.       *)
(***************************************************************************)
THEOREM Serialised == Spec => []ExecutionIsSerialised
<1>1. SchedulerInv => ExecutionIsSerialised
  BY DEF SchedulerInv
<1> QED
  BY <1>1, SchedulerInvariant, PTL

(***************************************************************************)
(* `cancel` finds every worker whose operation a client has been told of.  *)
(***************************************************************************)
THEOREM WorkersListed == Spec => []ReturnedWorkersAreListed
<1>1. SchedulerInv => ReturnedWorkersAreListed
  BY SMTT(30) DEF SchedulerInv
<1> QED
  BY <1>1, SchedulerInvariant, PTL

(***************************************************************************)
(* Whatever is evicted meanwhile, a retained record says what its task     *)
(* did.                                                                    *)
(***************************************************************************)
THEOREM RecordsMatch == Spec => []RecordsMatchTasks
<1>1. SchedulerInv => RecordsMatchTasks
  BY DEF SchedulerInv, RecordsInv, Record, RecordsMatchTasks
<1> QED
  BY <1>1, SchedulerInvariant, PTL

(***************************************************************************)
(* A cancellation accepted before its task executes prevents execution,    *)
(* except of an OS image import that already waits for the catalog.        *)
(***************************************************************************)
THEOREM CancelHonoured == Spec => CancelIsHonoured
<1> DEFINE Honoured ==
      \A id \in Ids :
        /\ cancelled[id]
        /\ thread[id] # "executing" /\ thread'[id] = "executing"
        => class[id] = "os_image" /\ thread[id] = "waiting"
<1>1. SchedulerInv /\ [Next]_vars => [Honoured]_vars
  <2> SUFFICES ASSUME SchedulerInv, Next, NEW id \in Ids, cancelled[id],
                      thread[id] # "executing", thread'[id] = "executing"
               PROVE  class[id] = "os_image" /\ thread[id] = "waiting"
    BY SMTT(60)
  <2>1. thread \in [Ids -> Threads]
    BY SMTT(30) DEF SchedulerInv, SchedulerTypeOK
  <2>2. PICK d \in Ids : WorkerStep(d) \/ Spawn(d)
    BY SMTT(30) DEF Next, HandlerStep, Admit, Accept, SpawnFails, RecordSpawnFailure, ListWorker, Cancel
  <2>3. d = id /\ ~Spawn(d)
    BY <2>1, <2>2, ZenonT(60)
    DEF WorkerStep, Spawn, StartOperation, CheckCancellation, ResolveImages, CheckResolved,
        AcquireExecutor, ExecuteTask, TaskPanics, RecordResult, Return, Step
  <2>4. AcquireExecutor(id)
    BY <2>1, <2>2, <2>3, ZenonT(60)
    DEF WorkerStep, StartOperation, CheckCancellation, ResolveImages, CheckResolved,
        ExecuteTask, TaskPanics, RecordResult, Return, Step
  <2> QED
    BY <2>1, <2>4 DEF AcquireExecutor, Return, Step
<1>2. Spec => []SchedulerInv
  BY SchedulerInvariant
<1> QED
  BY <1>1, <1>2, PTL DEF Spec, Safety, CancelIsHonoured

(***************************************************************************)
(* Handlers and workers drive the registry only through `create`, `start`  *)
(* and `finish`, with results those accept: whatever RegistrySpec promises *)
(* holds of the registry inside the running daemon.                        *)
(***************************************************************************)
THEOREM SchedulerDrivesRegistry == Spec => RegistrySpec
<1>1. Init => RegistryInit
  BY DEF Init
<1>2. ASSUME SchedulerInv, NEW id \in Ids, NEW r \in TaskResults, FinishIgnoringErrors(id, r)
      PROVE  RegistryNext \/ UNCHANGED registryVars
  <2>1. /\ r.state \in Terminal /\ r.observed \in Generations \cup {None}
        /\ r.error \in Errors \cup {None}
    BY ResultFields
  <2>2. Finish(id, r.state, r.observed, r.error) \/ UNCHANGED registryVars
    BY <1>2, Zenon DEF FinishIgnoringErrors
  <2> QED
    BY <2>1, <2>2, ZenonT(60) DEF RegistryNext, Ids
<1>3. ASSUME SchedulerInv, [Next]_vars
      PROVE  RegistryNext \/ UNCHANGED registryVars
  <2>1. CASE Admit
    BY <2>1, SMTT(60) DEF Admit
  <2>2. CASE \E c \in Classes, expected \in Generations : Accept(c, expected)
    BY <2>2, Zenon DEF Accept, RegistryNext
  <2>3. ASSUME NEW id \in Ids, HandlerStep(id)
        PROVE  RegistryNext \/ UNCHANGED registryVars
    <3>1. CASE RecordSpawnFailure(id)
      <4>1. WorkerSpawnResult \in TaskResults
        BY DEF TaskResults
      <4>2. FinishIgnoringErrors(id, WorkerSpawnResult)
        BY <3>1 DEF RecordSpawnFailure
      <4> QED
        BY <1>2, <1>3, <4>1, <4>2, Zenon
    <3>2. CASE Spawn(id) \/ SpawnFails(id) \/ ListWorker(id)
      BY <3>2, Zenon DEF Spawn, SpawnFails, ListWorker
    <3> QED
      BY <2>3, <3>1, <3>2, Zenon DEF HandlerStep
  <2>4. ASSUME NEW id \in Ids, Cancel(id) PROVE UNCHANGED registryVars
    BY <2>4, Zenon DEF Cancel
  <2>5. ASSUME NEW id \in Ids, WorkerStep(id)
        PROVE  RegistryNext \/ UNCHANGED registryVars
    <3>0. ASSUME NEW from, NEW r, Return(id, from, r) PROVE UNCHANGED registryVars
      BY <3>0, Zenon DEF Return
    <3>1. CASE StartOperation(id)
      BY <3>1, ZenonT(60) DEF StartOperation, RegistryNext, Ids
    <3>2. CASE RecordResult(id)
      <4>1. thread[id] = "returned" /\ FinishIgnoringErrors(id, result[id])
        BY <3>2, Zenon DEF RecordResult, Step
      <4>2. result[id] \in TaskResults
        BY <1>3, <4>1, SMTT(60) DEF SchedulerInv, Task
      <4> QED
        BY <1>2, <1>3, <4>1, <4>2, Zenon
    <3>3. CASE CheckCancellation(id) \/ CheckResolved(id)
      BY <3>0, <3>3, Zenon DEF CheckCancellation, CheckResolved
    <3>4. CASE ResolveImages(id)
      BY <3>0, <3>4, Zenon DEF ResolveImages
    <3>5. CASE AcquireExecutor(id)
      BY <3>0, <3>5, Zenon DEF AcquireExecutor
    <3>6. CASE ExecuteTask(id) \/ TaskPanics(id)
      BY <3>0, <3>6, Zenon DEF ExecuteTask, TaskPanics
    <3> QED
      BY <2>5, <3>1, <3>2, <3>3, <3>4, <3>5, <3>6, Zenon DEF WorkerStep
  <2>6. CASE UNCHANGED vars
    BY <2>6 DEF vars
  <2> QED
    BY <1>3, <2>1, <2>2, <2>3, <2>4, <2>5, <2>6, Zenon DEF Next
<1> QED
  BY <1>1, <1>3, SchedulerInvariant, PTL DEF Spec, Safety, RegistrySpec

(***************************************************************************)
(* Seen from the outside the daemon's operations keep the ledger's rules,  *)
(* threads, cancellations, panics and evictions notwithstanding.           *)
(***************************************************************************)
THEOREM SchedulerImplementsLedger == Spec => ImplementsLedger
  BY SchedulerDrivesRegistry, RegistryImplementsLedger, PTL

-----------------------------------------------------------------------------
(* Why every operation is settled: the safety half of OperationsSettle.    *)

\* What the registry asks of `start` and of `finish`, unless the operation is
\* evicted and the call passed over.
Startable(id) ==
  Retained(id) =>
    \E i \in DOMAIN operations : operations[i].id = id /\ operations[i].state = "Queued"

Recordable(id, r) ==
  Retained(id) =>
    /\ r.state \in Terminal
    /\ \E i \in DOMAIN operations :
         operations[i].id = id /\ operations[i].state \notin Terminal

\* The guards of HandlerStep and of WorkerStep.
HandlerReady(id) ==
  \/ submitter[id] \in {"created", "spawned"}
  \/ submitter[id] = "spawn_failed" /\ Recordable(id, WorkerSpawnResult)

WorkerReady(id) ==
  \/ thread[id] \in {"running", "resolved", "executing"}
  \/ thread[id] = "spawned" /\ Startable(id)
  \/ thread[id] = "resolving" /\ holder["catalog"] = None
  \/ thread[id] = "waiting" /\ holder[Lock(id)] = None
  \/ thread[id] = "returned" /\ Recordable(id, result[id])

AwaitedLock(id) == IF thread[id] = "resolving" THEN "catalog" ELSE Lock(id)

(***************************************************************************)
(* While an operation is not settled its handler or its thread can go on,  *)
(* or the thread waits for a lock, and whoever holds that is executing and *)
(* can go on.  So no two threads wait for each other, although a managed   *)
(* load uses two locks, and `start` and `finish` never find an operation   *)
(* in a state they refuse, which the worker would ignore.                  *)
(***************************************************************************)
NobodyWaitsInVain ==
  \A id \in Ids : id < next_operation /\ ~Settled(id) =>
    \/ HandlerReady(id) \/ WorkerReady(id)
    \/ /\ thread[id] \in {"resolving", "waiting"}
       /\ holder[AwaitedLock(id)] \in Ids
       /\ thread[holder[AwaitedLock(id)]] = "executing"

\* The steps that an operation can still take.
SubmitSteps(s) ==
  CASE s = "none" -> 10 [] s = "created" -> 9
    [] s \in {"spawned", "spawn_failed"} -> 1 [] OTHER -> 0

ThreadSteps(t) ==
  CASE t = "spawned" -> 7 [] t = "running" -> 6 [] t = "resolving" -> 5
    [] t = "resolved" -> 4 [] t = "waiting" -> 3 [] t = "executing" -> 2
    [] t = "returned" -> 1 [] OTHER -> 0

StepsLeft(id) == SubmitSteps(submitter[id]) + ThreadSteps(thread[id])

\* No step of anybody adds to them, and each step of its own takes from them.
Progresses(id) ==
  /\ StepsLeft(id)' <= StepsLeft(id)
  /\ HandlerStep(id) \/ WorkerStep(id) => StepsLeft(id)' < StepsLeft(id)

OperationsProgress == [][\A id \in Ids : Progresses(id)]_vars

(***************************************************************************)
(* What the record of an operation says while its task is under way.       *)
(***************************************************************************)
LEMMA RecordStates ==
  ASSUME SchedulerInv, NEW id \in Ids, NEW i \in DOMAIN operations, operations[i].id = id
  PROVE  /\ thread[id] = "spawned" => operations[i].state = "Queued"
         /\ thread[id] = "returned" \/ submitter[id] = "spawn_failed" =>
              operations[i].state \notin Terminal
         /\ submitter[id] = "returned" /\ thread[id] \in {"none", "exited"} =>
              operations[i].state \in Terminal
<1>1. Record(operations[i], id) /\ Task(id)
  BY DEF SchedulerInv, RecordsInv
<1>2. "Queued" \notin Terminal /\ "Running" \notin Terminal
  BY DEF Terminal
<1> QED
  BY <1>1, <1>2 DEF Record, RecordAgrees, Task

(***************************************************************************)
(* So neither `start` nor `finish` refuses what a thread asks of it.       *)
(***************************************************************************)
LEMMA RegistryAgrees ==
  ASSUME SchedulerInv, NEW id \in Ids
  PROVE  /\ thread[id] = "spawned" => Startable(id)
         /\ thread[id] = "returned" => Recordable(id, result[id])
         /\ submitter[id] = "spawn_failed" => Recordable(id, WorkerSpawnResult)
<1>1. ASSUME NEW r \in TaskResults PROVE r.state \in Terminal
  BY <1>1, ResultFields
<1>2. WorkerSpawnResult \in TaskResults
  BY DEF TaskResults
<1>3. thread[id] = "spawned" => Startable(id)
  BY RecordStates DEF Startable, Retained
<1>4. thread[id] = "returned" => Recordable(id, result[id])
  <2>1. thread[id] = "returned" => result[id] \in TaskResults
    BY DEF SchedulerInv, Task
  <2> QED
    BY <1>1, <2>1, RecordStates DEF Recordable, Retained
<1>5. submitter[id] = "spawn_failed" => Recordable(id, WorkerSpawnResult)
  BY <1>1, <1>2, RecordStates DEF Recordable, Retained
<1> QED
  BY <1>3, <1>4, <1>5

(***************************************************************************)
(* From where to where a step of the worker thread goes.                   *)
(***************************************************************************)
LEMMA WorkerMoves ==
  ASSUME SchedulerTypeOK, NEW id \in Ids, WorkerStep(id)
  PROVE  /\ submitter' = submitter
         /\ \A d \in Ids \ {id} : thread'[d] = thread[d]
         /\ \/ thread[id] = "spawned" /\ thread'[id] \in {"running", "exited"}
            \/ thread[id] = "running" /\ thread'[id] \in {"resolving", "waiting", "returned"}
            \/ thread[id] = "resolving" /\ thread'[id] \in {"resolved", "returned"}
            \/ thread[id] = "resolved" /\ thread'[id] \in {"waiting", "returned"}
            \/ thread[id] = "waiting" /\ thread'[id] \in {"executing", "returned"}
            \/ thread[id] = "executing" /\ thread'[id] = "returned"
            \/ thread[id] = "returned" /\ thread'[id] = "exited"
<1>1. thread \in [Ids -> Threads]
  BY DEF SchedulerTypeOK
<1>2. ASSUME NEW from, NEW to, Step(id, from, to)
      PROVE  /\ thread[id] = from /\ thread'[id] = to
             /\ \A d \in Ids \ {id} : thread'[d] = thread[d]
  BY <1>1, <1>2 DEF Step
<1>3. ASSUME NEW from, NEW r, Return(id, from, r)
      PROVE  /\ submitter' = submitter /\ thread[id] = from /\ thread'[id] = "returned"
             /\ \A d \in Ids \ {id} : thread'[d] = thread[d]
  BY <1>2, <1>3 DEF Return
<1>4. CASE StartOperation(id)
  BY <1>2, <1>4 DEF StartOperation
<1>5. CASE CheckCancellation(id)
  BY <1>2, <1>3, <1>5 DEF CheckCancellation
<1>6. CASE ResolveImages(id)
  BY <1>2, <1>3, <1>6 DEF ResolveImages
<1>7. CASE CheckResolved(id)
  BY <1>2, <1>3, <1>7 DEF CheckResolved
<1>8. CASE AcquireExecutor(id)
  BY <1>2, <1>3, <1>8 DEF AcquireExecutor
<1>9. CASE ExecuteTask(id) \/ TaskPanics(id)
  BY <1>3, <1>9 DEF ExecuteTask, TaskPanics
<1>10. CASE RecordResult(id)
  BY <1>2, <1>10 DEF RecordResult
<1> QED
  BY <1>4, <1>5, <1>6, <1>7, <1>8, <1>9, <1>10 DEF WorkerStep

(***************************************************************************)
(* The same for a step of the handler.                                     *)
(***************************************************************************)
LEMMA HandlerMoves ==
  ASSUME SchedulerTypeOK, NEW id \in Ids, HandlerStep(id)
  PROVE  /\ \A d \in Ids \ {id} : submitter'[d] = submitter[d] /\ thread'[d] = thread[d]
         /\ \/ /\ submitter[id] = "created"
               /\ submitter'[id] = "spawned" /\ thread'[id] = "spawned"
            \/ /\ submitter[id] = "created"
               /\ submitter'[id] = "spawn_failed" /\ thread'[id] = thread[id]
            \/ /\ submitter[id] \in {"spawned", "spawn_failed"}
               /\ submitter'[id] = "returned" /\ thread'[id] = thread[id]
<1>1. /\ thread \in [Ids -> Threads]
      /\ submitter \in [Ids -> {"none", "created", "spawned", "spawn_failed", "returned"}]
  BY DEF SchedulerTypeOK
<1>2. CASE Spawn(id)
  BY <1>1, <1>2 DEF Spawn
<1>3. CASE SpawnFails(id)
  BY <1>1, <1>3 DEF SpawnFails
<1>4. CASE RecordSpawnFailure(id)
  BY <1>1, <1>4 DEF RecordSpawnFailure
<1>5. CASE ListWorker(id)
  BY <1>1, <1>5 DEF ListWorker
<1> QED
  BY <1>2, <1>3, <1>4, <1>5 DEF HandlerStep

(***************************************************************************)
(* So a step of its own leaves an operation fewer steps.                   *)
(***************************************************************************)
LEMMA OwnProgress ==
  ASSUME SchedulerTypeOK, NEW id \in Ids, HandlerStep(id) \/ WorkerStep(id)
  PROVE  StepsLeft(id)' < StepsLeft(id) /\ StepsLeft(id)' <= StepsLeft(id)
<1>1. /\ thread[id] \in Threads
      /\ submitter[id] \in {"none", "created", "spawned", "spawn_failed", "returned"}
  BY DEF SchedulerTypeOK
<1>2. CASE WorkerStep(id)
  <2>1. ThreadSteps(thread'[id]) < ThreadSteps(thread[id])
    BY <1>2, WorkerMoves, SMTT(60) DEF ThreadSteps
  <2>2. /\ ThreadSteps(thread'[id]) \in Nat /\ ThreadSteps(thread[id]) \in Nat
        /\ SubmitSteps(submitter[id]) \in Nat
    BY SMTT(60) DEF ThreadSteps, SubmitSteps
  <2>3. submitter'[id] = submitter[id]
    BY <1>2, WorkerMoves
  <2> QED
    BY <2>1, <2>2, <2>3, SMTT(60) DEF StepsLeft
<1>3. CASE HandlerStep(id)
  <2>1. CASE submitter[id] = "created" /\ thread'[id] = "spawned" /\ submitter'[id] = "spawned"
    BY <2>1, SMTT(60) DEF StepsLeft, SubmitSteps, ThreadSteps
  <2>2. CASE thread'[id] = thread[id]
    <3>1. ThreadSteps(thread[id]) \in Nat
      BY SMTT(60) DEF ThreadSteps
    <3>2. SubmitSteps(submitter'[id]) < SubmitSteps(submitter[id])
      BY <1>3, <2>2, HandlerMoves, SMTT(60) DEF SubmitSteps
    <3>3. SubmitSteps(submitter'[id]) \in Nat /\ SubmitSteps(submitter[id]) \in Nat
      BY SMTT(60) DEF SubmitSteps
    <3> QED
      BY <2>2, <3>1, <3>2, <3>3, SMTT(60) DEF StepsLeft
  <2> QED
    BY <1>3, <2>1, <2>2, HandlerMoves
<1> QED
  BY <1>2, <1>3

(***************************************************************************)
(* And a step of anybody else leaves it as many, acceptance fewer.         *)
(***************************************************************************)
LEMMA AnyProgress ==
  ASSUME SchedulerInv, NEW id \in Ids, [Next]_vars
  PROVE  StepsLeft(id)' <= StepsLeft(id)
<1>0. SchedulerTypeOK
  BY DEF SchedulerInv
<1>1. ASSUME submitter'[id] = submitter[id], thread'[id] = thread[id]
      PROVE  StepsLeft(id)' <= StepsLeft(id)
  <2>1. ThreadSteps(thread[id]) \in Nat /\ SubmitSteps(submitter[id]) \in Nat
    BY SMTT(60) DEF ThreadSteps, SubmitSteps
  <2> QED
    BY <1>1, <2>1, SMTT(60) DEF StepsLeft
<1>2. ASSUME NEW d \in Ids, HandlerStep(d) \/ WorkerStep(d)
      PROVE  StepsLeft(id)' <= StepsLeft(id)
  <2>1. CASE d = id
    BY <1>0, <1>2, <2>1, OwnProgress
  <2>2. CASE d # id
    BY <1>0, <1>1, <1>2, <2>2, HandlerMoves, WorkerMoves
  <2> QED
    BY <2>1, <2>2
<1>3. ASSUME NEW c \in Classes, NEW expected \in Generations, Accept(c, expected)
      PROVE  StepsLeft(id)' <= StepsLeft(id)
  <2>1. submitter' = [submitter EXCEPT ![next_operation] = "created"] /\ thread' = thread
    BY <1>3 DEF Accept
  <2>2. CASE id = next_operation
    <3>1. submitter[id] = "none"
      <4>1. Task(id) /\ next_operation \in Nat
        BY DEF SchedulerInv, RegistryInv, HistoriesAreOrdered, RegistryTypeOK
      <4> QED
        BY <2>2, <4>1, SMTT(60) DEF Task
    <3>2. submitter'[id] = "created"
      BY <1>0, <2>1, <2>2 DEF SchedulerTypeOK
    <3>3. ThreadSteps(thread[id]) \in Nat
      BY SMTT(60) DEF ThreadSteps
    <3> QED
      BY <2>1, <3>1, <3>2, <3>3, SMTT(60) DEF StepsLeft, SubmitSteps
  <2>3. CASE id # next_operation
    BY <1>0, <1>1, <2>1, <2>3 DEF SchedulerTypeOK
  <2> QED
    BY <2>2, <2>3
<1>4. CASE Admit \/ (\E d \in Ids : Cancel(d)) \/ UNCHANGED vars
  BY <1>1, <1>4 DEF Admit, Cancel, vars, schedulerVars
<1> QED
  BY <1>2, <1>3, <1>4 DEF Next

(***************************************************************************)
(* The daemon's handlers and workers are free of deadlock, for every       *)
(* number of operations, limit and capacity.                               *)
(***************************************************************************)
THEOREM SchedulerNeverSticks == Spec => []NobodyWaitsInVain
<1>1. ASSUME SchedulerInv PROVE NobodyWaitsInVain
  <2>1. SUFFICES ASSUME NEW id \in Ids, id < next_operation, ~Settled(id),
                        ~HandlerReady(id), ~WorkerReady(id)
                 PROVE  /\ thread[id] \in {"resolving", "waiting"}
                        /\ holder[AwaitedLock(id)] \in Ids
                        /\ thread[holder[AwaitedLock(id)]] = "executing"
    BY DEF NobodyWaitsInVain
  <2>2. SchedulerTypeOK /\ Task(id) /\ ExecutionIsSerialised
    BY <1>1 DEF SchedulerInv
  <2>3. submitter[id] # "none"
    <3>1. next_operation \in Nat /\ id \in Nat
      BY <1>1, IdFacts DEF SchedulerInv, RegistryInv, HistoriesAreOrdered, RegistryTypeOK
    <3> QED
      BY <2>1, <2>2, <3>1, SMTT(60) DEF Task
  <2>4. submitter[id] = "returned"
    BY <1>1, <2>1, <2>2, <2>3, RegistryAgrees DEF HandlerReady, SchedulerTypeOK
  <2>5. thread[id] \notin {"none", "exited"}
    <3>1. SUFFICES ASSUME thread[id] \in {"none", "exited"} PROVE FALSE
      OBVIOUS
    <3>2. Retained(id) => StatusOf(id) \in Terminal
      <4>1. SUFFICES ASSUME Retained(id) PROVE StatusOf(id) \in Terminal
        OBVIOUS
      <4>2. PICK i \in DOMAIN operations :
              /\ operations[i].id = id
              /\ StatusOf(id) = operations[i].state
        <5>1. ~(id >= next_operation)
          <6>1. next_operation \in Nat /\ id \in Nat
            BY <1>1, IdFacts DEF SchedulerInv, RegistryInv, HistoriesAreOrdered, RegistryTypeOK
          <6> QED
            BY <2>1, <6>1, SMTT(60)
        <5> QED
          BY <4>1, <5>1 DEF StatusOf, Retained
      <4> QED
        BY <1>1, <2>4, <3>1, <4>2, RecordStates
    <3>3. ~TaskAlive(id)
      BY <2>4, <3>1 DEF TaskAlive
    <3> QED
      BY <2>1, <3>2, <3>3 DEF Settled
  <2>6. thread[id] \in {"resolving", "waiting"} /\ holder[AwaitedLock(id)] # None
    <3>1. thread[id] \in Threads
      BY <2>2 DEF SchedulerTypeOK
    <3> QED
      BY <1>1, <2>1, <2>5, <3>1, RegistryAgrees DEF WorkerReady, AwaitedLock, Threads, Alive
  <2>7. AwaitedLock(id) \in Locks
    BY LockFacts DEF AwaitedLock, Locks
  <2> QED
    BY <2>2, <2>6, <2>7 DEF ExecutionIsSerialised, SchedulerTypeOK
<1> QED
  BY <1>1, SchedulerInvariant, PTL

(***************************************************************************)
(* An accepted operation is over after at most nine steps of its handler   *)
(* and its thread: nothing that other requests, cancellations, evictions   *)
(* or threads do adds to them, and each one taken leaves fewer.            *)
(***************************************************************************)
THEOREM SchedulerProgress == Spec => OperationsProgress
<1>1. SchedulerInv /\ [Next]_vars => [\A id \in Ids : Progresses(id)]_vars
  BY OwnProgress, AnyProgress DEF Progresses, SchedulerInv
<1> QED
  BY <1>1, SchedulerInvariant, PTL DEF Spec, Safety, OperationsProgress
=============================================================================
