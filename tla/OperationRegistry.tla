-------------------------- MODULE OperationRegistry --------------------------
(***************************************************************************)
(* The daemon's shared operation history and its bounded event queue       *)
(* (crates/kernmux-daemon/src/operations.rs).                              *)
(*                                                                         *)
(* Every method of the registry takes the one mutex for its whole body, so *)
(* every method is one action.  A call that returns an error leaves the    *)
(* registry as it was: it is a disabled action here, and the modules that  *)
(* extend this one say what the caller does with the error.                *)
(*                                                                         *)
(* Left out: the descriptive fields of an operation (kind, resources,      *)
(* actor, audit id, timestamps) and the saturation of the two u64 counters *)
(* at 2^64 - 1.                                                            *)
(***************************************************************************)
EXTENDS Integers, Sequences

CONSTANTS
  OperationCapacity,    \* retained operations, `operation_capacity`
  EventCapacity,        \* retained events, `event_capacity`
  Generations,          \* generations a request or an outcome may carry
  Percentages,          \* progress a caller may report, a u8
  Errors,               \* errors a caller may attach to an outcome
  None,                 \* Rust's Option::None
  MaxOperations,        \* bound: operations ever accepted
  MaxProgressSequence   \* bound: no progress report after this sequence

ASSUME CapacityAssumption ==
  /\ OperationCapacity \in Nat \ {0}
  /\ EventCapacity \in Nat \ {0}

ASSUME GenerationAssumption ==
  /\ Generations \subseteq Nat
  /\ None \notin Int

ASSUME InputAssumption ==
  /\ Percentages \subseteq 0..255
  /\ Errors \subseteq [code : STRING, retryable : BOOLEAN]

ASSUME BoundAssumption ==
  /\ MaxOperations \in Nat
  /\ MaxProgressSequence \in Nat

VARIABLES
  next_operation,
  next_sequence,
  latest_generation,
  operations,           \* oldest first
  events                \* oldest first

registryVars ==
  <<next_operation, next_sequence, latest_generation, operations, events>>

Terminal == {"Succeeded", "Failed", "Cancelled", "Indeterminate"}

OperationState == {"Queued", "Running"} \cup Terminal

Progress == 0..100

Operation ==
  [id : Nat,
   state : OperationState,
   progress : Progress \cup {None},
   expected_generation : Generations,
   observed_generation : Generations \cup {None},
   error : Errors \cup {None}]

Event == [sequence : Nat, snapshot_generation : Generations \cup {0}]

RegistryInit ==
  /\ next_operation = 1
  /\ next_sequence = 1
  /\ latest_generation = 0
  /\ operations = <<>>
  /\ events = <<>>

-----------------------------------------------------------------------------

\* VecDeque used as a history: at capacity the oldest entry makes room.
PushBack(queue, item, capacity) ==
  Append(IF Len(queue) = capacity THEN Tail(queue) ELSE queue, item)

Retained(id) == \E i \in DOMAIN operations : operations[i].id = id

OperationGeneration(operation) ==
  IF operation.observed_generation = None
    THEN operation.expected_generation
    ELSE operation.observed_generation

Newer(generation) ==
  IF generation > latest_generation THEN generation ELSE latest_generation

PublishOperationEvent(operation) ==
  LET latest == Newer(OperationGeneration(operation))
      event  == [sequence |-> next_sequence, snapshot_generation |-> latest]
  IN  /\ latest_generation' = latest
      /\ next_sequence' = next_sequence + 1
      /\ events' = PushBack(events, event, EventCapacity)

\* Mutant: the change is stored and not published.
Update_Silent(i, operation) ==
  /\ operations' = [operations EXCEPT ![i] = operation]
  /\ UNCHANGED <<next_operation, next_sequence, latest_generation, events>>

\* The tail of `update`: the entry found at index i becomes `operation`.
Update(i, operation) ==
  /\ operations' = [operations EXCEPT ![i] = operation]
  /\ PublishOperationEvent(operation)
  /\ UNCHANGED next_operation

NewOperation(id, expected) ==
  [id |-> id, state |-> "Queued", progress |-> None,
   expected_generation |-> expected, observed_generation |-> None,
   error |-> None]

\* Mutant: the id counter stands still when an entry makes room.
Create_ReusesId(expected) ==
  LET operation == NewOperation(next_operation, expected)
  IN  /\ next_operation <= MaxOperations
      /\ next_operation' = IF Len(operations) = OperationCapacity
                             THEN next_operation ELSE next_operation + 1
      /\ operations' = PushBack(operations, operation, OperationCapacity)
      /\ PublishOperationEvent(operation)

\* The oldest entry is dropped at capacity whatever its state.
Create(expected) ==
  LET operation == NewOperation(next_operation, expected)
  IN  /\ next_operation <= MaxOperations
      /\ next_operation' = next_operation + 1
      /\ operations' = PushBack(operations, operation, OperationCapacity)
      /\ PublishOperationEvent(operation)

Start(id) ==
  \E i \in DOMAIN operations :
    /\ operations[i].id = id
    /\ operations[i].state = "Queued"
    /\ Update(i, [operations[i] EXCEPT !.state = "Running", !.progress = 0])

\* Mutant: progress may go back.
SetProgress_Regresses(id, percent) ==
  \E i \in DOMAIN operations :
    /\ next_sequence <= MaxProgressSequence
    /\ operations[i].id = id
    /\ operations[i].state = "Running"
    /\ percent <= 100
    /\ Update(i, [operations[i] EXCEPT !.progress = percent])

SetProgress(id, percent) ==
  \E i \in DOMAIN operations :
    /\ next_sequence <= MaxProgressSequence
    /\ operations[i].id = id
    /\ operations[i].state = "Running"
    /\ percent <= 100
    /\ operations[i].progress # None => percent >= operations[i].progress
    /\ Update(i, [operations[i] EXCEPT !.progress = percent])

\* Mutant: a terminal operation may be finished again.
Finish_Again(id, state, observed, error) ==
  \E i \in DOMAIN operations :
    /\ operations[i].id = id
    /\ state \in Terminal
    /\ Update(i, [operations[i] EXCEPT
                    !.state = state,
                    !.observed_generation = observed,
                    !.error = error,
                    !.progress = IF state = "Succeeded" THEN 100 ELSE @])

\* A queued operation may finish without ever having run.
Finish(id, state, observed, error) ==
  \E i \in DOMAIN operations :
    /\ operations[i].id = id
    /\ operations[i].state \notin Terminal
    /\ state \in Terminal
    /\ Update(i, [operations[i] EXCEPT
                    !.state = state,
                    !.observed_generation = observed,
                    !.error = error,
                    !.progress = IF state = "Succeeded" THEN 100 ELSE @])

RegistryNext ==
  \/ \E expected \in Generations : Create(expected)
  \/ \E id \in 1..MaxOperations :
       \/ Start(id)
       \/ \E percent \in Percentages : SetProgress(id, percent)
       \/ \E state \in Terminal, observed \in Generations \cup {None},
             error \in Errors \cup {None} :
            Finish(id, state, observed, error)

RegistrySpec == RegistryInit /\ [][RegistryNext]_registryVars

-----------------------------------------------------------------------------

(***************************************************************************)
(* Both histories stay within the capacities given to `new`, and hold      *)
(* well-formed entries.                                                    *)
(***************************************************************************)
RegistryTypeOK ==
  /\ next_operation \in Nat \ {0}
  /\ next_sequence \in Nat \ {0}
  /\ latest_generation \in Generations \cup {0}
  /\ operations \in Seq(Operation)
  /\ Len(operations) <= OperationCapacity
  /\ events \in Seq(Event)
  /\ Len(events) <= EventCapacity

(***************************************************************************)
(* The retained operations are exactly the most recently accepted ones, in *)
(* acceptance order.  So an id names one operation for the life of the     *)
(* daemon, and `update`, which takes the first match, cannot take a wrong  *)
(* one.                                                                    *)
(***************************************************************************)
NewestOperationsRetained ==
  \A i \in DOMAIN operations :
    operations[i].id = next_operation - Len(operations) + i - 1

(***************************************************************************)
(* The retained events are the last ones published, with no gap, and never *)
(* go back in generation: each follows its predecessor in the sense of     *)
(* `Event::is_contiguous_after`, and the newest carries the registry's     *)
(* latest generation.                                                      *)
(***************************************************************************)
EventsAreContiguous ==
  \A i \in DOMAIN events :
    /\ events[i].sequence = next_sequence - Len(events) + i - 1
    /\ events[i].snapshot_generation <= latest_generation
    /\ i = Len(events) => events[i].snapshot_generation = latest_generation
    /\ i > 1 => events[i - 1].snapshot_generation
                  <= events[i].snapshot_generation

(***************************************************************************)
(* Both histories are well formed, within the capacities given to `new`,   *)
(* and hold the newest entries in order, whatever was evicted.             *)
(***************************************************************************)
HistoriesAreOrdered ==
  RegistryTypeOK /\ NewestOperationsRetained /\ EventsAreContiguous

(***************************************************************************)
(* Every accepted operation and every change to one is published, whichever*)
(* method made it: a step that changes `operations` puts one event at the  *)
(* end of the queue, under the next sequence and with the generation the   *)
(* registry has then reached, which is behind no retained operation and    *)
(* never goes back.  Only the oldest event may have left.                  *)
(***************************************************************************)
Announced ==
  /\ next_sequence' = next_sequence + 1
  /\ events'[Len(events')] =
       [sequence |-> next_sequence, snapshot_generation |-> latest_generation']
  /\ \A i \in 1..(Len(events') - 1) :
       events'[i] = events[i + Len(events) + 1 - Len(events')]
  /\ latest_generation' >= latest_generation
  /\ \A i \in DOMAIN operations' :
       OperationGeneration(operations'[i]) <= latest_generation'

ChangesArePublished == [][operations' # operations => Announced]_registryVars

(***************************************************************************)
(* While an operation stays retained it only moves forward: a terminal     *)
(* record is immutable (the contract of `finish`), a running one is not    *)
(* queued again, and progress does not regress.                            *)
(***************************************************************************)
Forward(before, after) ==
  /\ before.state \in Terminal => after = before
  /\ before.state = "Running" => after.state # "Queued"
  /\ before.progress # None => /\ after.progress # None
                               /\ after.progress >= before.progress
  /\ after.expected_generation = before.expected_generation

OperationsOnlyMoveForward ==
  [][\A i \in DOMAIN operations, j \in DOMAIN operations' :
       operations[i].id = operations'[j].id
         => Forward(operations[i], operations'[j])]_registryVars

(***************************************************************************)
(* The registry implements OperationLedger: seen through ids alone,        *)
(* `create`, `start`, `set_progress` and `finish` do what the ledger       *)
(* allows, and only acceptance at capacity forgets, only the oldest.       *)
(***************************************************************************)
StatusOf(id) ==
  IF id >= next_operation THEN "Unused"
  ELSE IF Retained(id)
    THEN operations[CHOOSE i \in DOMAIN operations : operations[i].id = id].state
    ELSE "Forgotten"

Ledger == INSTANCE OperationLedger
            WITH Ids <- 1..MaxOperations, Capacity <- OperationCapacity,
                 status <- [id \in 1..MaxOperations |-> StatusOf(id)]

ImplementsLedger == Ledger!Spec
=============================================================================
