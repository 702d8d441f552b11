----------------------- MODULE OperationRegistryProofs -----------------------
(***************************************************************************)
(* Proofs about OperationRegistry and the readers of EventStream, for      *)
(* every capacity, every set of generations, percentages and errors, and   *)
(* any subscribers.                                                        *)
(*                                                                         *)
(* The safety invariants are proved together: what an event may carry      *)
(* depends on the generations of the operations, and which index an id has *)
(* depends on the lengths that the type invariant bounds.  The readers'    *)
(* invariant rests on it: a batch is contiguous because the queue is.      *)
(* Last comes the refinement of OperationLedger: an id's status follows    *)
(* from its distance to `next_operation` alone.                            *)
(***************************************************************************)
EXTENDS EventStream, FiniteSetTheorems, TLAPS

\* Progress is first reported when an operation starts; without this `start`
\* might set it back to zero.
QueuedHasNoProgress ==
  \A i \in DOMAIN operations :
    operations[i].state = "Queued" => operations[i].progress = None

\* The generation a retained operation reached is never above the one the
\* stream has announced.
GenerationsAnnounced ==
  \A i \in DOMAIN operations :
    /\ events # <<>>
    /\ OperationGeneration(operations[i]) <= latest_generation

\* What every step preserves.
RegistryInv ==
  /\ RegistryTypeOK
  /\ NewestOperationsRetained
  /\ EventsAreContiguous
  /\ GenerationsAnnounced
  /\ QueuedHasNoProgress

(***************************************************************************)
(* The bounded history: after PushBack (the VecDeque idiom of `create` and *)
(* `publish_operation_event`) the length stays within the capacity, the    *)
(* new item is last, and the others are the most recent old ones.          *)
(***************************************************************************)
LEMMA PushBackLemma ==
  ASSUME NEW S, NEW queue \in Seq(S), NEW item \in S,
         NEW capacity \in Nat \ {0}, Len(queue) <= capacity,
         NEW pushed, pushed = PushBack(queue, item, capacity)
  PROVE  /\ pushed \in Seq(S)
         /\ Len(pushed) \in 1..capacity
         /\ pushed[Len(pushed)] = item
         /\ \E dropped \in {0, 1} :
              /\ Len(pushed) = Len(queue) + 1 - dropped
              /\ \A i \in 1..(Len(pushed) - 1) : pushed[i] = queue[i + dropped]
<1>1. CASE Len(queue) = capacity
  <2>1. queue # <<>>
    BY <1>1
  <2>2. /\ Tail(queue) \in Seq(S)
        /\ Len(Tail(queue)) = Len(queue) - 1
        /\ \A i \in 1..(Len(queue) - 1) : Tail(queue)[i] = queue[i + 1]
    BY <2>1
  <2>3. pushed = Append(Tail(queue), item)
    BY <1>1 DEF PushBack
  <2>4. /\ Len(pushed) = Len(queue) + 1 - 1
        /\ \A i \in 1..(Len(pushed) - 1) : pushed[i] = queue[i + 1]
    BY <2>2, <2>3
  <2> QED
    BY <1>1, <2>2, <2>3, <2>4
<1>2. CASE Len(queue) # capacity
  <2>1. pushed = Append(queue, item)
    BY <1>2 DEF PushBack
  <2>2. /\ Len(pushed) = Len(queue) + 1 - 0
        /\ \A i \in 1..(Len(pushed) - 1) : pushed[i] = queue[i + 0]
    BY <2>1
  <2> QED
    BY <1>2, <2>1, <2>2
<1> QED
  BY <1>1, <1>2

(***************************************************************************)
(* Publishing an event for an operation with a legal generation keeps the  *)
(* event history well formed and contiguous, announces that generation and *)
(* never takes the announced generation back.                              *)
(***************************************************************************)
LEMMA PublishLemma ==
  ASSUME RegistryTypeOK, EventsAreContiguous,
         NEW operation \in Operation, PublishOperationEvent(operation)
  PROVE  /\ latest_generation' \in Generations \cup {0}
         /\ latest_generation <= latest_generation'
         /\ OperationGeneration(operation) \in Nat
         /\ OperationGeneration(operation) <= latest_generation'
         /\ next_sequence' \in Nat \ {0}
         /\ events' \in Seq(Event)
         /\ Len(events') \in 1..EventCapacity
         /\ EventsAreContiguous'
<1> DEFINE g      == OperationGeneration(operation)
           latest == Newer(g)
           event  == [sequence |-> next_sequence, snapshot_generation |-> latest]
<1>1. g \in Generations /\ g \in Nat
  BY GenerationAssumption, ZenonT(60) DEF Operation, OperationGeneration
<1>2. latest_generation \in Nat /\ next_sequence \in Nat \ {0}
  BY GenerationAssumption DEF RegistryTypeOK
<1>3. /\ latest \in Generations \cup {0} /\ latest \in Nat
      /\ latest_generation <= latest /\ g <= latest
  BY <1>1, <1>2 DEF Newer, RegistryTypeOK
<1>4. event \in Event
  BY <1>2, <1>3 DEF Event
<1>5. /\ latest_generation' = latest
      /\ next_sequence' = next_sequence + 1
      /\ events' = PushBack(events, event, EventCapacity)
  BY DEF PublishOperationEvent
<1> HIDE DEF g, latest
<1>6. /\ events \in Seq(Event) /\ Len(events) <= EventCapacity
      /\ EventCapacity \in Nat \ {0}
  BY CapacityAssumption DEF RegistryTypeOK
<1>7. /\ events' \in Seq(Event)
      /\ Len(events') \in 1..EventCapacity
      /\ events'[Len(events')] = event
      /\ \E dropped \in {0, 1} :
           /\ Len(events') = Len(events) + 1 - dropped
           /\ \A i \in 1..(Len(events') - 1) : events'[i] = events[i + dropped]
  <2> HIDE DEF event
  <2> QED
    BY <1>4, <1>5, <1>6, PushBackLemma
<1>8. \A i \in 1..Len(events) :
        /\ events[i].sequence = next_sequence - Len(events) + i - 1
        /\ events[i].snapshot_generation \in Nat
        /\ events[i].snapshot_generation <= latest_generation
        /\ i > 1 => events[i - 1].snapshot_generation
                      <= events[i].snapshot_generation
  <2>1. DOMAIN events = 1..Len(events) /\ \A i \in 1..Len(events) : events[i] \in Event
    BY <1>6
  <2>2. \A e \in Event : e.snapshot_generation \in Generations \cup {0}
    BY DEF Event
  <2>3. Generations \cup {0} \subseteq Nat
    BY GenerationAssumption
  <2> QED
    BY <2>1, <2>2, <2>3 DEF EventsAreContiguous
<1>9. EventsAreContiguous'
  <2>1. event.sequence = next_sequence /\ event.snapshot_generation = latest
    OBVIOUS
  <2> HIDE DEF event
  <2>2. PICK d \in {0, 1} :
          /\ Len(events') = Len(events) + 1 - d
          /\ \A i \in 1..(Len(events') - 1) : events'[i] = events[i + d]
    BY <1>7
  <2>3. Len(events) \in Nat /\ Len(events') \in Nat \ {0} /\ DOMAIN events' = 1..Len(events')
    BY <1>6, <1>7
  <2>4. events'[Len(events')] = event
    BY <1>7
  <2> SUFFICES ASSUME NEW i \in 1..Len(events')
               PROVE  /\ events'[i].sequence = next_sequence' - Len(events') + i - 1
                      /\ events'[i].snapshot_generation <= latest_generation'
                      /\ i = Len(events') =>
                           events'[i].snapshot_generation = latest_generation'
                      /\ i > 1 => events'[i - 1].snapshot_generation
                                    <= events'[i].snapshot_generation
    BY <2>3 DEF EventsAreContiguous
  <2>5. CASE i = Len(events')
    <3>1. ASSUME i > 1
          PROVE  events'[i - 1].snapshot_generation <= latest
      <4>1. i - 1 + d \in 1..Len(events) /\ events'[i - 1] = events[i - 1 + d]
        BY <2>2, <2>3, <2>5, <3>1
      <4>2. /\ events[i - 1 + d].snapshot_generation \in Nat
            /\ events[i - 1 + d].snapshot_generation <= latest_generation
        BY <1>8, <4>1
      <4> QED
        BY <1>2, <1>3, <4>1, <4>2
    <3> QED
      BY <1>2, <1>3, <1>5, <2>1, <2>3, <2>4, <2>5, <3>1
  <2>6. CASE i # Len(events')
    <3>1. PICK k \in 1..Len(events) : k = i + d /\ events'[i] = events[k]
      BY <2>2, <2>3, <2>6
    <3>2. i > 1 => k > 1 /\ events'[i - 1] = events[k - 1]
      BY <2>2, <2>3, <2>6, <3>1
    <3>3. /\ events[k].sequence = next_sequence - Len(events) + k - 1
          /\ events[k].snapshot_generation \in Nat
          /\ events[k].snapshot_generation <= latest_generation
          /\ k > 1 => events[k - 1].snapshot_generation
                        <= events[k].snapshot_generation
      BY <1>8
    <3>4. next_sequence' - Len(events') + i - 1 = next_sequence - Len(events) + k - 1
      BY <1>2, <1>5, <2>2, <2>3, <3>1
    <3>5. events'[i].snapshot_generation <= latest_generation'
      BY <1>2, <1>3, <1>5, <3>1, <3>3
    <3>6. events'[i].sequence = next_sequence' - Len(events') + i - 1
      BY <3>1, <3>3, <3>4, Zenon
    <3> QED
      BY <2>6, <3>1, <3>2, <3>3, <3>5, <3>6
  <2> QED
    BY <2>5, <2>6
<1>10. next_sequence' \in Nat \ {0}
  BY <1>2, <1>5
<1> QED
  BY <1>1, <1>3, <1>5, <1>7, <1>9, <1>10, Zenon DEF g

(***************************************************************************)
(* Replacing a retained operation by another version of itself, the tail   *)
(* of `start`, `set_progress` and `finish`, preserves the invariant.       *)
(***************************************************************************)
LEMMA UpdateLemma ==
  ASSUME RegistryInv, NEW i \in DOMAIN operations, NEW operation \in Operation,
         operation.id = operations[i].id, operation.state # "Queued",
         Update(i, operation)
  PROVE  RegistryInv'
<1>0. /\ RegistryTypeOK /\ NewestOperationsRetained /\ EventsAreContiguous
      /\ GenerationsAnnounced /\ QueuedHasNoProgress
  BY DEF RegistryInv
<1>1. /\ operations' = [operations EXCEPT ![i] = operation]
      /\ next_operation' = next_operation
      /\ PublishOperationEvent(operation)
  BY DEF Update
<1>2. /\ latest_generation' \in Generations \cup {0}
      /\ latest_generation <= latest_generation'
      /\ OperationGeneration(operation) \in Nat
      /\ OperationGeneration(operation) <= latest_generation'
      /\ next_sequence' \in Nat \ {0}
      /\ events' \in Seq(Event)
      /\ Len(events') \in 1..EventCapacity
      /\ EventsAreContiguous'
  BY <1>0, <1>1, PublishLemma
<1>3. /\ operations \in Seq(Operation)
      /\ operations' \in Seq(Operation)
      /\ Len(operations') = Len(operations)
      /\ DOMAIN operations' = DOMAIN operations
      /\ operations'[i] = operation
      /\ \A j \in DOMAIN operations : j # i => operations'[j] = operations[j]
  BY <1>0, <1>1 DEF RegistryTypeOK
<1>4. RegistryTypeOK'
  BY <1>0, <1>1, <1>2, <1>3, CapacityAssumption DEF RegistryTypeOK
<1>5. NewestOperationsRetained'
  BY <1>0, <1>1, <1>3 DEF NewestOperationsRetained
<1>6. GenerationsAnnounced'
  <2>1. events' # <<>>
    BY <1>2, CapacityAssumption
  <2>2. ASSUME NEW j \in DOMAIN operations
        PROVE  OperationGeneration(operations'[j]) <= latest_generation'
    <3>1. CASE j = i
      BY <1>2, <1>3, <3>1
    <3>2. CASE j # i
      <4>1. operations'[j] = operations[j]
        BY <1>3, <3>2
      <4>2. OperationGeneration(operations[j]) <= latest_generation
        BY <1>0 DEF GenerationsAnnounced
      <4>3. operations[j] \in Operation
        BY <1>3
      <4>4. /\ OperationGeneration(operations[j]) \in Generations
            /\ latest_generation \in Generations \cup {0}
        BY <1>0, <4>3 DEF Operation, OperationGeneration, RegistryTypeOK
      <4>5. Generations \cup {0} \subseteq Nat
        BY GenerationAssumption
      <4> QED
        BY <1>2, <4>1, <4>2, <4>4, <4>5
    <3> QED
      BY <3>1, <3>2
  <2> QED
    BY <1>3, <2>1, <2>2 DEF GenerationsAnnounced, OperationGeneration
<1>7. QueuedHasNoProgress'
  BY <1>0, <1>3 DEF QueuedHasNoProgress
<1> QED
  BY <1>2, <1>4, <1>5, <1>6, <1>7 DEF RegistryInv

(***************************************************************************)
(* Accepting an operation, evicting the oldest at capacity, preserves the  *)
(* invariant.                                                              *)
(***************************************************************************)
LEMMA CreateLemma ==
  ASSUME RegistryInv, NEW expected \in Generations, Create(expected)
  PROVE  RegistryInv'
<1>0. /\ RegistryTypeOK /\ NewestOperationsRetained /\ EventsAreContiguous
      /\ GenerationsAnnounced /\ QueuedHasNoProgress
  BY DEF RegistryInv
<1> DEFINE operation == NewOperation(next_operation, expected)
<1>1. /\ next_operation' = next_operation + 1
      /\ operations' = PushBack(operations, operation, OperationCapacity)
      /\ PublishOperationEvent(operation)
  BY DEF Create
<1>2. next_operation \in Nat \ {0}
  BY <1>0 DEF RegistryTypeOK
<1>3. operation \in Operation /\ operation.id = next_operation
  BY <1>2 DEF NewOperation, Operation, OperationState
<1> HIDE DEF operation
<1>4. /\ latest_generation' \in Generations \cup {0}
      /\ latest_generation <= latest_generation'
      /\ OperationGeneration(operation) \in Nat
      /\ OperationGeneration(operation) <= latest_generation'
      /\ next_sequence' \in Nat \ {0}
      /\ events' \in Seq(Event)
      /\ Len(events') \in 1..EventCapacity
      /\ EventsAreContiguous'
  BY <1>0, <1>1, <1>3, PublishLemma
<1>5. /\ operations \in Seq(Operation) /\ Len(operations) <= OperationCapacity
      /\ OperationCapacity \in Nat \ {0}
  BY <1>0, CapacityAssumption DEF RegistryTypeOK
<1>6. /\ operations' \in Seq(Operation)
      /\ Len(operations') \in 1..OperationCapacity
      /\ operations'[Len(operations')] = operation
      /\ \E dropped \in {0, 1} :
           /\ Len(operations') = Len(operations) + 1 - dropped
           /\ \A i \in 1..(Len(operations') - 1) :
                operations'[i] = operations[i + dropped]
  BY <1>1, <1>3, <1>5, PushBackLemma, SMTT(60)
<1>7. PICK d \in {0, 1} :
        /\ Len(operations') = Len(operations) + 1 - d
        /\ \A i \in 1..(Len(operations') - 1) : operations'[i] = operations[i + d]
  BY <1>6
<1>8. /\ Len(operations) \in Nat /\ DOMAIN operations = 1..Len(operations)
      /\ Len(operations') \in Nat \ {0} /\ DOMAIN operations' = 1..Len(operations')
      /\ operations'[Len(operations')] = operation
  BY <1>5, <1>6
<1>9. \A i \in 1..Len(operations') :
        \/ i = Len(operations') /\ operations'[i] = operation
        \/ \E k \in 1..Len(operations) : k = i + d /\ operations'[i] = operations[k]
  BY <1>7, <1>8
<1>10. RegistryTypeOK'
  BY <1>1, <1>2, <1>4, <1>5, <1>6, CapacityAssumption DEF RegistryTypeOK
<1>11. NewestOperationsRetained'
  <2> SUFFICES ASSUME NEW i \in 1..Len(operations')
               PROVE  operations'[i].id = next_operation' - Len(operations') + i - 1
    BY <1>8 DEF NewestOperationsRetained
  <2>1. CASE i = Len(operations') /\ operations'[i] = operation
    BY <1>1, <1>2, <1>3, <1>8, <2>1
  <2>2. CASE \E k \in 1..Len(operations) : k = i + d /\ operations'[i] = operations[k]
    <3>1. PICK k \in 1..Len(operations) : k = i + d /\ operations'[i] = operations[k]
      BY <2>2
    <3>2. operations[k].id = next_operation - Len(operations) + k - 1
      BY <1>0, <1>8 DEF NewestOperationsRetained
    <3>3. next_operation' - Len(operations') + i - 1
            = next_operation - Len(operations) + k - 1
      BY <1>1, <1>2, <1>7, <1>8, <3>1
    <3> QED
      BY <3>1, <3>2, <3>3, Zenon
  <2> QED
    BY <1>9, <2>1, <2>2
<1>12. GenerationsAnnounced'
  <2>1. events' # <<>>
    BY <1>4, CapacityAssumption
  <2>2. ASSUME NEW i \in 1..Len(operations')
        PROVE  OperationGeneration(operations'[i]) <= latest_generation'
    <3>1. CASE i = Len(operations') /\ operations'[i] = operation
      BY <1>4, <3>1
    <3>2. CASE \E k \in 1..Len(operations) : k = i + d /\ operations'[i] = operations[k]
      <4>1. PICK k \in 1..Len(operations) : operations'[i] = operations[k]
        BY <3>2
      <4>2. OperationGeneration(operations[k]) <= latest_generation
        BY <1>0, <1>8 DEF GenerationsAnnounced
      <4>3. operations[k] \in Operation
        BY <1>5
      <4>4. /\ OperationGeneration(operations[k]) \in Generations
            /\ latest_generation \in Generations \cup {0}
        BY <1>0, <4>3 DEF Operation, OperationGeneration, RegistryTypeOK
      <4>5. Generations \cup {0} \subseteq Nat
        BY GenerationAssumption
      <4> DEFINE g == OperationGeneration(operations[k])
      <4>6. /\ g \in Nat /\ latest_generation \in Nat /\ latest_generation' \in Nat
            /\ g <= latest_generation /\ latest_generation <= latest_generation'
        BY <1>4, <4>2, <4>4, <4>5
      <4>7. OperationGeneration(operations'[i]) = g
        BY <4>1
      <4> HIDE DEF g
      <4> QED
        BY <4>6, <4>7
    <3> QED
      BY <1>9, <3>1, <3>2
  <2> QED
    BY <1>8, <2>1, <2>2 DEF GenerationsAnnounced, OperationGeneration
<1>13. QueuedHasNoProgress'
  <2>1. operation.progress = None
    BY DEF operation, NewOperation
  <2> SUFFICES ASSUME NEW i \in 1..Len(operations'), operations'[i].state = "Queued"
               PROVE  operations'[i].progress = None
    BY <1>8 DEF QueuedHasNoProgress
  <2>2. CASE operations'[i] = operation
    BY <2>1, <2>2
  <2>3. CASE \E k \in 1..Len(operations) : operations'[i] = operations[k]
    BY <1>0, <1>8, <2>3 DEF QueuedHasNoProgress
  <2> QED
    BY <1>9, <2>2, <2>3
<1> QED
  BY <1>4, <1>10, <1>11, <1>12, <1>13 DEF RegistryInv

\* What `update` may put in the place of a retained operation.
Successor(before, after) ==
  /\ after \in Operation
  /\ after.id = before.id
  /\ after.state # "Queued"
  /\ before.state \notin Terminal
  /\ Forward(before, after)

(***************************************************************************)
(* Every step of the registry is a creation or replaces one retained       *)
(* operation by a successor: the guards of `start`, `set_progress` and     *)
(* `finish` leave terminal operations alone and keep progress rising.      *)
(***************************************************************************)
LEMMA StepLemma ==
  ASSUME RegistryInv, RegistryNext
  PROVE  \/ \E expected \in Generations : Create(expected)
         \/ \E i \in DOMAIN operations : \E operation \in Operation :
              Successor(operations[i], operation) /\ Update(i, operation)
<1>1. \A i \in DOMAIN operations : operations[i] \in Operation
  BY DEF RegistryInv, RegistryTypeOK
<1>2. ASSUME NEW id \in 1..MaxOperations, Start(id)
      PROVE  \E i \in DOMAIN operations : \E operation \in Operation :
               Successor(operations[i], operation) /\ Update(i, operation)
  <2> DEFINE Started(i) == [operations[i] EXCEPT !.state = "Running", !.progress = 0]
  <2>1. PICK i \in DOMAIN operations :
          operations[i].state = "Queued" /\ Update(i, Started(i))
    BY <1>2, ZenonT(60) DEF Start
  <2>2. Started(i) \in Operation
    <3>1. "Running" \in OperationState /\ 0 \in Progress
      BY DEF OperationState, Progress
    <3> QED
      BY <1>1, <3>1, ZenonT(60) DEF Operation
  <2>3. operations[i].progress = None
    BY <2>1 DEF RegistryInv, QueuedHasNoProgress
  <2>4. Successor(operations[i], Started(i))
    BY <1>1, <2>1, <2>2, <2>3 DEF Successor, Forward, Operation, Terminal
  <2> HIDE DEF Started
  <2> QED
    BY <2>1, <2>2, <2>4
<1>3. ASSUME NEW id \in 1..MaxOperations, NEW percent \in Percentages,
             SetProgress(id, percent)
      PROVE  \E i \in DOMAIN operations : \E operation \in Operation :
               Successor(operations[i], operation) /\ Update(i, operation)
  <2>1. PICK i \in DOMAIN operations :
          /\ operations[i].state = "Running"
          /\ percent <= 100
          /\ operations[i].progress # None => percent >= operations[i].progress
          /\ Update(i, [operations[i] EXCEPT !.progress = percent])
    BY <1>3 DEF SetProgress
  <2> DEFINE operation == [operations[i] EXCEPT !.progress = percent]
  <2>2. percent \in Progress
    BY <2>1, InputAssumption DEF Progress
  <2>3. operation \in Operation
    BY <1>1, <2>2 DEF Operation
  <2>4. Successor(operations[i], operation)
    BY <1>1, <2>1, <2>2, <2>3, GenerationAssumption
    DEF Successor, Forward, Operation, Terminal, Progress
  <2> QED
    BY <2>1, <2>3, <2>4
<1>4. ASSUME NEW id \in 1..MaxOperations, NEW state \in Terminal,
             NEW observed \in Generations \cup {None}, NEW error \in Errors \cup {None},
             Finish(id, state, observed, error)
      PROVE  \E i \in DOMAIN operations : \E operation \in Operation :
               Successor(operations[i], operation) /\ Update(i, operation)
  <2> DEFINE Finished(i) ==
        [operations[i] EXCEPT
           !.state = state, !.observed_generation = observed, !.error = error,
           !.progress = IF state = "Succeeded" THEN 100 ELSE @]
  <2>1. PICK i \in DOMAIN operations :
          operations[i].state \notin Terminal /\ Update(i, Finished(i))
    BY <1>4, ZenonT(60) DEF Finish
  <2>2. Finished(i) \in Operation
    <3>1. state \in OperationState /\ 100 \in Progress
      BY DEF OperationState, Progress
    <3> QED
      BY <1>1, <3>1, ZenonT(60) DEF Operation
  <2>3. /\ Finished(i).id = operations[i].id
        /\ Finished(i).state = state
        /\ Finished(i).progress = (IF state = "Succeeded" THEN 100 ELSE operations[i].progress)
        /\ Finished(i).expected_generation = operations[i].expected_generation
    BY <1>1 DEF Operation
  <2>4. operations[i].progress \in 0..100 \cup {None} /\ None \notin Int
    BY <1>1, GenerationAssumption DEF Operation, Progress
  <2> HIDE DEF Finished
  <2>5. Successor(operations[i], Finished(i))
    BY <2>1, <2>2, <2>3, <2>4 DEF Successor, Forward, Terminal
  <2> QED
    BY <2>1, <2>2, <2>5
<1> QED
  BY <1>2, <1>3, <1>4 DEF RegistryNext

LEMMA RegistryStart == RegistryInit => RegistryInv
BY CapacityAssumption
DEF RegistryInit, RegistryInv, RegistryTypeOK, NewestOperationsRetained,
    EventsAreContiguous, GenerationsAnnounced, QueuedHasNoProgress

LEMMA RegistryStep ==
  ASSUME RegistryInv, [RegistryNext]_registryVars
  PROVE  RegistryInv'
<1>1. CASE RegistryNext
  <2>1. CASE \E expected \in Generations : Create(expected)
    BY <2>1, CreateLemma
  <2>2. CASE \E i \in DOMAIN operations : \E operation \in Operation :
               Successor(operations[i], operation) /\ Update(i, operation)
    BY <2>2, UpdateLemma DEF Successor
  <2> QED
    BY <1>1, <2>1, <2>2, StepLemma
<1>2. CASE UNCHANGED registryVars
  BY <1>2
  DEF registryVars, RegistryInv, RegistryTypeOK, NewestOperationsRetained,
      EventsAreContiguous, GenerationsAnnounced, QueuedHasNoProgress,
      OperationGeneration
<1> QED
  BY <1>1, <1>2

(***************************************************************************)
(* The invariant is inductive: it holds in a new registry and every method *)
(* preserves it.                                                           *)
(***************************************************************************)
THEOREM RegistryInvariant == RegistrySpec => []RegistryInv
<1>1. RegistryInv /\ [RegistryNext]_registryVars => RegistryInv'
  BY RegistryStep
<1> QED
  BY <1>1, RegistryStart, PTL DEF RegistrySpec

(***************************************************************************)
(* Both histories stay within the capacities given to `new`, and hold the  *)
(* newest operations and events in order, without a gap: an id never names *)
(* two operations and the stream has no silent hole, whatever the          *)
(* capacities.                                                             *)
(***************************************************************************)
THEOREM HistoriesOrdered == RegistrySpec => []HistoriesAreOrdered
  BY RegistryInvariant, PTL DEF RegistryInv, HistoriesAreOrdered

(***************************************************************************)
(* Accepting an operation forgets at most the oldest one and shifts the    *)
(* others, unchanged.                                                      *)
(***************************************************************************)
LEMMA CreateKeeps ==
  ASSUME RegistryInv, NEW expected \in Generations, Create(expected)
  PROVE  \E dropped \in {0, 1} :
           /\ Len(operations') = Len(operations) + 1 - dropped
           /\ \A k \in 1..(Len(operations') - 1) :
                operations'[k] = operations[k + dropped]
<1> DEFINE operation == NewOperation(next_operation, expected)
<1>1. /\ operations \in Seq(Operation) /\ Len(operations) <= OperationCapacity
      /\ next_operation \in Nat /\ OperationCapacity \in Nat \ {0}
  BY CapacityAssumption DEF RegistryInv, RegistryTypeOK
<1>2. operation \in Operation
  BY <1>1 DEF NewOperation, Operation, OperationState
<1>3. operations' = PushBack(operations, operation, OperationCapacity)
  BY DEF Create
<1> HIDE DEF operation
<1>4. /\ operations' \in Seq(Operation)
      /\ Len(operations') \in 1..OperationCapacity
      /\ operations'[Len(operations')] = operation
      /\ \E dropped \in {0, 1} :
           /\ Len(operations') = Len(operations) + 1 - dropped
           /\ \A i \in 1..(Len(operations') - 1) :
                operations'[i] = operations[i + dropped]
  BY <1>1, <1>2, <1>3, PushBackLemma, SMTT(60)
<1> QED
  BY <1>4, Zenon

(***************************************************************************)
(* Terminal records are immutable and progress never regresses, for every  *)
(* operation as long as it is retained, evictions around it included.      *)
(***************************************************************************)
THEOREM OperationsMoveForward == RegistrySpec => OperationsOnlyMoveForward
<1> DEFINE Step ==
      \A i \in DOMAIN operations, j \in DOMAIN operations' :
        operations[i].id = operations'[j].id => Forward(operations[i], operations'[j])
<1>1. ASSUME NEW operation \in Operation PROVE Forward(operation, operation)
  <2>1. operation.progress \in 0..100 \cup {None}
    BY DEF Operation, Progress
  <2> QED
    BY <2>1 DEF Forward
<1>2. RegistryInv /\ RegistryInv' /\ [RegistryNext]_registryVars => [Step]_registryVars
  <2> SUFFICES ASSUME RegistryInv, RegistryInv', RegistryNext,
                      NEW i \in DOMAIN operations, NEW j \in DOMAIN operations',
                      operations[i].id = operations'[j].id
               PROVE  Forward(operations[i], operations'[j])
    OBVIOUS
  <2>1. /\ operations \in Seq(Operation) /\ operations' \in Seq(Operation)
        /\ next_operation \in Nat
    BY DEF RegistryInv, RegistryTypeOK
  <2>2. /\ i \in 1..Len(operations) /\ Len(operations) \in Nat
        /\ j \in 1..Len(operations') /\ Len(operations') \in Nat
        /\ operations[i] \in Operation
    BY <2>1
  <2>3. /\ operations[i].id = next_operation - Len(operations) + i - 1
        /\ operations'[j].id = next_operation' - Len(operations') + j - 1
    BY DEF RegistryInv, NewestOperationsRetained
  <2>4. CASE \E expected \in Generations : Create(expected)
    <3>1. PICK expected \in Generations : Create(expected)
      BY <2>4
    <3>2. PICK d \in {0, 1} :
            /\ Len(operations') = Len(operations) + 1 - d
            /\ \A k \in 1..(Len(operations') - 1) : operations'[k] = operations[k + d]
      BY <3>1, CreateKeeps
    <3>3. /\ next_operation' = next_operation + 1
          /\ Len(operations') = Len(operations) + 1 - d
      BY <3>1, <3>2 DEF Create
    <3>4. next_operation - Len(operations) + i - 1
            = next_operation' - Len(operations') + j - 1
      BY <2>3, ZenonT(60)
    <3>5. d = 0 \/ d = 1
      OBVIOUS
    <3>6. i = j + d
      <4> DEFINE n == next_operation  m == next_operation'
                 k == Len(operations) l == Len(operations')
      <4>1. n \in Int /\ k \in Int /\ l \in Int /\ i \in Int /\ j \in Int
        BY <2>1, <2>2
      <4>2. m = n + 1 /\ l = k + 1 - d
        BY <3>3
      <4>3. n - k + i - 1 = m - l + j - 1
        BY <3>4
      <4> HIDE DEF n, m, k, l
      <4> QED
        BY <3>5, <4>1, <4>2, <4>3
    <3>7. j \in 1..(Len(operations') - 1)
      BY <2>2, <3>3, <3>5, <3>6
    <3>8. operations'[j] = operations[i]
      BY <3>2, <3>6, <3>7
    <3> QED
      BY <1>1, <2>2, <3>8
  <2>5. CASE \E k \in DOMAIN operations : \E operation \in Operation :
               Successor(operations[k], operation) /\ Update(k, operation)
    <3>1. PICK k \in DOMAIN operations, operation \in Operation :
            Successor(operations[k], operation) /\ Update(k, operation)
      BY <2>5
    <3>2. /\ operations' = [operations EXCEPT ![k] = operation]
          /\ next_operation' = next_operation
      BY <3>1 DEF Update
    <3>3. Len(operations') = Len(operations)
      BY <2>1, <3>2
    <3>4. i = j
      <4>1. next_operation - Len(operations) + i - 1
              = next_operation - Len(operations) + j - 1
        BY <2>3, <3>2, <3>3, ZenonT(60)
      <4> QED
        BY <2>1, <2>2, <4>1
    <3>5. CASE i = k
      BY <2>1, <3>1, <3>2, <3>4, <3>5 DEF Successor
    <3>6. CASE i # k
      <4>1. operations'[j] = operations[i]
        BY <2>1, <3>2, <3>4, <3>6
      <4> QED
        BY <1>1, <2>2, <4>1
    <3> QED
      BY <3>5, <3>6
  <2> QED
    BY <2>4, <2>5, StepLemma
<1> QED
  BY <1>2, RegistryInvariant, PTL DEF OperationsOnlyMoveForward, RegistrySpec

-----------------------------------------------------------------------------
(* The readers of the event queue.                                         *)

(***************************************************************************)
(* The filter of `event_batch`: when the events after the cursor are those *)
(* from position m on, it returns just these, in order.                    *)
(***************************************************************************)
LEMMA EventsAfterLemma ==
  ASSUME events \in Seq(Event), NEW after, NEW m \in 1..(Len(events) + 1),
         \A i \in DOMAIN events : events[i].sequence > after <=> i >= m
  PROVE  EventsAfter(after) = [n \in 1..(Len(events) - m + 1) |-> events[m + n - 1]]
<1> DEFINE L     == Len(events)
           later == {i \in DOMAIN events : events[i].sequence > after}
<1>0. L \in Nat /\ DOMAIN events = 1..L
  OBVIOUS
<1>1. later = m..L
  BY <1>0
<1>2. Cardinality(later) = L - m + 1
  <2>1. Cardinality(m..L) = IF m > L THEN 0 ELSE L - m + 1
    <3>1. m \in Int /\ L \in Int
      BY <1>0
    <3> HIDE DEF L
    <3> QED
      BY <3>1, FS_Interval
  <2> HIDE DEF L, later
  <2> QED
    BY <1>0, <1>1, <2>1
<1>3. ASSUME NEW i \in m..L
      PROVE  Cardinality({j \in later : j <= i}) = i - m + 1
  <2>1. {j \in later : j <= i} = m..i
    BY <1>0, <1>1
  <2>2. Cardinality(m..i) = IF m > i THEN 0 ELSE i - m + 1
    <3>1. m \in Int /\ i \in Int
      BY <1>0
    <3> QED
      BY <3>1, FS_Interval
  <2>3. Cardinality(m..i) = i - m + 1
    BY <1>0, <2>2
  <2> QED
    BY <2>1, <2>3, Zenon
<1>4. ASSUME NEW n \in 1..(L - m + 1)
      PROVE  (CHOOSE i \in later : Cardinality({j \in later : j <= i}) = n) = m + n - 1
  <2>1. m + n - 1 \in later /\ Cardinality({j \in later : j <= m + n - 1}) = n
    BY <1>0, <1>1, <1>3
  <2>2. ASSUME NEW i \in later, Cardinality({j \in later : j <= i}) = n
        PROVE  i = m + n - 1
    BY <1>0, <1>1, <1>3, <2>2
  <2> HIDE DEF later
  <2> QED
    BY <2>1, <2>2
<1>5. EventsAfter(after) = [n \in 1..Cardinality(later) |->
        events[CHOOSE i \in later : Cardinality({j \in later : j <= i}) = n]]
  BY DEF EventsAfter
<1> HIDE DEF later
<1> QED
  BY <1>2, <1>4, <1>5, ZenonT(60)

(***************************************************************************)
(* What is known of the retained events, in one place.                     *)
(***************************************************************************)
LEMMA EventsLemma ==
  ASSUME RegistryInv
  PROVE  /\ events \in Seq(Event) /\ Len(events) \in Nat /\ DOMAIN events = 1..Len(events)
         /\ next_sequence \in Nat \ {0} /\ latest_generation \in Nat
         /\ \A i \in 1..Len(events) :
              /\ events[i] \in Event
              /\ events[i].sequence = next_sequence - Len(events) + i - 1
              /\ events[i].snapshot_generation \in Nat
              /\ events[i].snapshot_generation <= latest_generation
              /\ i > 1 => events[i - 1].snapshot_generation <= events[i].snapshot_generation
<1>1. /\ events \in Seq(Event) /\ Len(events) \in Nat /\ DOMAIN events = 1..Len(events)
      /\ next_sequence \in Nat \ {0} /\ latest_generation \in Generations \cup {0}
      /\ \A i \in 1..Len(events) : events[i] \in Event
  BY DEF RegistryInv, RegistryTypeOK
<1>2. Generations \cup {0} \subseteq Nat
  BY GenerationAssumption
<1>3. \A e \in Event : e.snapshot_generation \in Nat
  BY <1>2 DEF Event
<1> QED
  BY <1>1, <1>2, <1>3, ZenonT(60) DEF RegistryInv, EventsAreContiguous

(***************************************************************************)
(* `event_batch` for a reader that fell behind: the marker, then all that  *)
(* is retained.                                                            *)
(***************************************************************************)
LEMMA OverflowedBatch ==
  ASSUME RegistryInv, NEW after \in Nat, Overflowed(after)
  PROVE  LET batch == EventBatch(after)
         IN  /\ Len(events) > 0
             /\ after + 1 < next_sequence - Len(events)
             /\ Len(batch) = Len(events) + 1
             /\ DOMAIN batch = 1..(Len(events) + 1)
             /\ batch[1] = OverflowMarker
             /\ \A n \in 2..(Len(events) + 1) : batch[n] = events[n - 1]
<1> DEFINE L == Len(events)
<1>0. /\ events \in Seq(Event) /\ L \in Nat /\ DOMAIN events = 1..L
      /\ next_sequence \in Nat \ {0}
      /\ \A i \in 1..L : events[i].sequence = next_sequence - L + i - 1
  BY EventsLemma
<1>1. L > 0 /\ events[1].sequence = next_sequence - L /\ after + 1 < next_sequence - L
  <2>1. events # <<>> /\ after + 1 < events[1].sequence
    BY DEF Overflowed
  <2>2. L > 0
    BY <1>0, <2>1
  <2> QED
    BY <1>0, <2>1, <2>2
<1>2. EventsAfter(after) = [n \in 1..(L - 1 + 1) |-> events[1 + n - 1]]
  <2>1. \A i \in DOMAIN events : events[i].sequence > after <=> i >= 1
    BY <1>0, <1>1
  <2>2. 1 \in 1..(Len(events) + 1)
    BY <1>0
  <2> QED
    BY <1>0, <2>1, <2>2, EventsAfterLemma, ZenonT(60)
<1>3. EventsAfter(after) = events
  BY <1>0, <1>2
<1>4. EventBatch(after) = <<OverflowMarker>> \o events
  BY <1>3 DEF EventBatch
<1> QED
  BY <1>0, <1>1, <1>4

(***************************************************************************)
(* `event_batch` for a reader that is ahead of the registry: nothing.      *)
(***************************************************************************)
LEMMA NothingAhead ==
  ASSUME RegistryInv, NEW after \in Nat, after >= next_sequence
  PROVE  EventBatch(after) = <<>>
<1> DEFINE L == Len(events)
<1>0. /\ events \in Seq(Event) /\ L \in Nat /\ DOMAIN events = 1..L
      /\ next_sequence \in Nat \ {0}
      /\ \A i \in 1..L : events[i].sequence = next_sequence - L + i - 1
  BY EventsLemma
<1>1. ~Overflowed(after)
  <2>1. ASSUME events # <<>> PROVE ~(after + 1 < events[1].sequence)
    BY <1>0, <2>1
  <2> QED
    BY <2>1 DEF Overflowed
<1>2. EventsAfter(after) = [n \in 1..(L - (L + 1) + 1) |-> events[(L + 1) + n - 1]]
  <2>1. \A i \in DOMAIN events : events[i].sequence > after <=> i >= L + 1
    BY <1>0
  <2>2. L + 1 \in 1..(Len(events) + 1)
    BY <1>0
  <2> QED
    BY <1>0, <2>1, <2>2, EventsAfterLemma, ZenonT(60)
<1>3. EventsAfter(after) = <<>>
  <2>1. 1..(L - (L + 1) + 1) = {}
    BY <1>0
  <2> HIDE DEF L
  <2> QED
    BY <1>2, <2>1
<1> QED
  BY <1>1, <1>3 DEF EventBatch

(***************************************************************************)
(* `event_batch` for a reader within the queue: what comes after it.       *)
(***************************************************************************)
LEMMA OrdinaryBatch ==
  ASSUME RegistryInv, NEW after \in 0..(next_sequence - 1), ~Overflowed(after), events # <<>>
  PROVE  LET batch == EventBatch(after)
             m     == after + 2 - (next_sequence - Len(events))
         IN  /\ Len(events) > 0
             /\ m \in 1..(Len(events) + 1)
             /\ Len(batch) = Len(events) - m + 1
             /\ DOMAIN batch = 1..(Len(events) - m + 1)
             /\ \A n \in 1..(Len(events) - m + 1) : batch[n] = events[m + n - 1]
<1> DEFINE L == Len(events)
           m == after + 2 - (next_sequence - L)
<1>0. /\ events \in Seq(Event) /\ L \in Nat /\ DOMAIN events = 1..L
      /\ next_sequence \in Nat \ {0}
      /\ \A i \in 1..L : events[i].sequence = next_sequence - L + i - 1
  BY EventsLemma
<1>1. L > 0 /\ after + 1 >= next_sequence - L
  <2>1. L > 0
    BY <1>0
  <2> QED
    BY <1>0, <2>1 DEF Overflowed
<1>2. m \in 1..(L + 1)
  BY <1>0, <1>1
<1>3. EventBatch(after) = [n \in 1..(L - m + 1) |-> events[m + n - 1]]
  <2>1. \A i \in DOMAIN events : events[i].sequence > after <=> i >= m
    BY <1>0, <1>1
  <2> HIDE DEF m
  <2> QED
    BY <1>0, <1>2, <2>1, EventsAfterLemma, ZenonT(60) DEF EventBatch
<1>4. L - m + 1 \in Nat
  BY <1>0, <1>2
<1>5. Len(EventBatch(after)) = L - m + 1
  <2> HIDE DEF m, L
  <2> QED
    BY <1>3, <1>4
<1> QED
  BY <1>1, <1>2, <1>3, <1>5

(***************************************************************************)
(* Publishing puts one event at the end of the stream; the others retained *)
(* are old ones.                                                           *)
(***************************************************************************)
LEMMA EventsGrow ==
  ASSUME RegistryInv, NEW operation \in Operation, PublishOperationEvent(operation)
  PROVE  /\ next_sequence' = next_sequence + 1
         /\ Len(events') \in 1..(Len(events) + 1)
         /\ latest_generation <= latest_generation'
         /\ latest_generation \in Nat /\ latest_generation' \in Nat
         /\ events'[Len(events')] =
              [sequence |-> next_sequence, snapshot_generation |-> latest_generation']
         /\ \A i \in 1..(Len(events') - 1) :
              events'[i] = events[i + Len(events) + 1 - Len(events')]
         /\ \A i \in 1..Len(events') :
              \/ \E j \in 1..Len(events) : events'[i] = events[j]
              \/ /\ events'[i].sequence = next_sequence
                 /\ events'[i].snapshot_generation = latest_generation'
<1> DEFINE latest == Newer(OperationGeneration(operation))
           event  == [sequence |-> next_sequence, snapshot_generation |-> latest]
<1>1. /\ latest_generation' = latest
      /\ next_sequence' = next_sequence + 1
      /\ events' = PushBack(events, event, EventCapacity)
  BY DEF PublishOperationEvent
<1>2. /\ latest_generation <= latest_generation'
      /\ latest_generation' \in Generations \cup {0}
  BY PublishLemma DEF RegistryInv
<1>3. /\ event \in Event
      /\ event = [sequence |-> next_sequence, snapshot_generation |-> latest_generation']
      /\ event.sequence = next_sequence /\ event.snapshot_generation = latest_generation'
  BY <1>1, <1>2 DEF RegistryInv, RegistryTypeOK, Event
<1> HIDE DEF event
<1>4. /\ events \in Seq(Event) /\ Len(events) \in Nat /\ Len(events) <= EventCapacity
      /\ EventCapacity \in Nat \ {0}
  BY CapacityAssumption DEF RegistryInv, RegistryTypeOK
<1>5. /\ events' \in Seq(Event)
      /\ Len(events') \in 1..EventCapacity
      /\ events'[Len(events')] = event
      /\ \E dropped \in {0, 1} :
           /\ Len(events') = Len(events) + 1 - dropped
           /\ \A i \in 1..(Len(events') - 1) : events'[i] = events[i + dropped]
  BY <1>1, <1>3, <1>4, PushBackLemma
<1>6. PICK d \in {0, 1} :
        /\ Len(events') = Len(events) + 1 - d
        /\ \A i \in 1..(Len(events') - 1) : events'[i] = events[i + d]
  BY <1>5
<1>7. ASSUME NEW i \in 1..Len(events'), i # Len(events')
      PROVE  \E j \in 1..Len(events) : events'[i] = events[j]
  <2>1. i + d \in 1..Len(events) /\ events'[i] = events[i + d]
    BY <1>4, <1>6, <1>7
  <2> QED
    BY <2>1
<1>8. Len(events') \in 1..(Len(events) + 1)
  BY <1>4, <1>5, <1>6
<1>9. ASSUME NEW i \in 1..(Len(events') - 1)
      PROVE  events'[i] = events[i + Len(events) + 1 - Len(events')]
  <2>1. i + Len(events) + 1 - Len(events') = i + d
    BY <1>4, <1>6
  <2> QED
    BY <1>6, <2>1
<1>10. latest_generation \in Nat /\ latest_generation' \in Nat
  BY <1>2, GenerationAssumption DEF RegistryInv, RegistryTypeOK
<1> QED
  BY <1>1, <1>2, <1>3, <1>5, <1>7, <1>8, <1>9, <1>10

(***************************************************************************)
(* Whatever the registry does, a reader's account of the stream stays      *)
(* true: publishing evicts only the oldest event and goes neither back in  *)
(* sequence nor in generation.                                             *)
(***************************************************************************)
LEMMA PublishKeepsReaders ==
  ASSUME RegistryInv, RegistryInv', StreamTypeOK, NEW s \in Subscribers, ReaderInv(s),
         NEW operation \in Operation, PublishOperationEvent(operation),
         UNCHANGED streamVars
  PROVE  ReaderInv(s)'
<1>0. /\ cursor' = cursor /\ since' = since /\ delivered' = delivered
      /\ reported' = reported /\ last' = last
  BY DEF streamVars
<1>1. /\ next_sequence' = next_sequence + 1
      /\ Len(events') \in 1..(Len(events) + 1)
      /\ latest_generation <= latest_generation'
      /\ \A i \in 1..Len(events') :
           \/ \E j \in 1..Len(events) : events'[i] = events[j]
           \/ /\ events'[i].sequence = next_sequence
              /\ events'[i].snapshot_generation = latest_generation'
  BY EventsGrow
<1>2. /\ Len(events) \in Nat /\ DOMAIN events = 1..Len(events)
      /\ next_sequence \in Nat \ {0} /\ latest_generation \in Nat
      /\ \A i \in 1..Len(events) : events[i].snapshot_generation \in Nat
  BY EventsLemma
<1>3. latest_generation' \in Nat /\ DOMAIN events' = 1..Len(events')
  BY GenerationAssumption DEF RegistryInv, RegistryTypeOK
<1>4. \/ cursor[s] \in since[s]..(next_sequence' - 1)
      \/ cursor[s] = since[s] /\ last[s] = None
  BY <1>1, <1>2 DEF ReaderInv, StreamTypeOK
<1>5. reported[s] \subseteq 1..(next_sequence' - Len(events') - 1)
  BY <1>1, <1>2 DEF ReaderInv
<1>6. ASSUME last[s] # None
      PROVE  /\ last[s].sequence = cursor[s]
             /\ last[s].snapshot_generation <= latest_generation'
             /\ \A i \in DOMAIN events' :
                  events'[i].sequence > cursor[s] =>
                    events'[i].snapshot_generation >= last[s].snapshot_generation
  <2>1. /\ last[s].sequence = cursor[s]
        /\ last[s].snapshot_generation <= latest_generation
        /\ \A i \in DOMAIN events :
             events[i].sequence > cursor[s] =>
               events[i].snapshot_generation >= last[s].snapshot_generation
    BY <1>6 DEF ReaderInv
  <2>2. last[s].snapshot_generation \in Nat
    <3>1. last[s] \in Event
      BY <1>6 DEF StreamTypeOK
    <3>2. last[s].snapshot_generation \in Generations \cup {0}
      BY <3>1 DEF Event
    <3>3. Generations \cup {0} \subseteq Nat
      BY GenerationAssumption
    <3> QED
      BY <3>2, <3>3, Zenon
  <2>3. last[s].snapshot_generation <= latest_generation'
    BY <1>1, <1>2, <1>3, <2>1, <2>2
  <2> QED
    BY <1>1, <1>2, <1>3, <2>1, <2>2, <2>3, ZenonT(60)
<1> QED
  BY <1>0, <1>4, <1>5, <1>6 DEF ReaderInv

(***************************************************************************)
(* What a batch accounts for.  It ends with the newest event; of what lies *)
(* between the cursor and the end of the stream it holds what is retained, *)
(* and its marker stands for what is not.                                  *)
(***************************************************************************)
Missed(after) == IF Overflowed(after) THEN (after + 1)..OverflowMarker.sequence ELSE {}

LEMMA BatchLemma ==
  ASSUME RegistryInv, NEW after \in 0..(next_sequence - 1), EventBatch(after) # <<>>
  PROVE  LET batch == EventBatch(after)
             first == next_sequence - Len(events)
         IN  /\ Len(events) > 0
             /\ Len(batch) \in Nat \ {0}
             /\ batch[Len(batch)] = events[Len(events)]
             /\ Sequences(batch) \ Missed(after)
                  = {q \in (after + 1)..(next_sequence - 1) : q >= first}
             /\ Missed(after) = {q \in (after + 1)..(next_sequence - 1) : q < first}
<1> DEFINE L     == Len(events)
           batch == EventBatch(after)
           first == next_sequence - L
<1>0. /\ events \in Seq(Event) /\ L \in Nat /\ DOMAIN events = 1..L
      /\ next_sequence \in Nat \ {0} /\ after \in Nat
      /\ \A i \in 1..L : events[i].sequence = first + i - 1
  BY EventsLemma
<1>1. CASE Overflowed(after)
  <2>1. /\ L > 0
        /\ after + 1 < first
        /\ Len(batch) = L + 1
        /\ DOMAIN batch = 1..(L + 1)
        /\ batch[1] = OverflowMarker
        /\ \A n \in 2..(L + 1) : batch[n] = events[n - 1]
    BY <1>0, <1>1, OverflowedBatch
  <2>2. OverflowMarker.sequence = first - 1
    BY <1>0, <2>1 DEF OverflowMarker
  <2>3. Missed(after) = (after + 1)..(first - 1)
    BY <1>1, <2>2 DEF Missed
  <2>4. Sequences(batch) = {batch[i].sequence : i \in DOMAIN batch}
    BY DEF Sequences
  <2> HIDE DEF batch
  <2>5. ASSUME NEW n \in 1..(L + 1)
        PROVE  batch[n].sequence = first + n - 2
    <3>1. CASE n = 1
      <4>1. first - 1 = first + n - 2
        BY <1>0, <3>1
      <4> QED
        BY <2>1, <2>2, <3>1, <4>1, Zenon
    <3>2. CASE n # 1
      <4>1. n \in 2..(L + 1) /\ n - 1 \in 1..L /\ first + (n - 1) - 1 = first + n - 2
        BY <1>0, <3>2
      <4>2. batch[n] = events[n - 1] /\ events[n - 1].sequence = first + (n - 1) - 1
        BY <1>0, <2>1, <4>1
      <4> QED
        BY <4>1, <4>2, Zenon
    <3> QED
      BY <3>1, <3>2
  <2>6. Sequences(batch) = (first - 1)..(next_sequence - 1)
    <3>1. ASSUME NEW q \in (first - 1)..(next_sequence - 1)
          PROVE  \E i \in DOMAIN batch : batch[i].sequence = q
      <4>1. q - first + 2 \in 1..(L + 1)
        BY <1>0, <2>1
      <4>2. batch[q - first + 2].sequence = q
        BY <1>0, <2>1, <2>5, <4>1
      <4> QED
        BY <2>1, <4>1, <4>2
    <3>2. ASSUME NEW i \in DOMAIN batch
          PROVE  batch[i].sequence \in (first - 1)..(next_sequence - 1)
      BY <1>0, <2>1, <2>5
    <3> QED
      BY <2>4, <3>1, <3>2
  <2>7. batch[L + 1] = events[L]
    BY <1>0, <2>1
  <2>8. /\ Sequences(batch) \ Missed(after) = {q \in (after + 1)..(next_sequence - 1) : q >= first}
        /\ Missed(after) = {q \in (after + 1)..(next_sequence - 1) : q < first}
    BY <1>0, <2>1, <2>3, <2>6
  <2> QED
    BY <1>0, <2>1, <2>7, <2>8 DEF batch
<1>2. CASE ~Overflowed(after)
  <2>1. events # <<>>
    <3> SUFFICES ASSUME events = <<>> PROVE batch = <<>>
      OBVIOUS
    <3>1. EventsAfter(after) = [n \in 1..(Len(events) - 1 + 1) |-> events[1 + n - 1]]
      BY EventsAfterLemma
    <3>2. EventsAfter(after) = <<>>
      BY <3>1
    <3> QED
      BY <1>2, <3>2 DEF EventBatch
  <2> DEFINE m == after + 2 - first
  <2>2. /\ L > 0
        /\ m \in 1..(L + 1)
        /\ Len(batch) = L - m + 1
        /\ DOMAIN batch = 1..(L - m + 1)
        /\ \A n \in 1..(L - m + 1) : batch[n] = events[m + n - 1]
    BY <1>2, <2>1, OrdinaryBatch
  <2>3. Missed(after) = {}
    BY <1>2 DEF Missed
  <2>4. Sequences(batch) = {batch[i].sequence : i \in DOMAIN batch}
    BY DEF Sequences
  <2>5. m # L + 1
    <3> SUFFICES ASSUME m = L + 1 PROVE batch = <<>>
      OBVIOUS
    <3>1. EventsAfter(after) = [n \in 1..(L - m + 1) |-> events[m + n - 1]]
      <4>1. \A i \in DOMAIN events : events[i].sequence > after <=> i >= m
        BY <1>0, <2>2
      <4> HIDE DEF m
      <4> QED
        BY <1>0, <2>2, <4>1, EventsAfterLemma
    <3>2. EventsAfter(after) = <<>>
      <4>1. L - m + 1 = 0
        BY <1>0, <2>2
      <4> HIDE DEF m, L
      <4> QED
        BY <3>1, <4>1
    <3> QED
      BY <1>2, <3>2 DEF EventBatch
  <2> HIDE DEF batch
  <2>6. ASSUME NEW n \in 1..(L - m + 1)
        PROVE  batch[n].sequence = after + n
    <3>0. m \in 1..(L + 1) /\ L \in Nat /\ next_sequence \in Nat /\ after \in Nat
      BY <1>0, <2>2
    <3>1. m + n - 1 \in 1..L /\ first + (m + n - 1) - 1 = after + n
      <4> HIDE DEF L
      <4> QED
        BY <3>0
    <3>2. batch[n] = events[m + n - 1] /\ events[m + n - 1].sequence = first + (m + n - 1) - 1
      <4> HIDE DEF m, first
      <4> QED
        BY <1>0, <2>2, <3>1
    <3> QED
      BY <3>1, <3>2, Zenon
  <2>7. Sequences(batch) = (after + 1)..(next_sequence - 1)
    <3>1. ASSUME NEW q \in (after + 1)..(next_sequence - 1)
          PROVE  \E i \in DOMAIN batch : batch[i].sequence = q
      <4>1. q - after \in 1..(L - m + 1)
        BY <1>0, <2>2
      <4>2. batch[q - after].sequence = q
        BY <1>0, <2>2, <2>6, <4>1
      <4> QED
        BY <2>2, <4>1, <4>2
    <3>2. ASSUME NEW i \in DOMAIN batch
          PROVE  batch[i].sequence \in (after + 1)..(next_sequence - 1)
      BY <1>0, <2>2, <2>6
    <3> QED
      BY <2>4, <3>1, <3>2
  <2>8. batch[L - m + 1] = events[L]
    <3>0. m \in 1..(L + 1) /\ L \in Nat
      BY <1>0, <2>2
    <3>1. L - m + 1 \in 1..(L - m + 1) /\ m + (L - m + 1) - 1 = L
      <4> HIDE DEF L, m
      <4> QED
        BY <2>5, <3>0
    <3>2. batch[L - m + 1] = events[m + (L - m + 1) - 1]
      <4> HIDE DEF m, L
      <4> QED
        BY <2>2, <3>1
    <3> QED
      BY <3>1, <3>2, Zenon
  <2>9. /\ Sequences(batch) \ Missed(after) = {q \in (after + 1)..(next_sequence - 1) : q >= first}
        /\ Missed(after) = {q \in (after + 1)..(next_sequence - 1) : q < first}
    BY <1>0, <2>2, <2>3, <2>7
  <2> QED
    BY <1>0, <2>2, <2>5, <2>8, <2>9 DEF batch
<1> QED
  BY <1>1, <1>2

(***************************************************************************)
(* `next_batch`: the reader takes the batch and moves to its end.          *)
(***************************************************************************)
LEMMA NextBatchKeeps ==
  ASSUME RegistryInv, StreamInv, NEW s \in Subscribers, NextBatch(s)
  PROVE  StreamInv'
<1> DEFINE after == cursor[s]
           batch == EventBatch(after)
           L     == Len(events)
           first == next_sequence - L
<1>0. /\ StreamTypeOK /\ ReaderInv(s)
      /\ after \in 0..(next_sequence - 1)
      /\ since[s] \in 0..after
  <2>1. next_sequence - 1 > after /\ after \in Nat /\ since[s] \in Nat
    BY DEF NextBatch, StreamInv, StreamTypeOK
  <2>2. since[s] <= after
    BY <2>1 DEF StreamInv, ReaderInv
  <2> QED
    BY <2>1, <2>2, EventsLemma DEF StreamInv
<1>1. /\ batch # <<>>
      /\ cursor' = [cursor EXCEPT ![s] = batch[Len(batch)].sequence]
      /\ delivered' = [delivered EXCEPT ![s] = delivered[s] \cup (Sequences(batch) \ Missed(after))]
      /\ reported' = [reported EXCEPT ![s] = reported[s] \cup Missed(after)]
      /\ last' = [last EXCEPT ![s] = batch[Len(batch)]]
      /\ UNCHANGED registryVars /\ since' = since
  BY DEF NextBatch, Missed
<1>2. /\ L > 0
      /\ batch[Len(batch)] = events[L]
      /\ Sequences(batch) \ Missed(after) = {q \in (after + 1)..(next_sequence - 1) : q >= first}
      /\ Missed(after) = {q \in (after + 1)..(next_sequence - 1) : q < first}
  BY <1>0, <1>1, BatchLemma
<1>3. /\ L \in Nat /\ DOMAIN events = 1..L
      /\ next_sequence \in Nat \ {0} /\ latest_generation \in Nat
      /\ events[L] \in Event
      /\ events[L].sequence = next_sequence - L + L - 1
      /\ events[L].snapshot_generation <= latest_generation
      /\ \A i \in 1..L : events[i].sequence = next_sequence - L + i - 1
  <2>1. /\ L \in Nat /\ DOMAIN events = 1..L
        /\ next_sequence \in Nat \ {0} /\ latest_generation \in Nat
        /\ \A i \in 1..L : /\ events[i] \in Event
                           /\ events[i].sequence = next_sequence - L + i - 1
                           /\ events[i].snapshot_generation <= latest_generation
    BY EventsLemma
  <2>2. L \in 1..L
    BY <1>2, <2>1
  <2> QED
    BY <2>1, <2>2, Zenon
<1>4. events[L].sequence = next_sequence - 1
  <2>1. next_sequence - L + L - 1 = next_sequence - 1
    BY <1>3
  <2> QED
    BY <1>3, <2>1, Zenon
<1> DEFINE new  == {q \in (after + 1)..(next_sequence - 1) : q >= first}
           gone == {q \in (after + 1)..(next_sequence - 1) : q < first}
<1>5. /\ cursor' = [cursor EXCEPT ![s] = next_sequence - 1]
      /\ delivered' = [delivered EXCEPT ![s] = delivered[s] \cup new]
      /\ reported' = [reported EXCEPT ![s] = reported[s] \cup gone]
      /\ last' = [last EXCEPT ![s] = events[L]]
  BY <1>1, <1>2, <1>4, Zenon
<1>6. UNCHANGED <<next_sequence, latest_generation, events>>
  BY <1>1 DEF registryVars
<1> HIDE DEF batch
<1>7. new \in SUBSET Nat /\ gone \in SUBSET Nat /\ next_sequence - 1 \in Nat
  BY <1>0, <1>3
<1>8. StreamTypeOK'
  <2> HIDE DEF new, gone, L
  <2>1. since' \in [Subscribers -> Nat]
    BY <1>0, <1>1 DEF StreamTypeOK
  <2> QED
    BY <1>0, <1>3, <1>5, <1>7, <2>1, ZenonT(60) DEF StreamTypeOK
<1>9. ASSUME NEW r \in Subscribers PROVE ReaderInv(r)'
  <2>1. CASE r # s
    <3>1. /\ cursor'[r] = cursor[r] /\ delivered'[r] = delivered[r]
          /\ reported'[r] = reported[r] /\ last'[r] = last[r] /\ since'[r] = since[r]
      BY <1>0, <1>1, <1>5, <2>1 DEF StreamTypeOK
    <3> QED
      BY <1>6, <3>1 DEF StreamInv, ReaderInv
  <2>2. CASE r = s
    <3>1. /\ cursor'[s] = next_sequence - 1
          /\ delivered'[s] = delivered[s] \cup new
          /\ reported'[s] = reported[s] \cup gone
          /\ last'[s] = events[L]
      BY <1>0, <1>5 DEF StreamTypeOK
    <3>2. /\ delivered[s] \cup reported[s] = (since[s] + 1)..after
          /\ delivered[s] \cap reported[s] = {}
          /\ reported[s] \subseteq 1..(first - 1)
      BY <1>0 DEF ReaderInv
    <3>3. new \cup gone = (after + 1)..(next_sequence - 1) /\ new \cap gone = {}
      BY <1>0, <1>3
    <3>4. ((since[s] + 1)..after) \cup ((after + 1)..(next_sequence - 1))
            = (since[s] + 1)..(next_sequence - 1)
      BY <1>0, <1>3
    <3>5. gone \subseteq 1..(first - 1)
      BY <1>0, <1>3
    <3>6. ((since[s] + 1)..after) \cap ((after + 1)..(next_sequence - 1)) = {}
      BY <1>0, <1>3
    <3> HIDE DEF new, gone
    <3>7. /\ delivered'[s] \cup reported'[s] = (since[s] + 1)..(next_sequence - 1)
          /\ delivered'[s] \cap reported'[s] = {}
          /\ reported'[s] \subseteq 1..(first - 1)
      <4> HIDE DEF after, first
      <4>1. (delivered[s] \cup new) \cup (reported[s] \cup gone)
              = (delivered[s] \cup reported[s]) \cup (new \cup gone)
        OBVIOUS
      <4>2. (delivered[s] \cup new) \cap (reported[s] \cup gone) = {}
        BY <3>2, <3>3, <3>6
      <4> QED
        BY <3>1, <3>2, <3>3, <3>4, <3>5, <4>1, <4>2
    <3>8. \A i \in DOMAIN events : ~(events[i].sequence > next_sequence - 1)
      BY <1>3
    <3>9. cursor'[s] \in since[s]..(next_sequence - 1)
      BY <1>0, <1>3, <3>1
    <3> QED
      BY <1>1, <1>3, <1>4, <1>6, <2>2, <3>1, <3>7, <3>8, <3>9 DEF ReaderInv
  <2> QED
    BY <2>1, <2>2
<1> QED
  BY <1>8, <1>9 DEF StreamInv

\* Every step of the registry publishes one event.
LEMMA PublishedOperation ==
  ASSUME RegistryInv, RegistryNext
  PROVE  \E operation \in Operation : PublishOperationEvent(operation)
<1>1. CASE \E expected \in Generations : Create(expected)
  <2>1. PICK expected \in Generations : Create(expected)
    BY <1>1
  <2> DEFINE operation == NewOperation(next_operation, expected)
  <2>2. PublishOperationEvent(operation)
    BY <2>1 DEF Create
  <2>3. operation \in Operation
    BY DEF NewOperation, Operation, OperationState, RegistryInv, RegistryTypeOK
  <2> QED
    BY <2>2, <2>3
<1>2. CASE \E i \in DOMAIN operations : \E operation \in Operation :
             Successor(operations[i], operation) /\ Update(i, operation)
  BY <1>2 DEF Update
<1> QED
  BY <1>1, <1>2, StepLemma

(***************************************************************************)
(* Whichever method changes an operation, and whatever the capacities: one *)
(* event goes to the end of the queue, with the next sequence and the      *)
(* generation then reached, and only the oldest event may leave.           *)
(***************************************************************************)
THEOREM AllChangesPublished == RegistrySpec => ChangesArePublished
<1>1. RegistryInv /\ RegistryInv' /\ [RegistryNext]_registryVars
        => [operations' # operations => Announced]_registryVars
  <2> SUFFICES ASSUME RegistryInv, RegistryInv', RegistryNext PROVE Announced
    OBVIOUS
  <2>1. PICK operation \in Operation : PublishOperationEvent(operation)
    BY PublishedOperation
  <2>2. /\ next_sequence' = next_sequence + 1
        /\ events'[Len(events')] =
             [sequence |-> next_sequence, snapshot_generation |-> latest_generation']
        /\ \A i \in 1..(Len(events') - 1) :
             events'[i] = events[i + Len(events) + 1 - Len(events')]
        /\ latest_generation <= latest_generation'
        /\ latest_generation \in Nat /\ latest_generation' \in Nat
    BY <2>1, EventsGrow
  <2>3. latest_generation' >= latest_generation
    BY <2>2
  <2>4. \A i \in DOMAIN operations' :
          OperationGeneration(operations'[i]) <= latest_generation'
    BY DEF RegistryInv, GenerationsAnnounced, OperationGeneration
  <2> QED
    BY <2>2, <2>3, <2>4, Zenon DEF Announced
<1> QED
  BY <1>1, RegistryInvariant, PTL DEF ChangesArePublished, RegistrySpec

LEMMA StreamStep ==
  ASSUME RegistryInv, StreamInv, [StreamNext]_readerVars
  PROVE  RegistryInv' /\ StreamInv'
<1>1. CASE RegistryNext /\ UNCHANGED streamVars
  <2>1. PICK operation \in Operation : PublishOperationEvent(operation)
    BY <1>1, PublishedOperation
  <2>2. RegistryInv'
    BY <1>1, RegistryStep
  <2>3. StreamTypeOK'
    BY <1>1 DEF StreamInv, StreamTypeOK, streamVars
  <2>4. ASSUME NEW s \in Subscribers PROVE ReaderInv(s)'
    BY <1>1, <2>1, <2>2, PublishKeepsReaders DEF StreamInv
  <2> QED
    BY <2>2, <2>3, <2>4 DEF StreamInv
<1>2. ASSUME NEW s \in Subscribers, NextBatch(s) PROVE RegistryInv' /\ StreamInv'
  <2>1. UNCHANGED registryVars
    BY <1>2 DEF NextBatch
  <2> QED
    BY <1>2, <2>1, NextBatchKeeps, RegistryStep
<1>3. CASE UNCHANGED readerVars
  <2>1. UNCHANGED registryVars /\ UNCHANGED streamVars
    BY <1>3 DEF readerVars
  <2>2. RegistryInv'
    BY <2>1, RegistryStep
  <2> QED
    BY <2>1, <2>2 DEF StreamInv, StreamTypeOK, ReaderInv, streamVars, registryVars
<1> QED
  BY <1>1, <1>2, <1>3 DEF StreamNext

\* The invariant of the registry and its readers.
THEOREM StreamInvariant == StreamSafety => [](RegistryInv /\ StreamInv)
<1>1. StreamInit => RegistryInv /\ StreamInv
  <2> SUFFICES ASSUME StreamInit PROVE RegistryInv /\ StreamInv
    OBVIOUS
  <2>1. RegistryInv
    BY RegistryStart DEF StreamInit
  <2>2. StreamTypeOK
    BY CursorAssumption DEF StreamInit, StreamTypeOK
  <2>3. ASSUME NEW s \in Subscribers PROVE ReaderInv(s)
    <3>1. (since[s] + 1)..since[s] = {}
      BY <2>2 DEF StreamTypeOK
    <3> QED
      BY <2>2, <3>1 DEF StreamInit, RegistryInit, ReaderInv, StreamTypeOK
  <2> QED
    BY <2>1, <2>2, <2>3 DEF StreamInv
<1>2. (RegistryInv /\ StreamInv) /\ [StreamNext]_readerVars => (RegistryInv /\ StreamInv)'
  BY StreamStep
<1> QED
  BY <1>1, <1>2, PTL DEF StreamSafety

(***************************************************************************)
(* No event is lost silently: whatever the capacity of the queue and       *)
(* however late a reader comes, `event_batch` delivers or reports every    *)
(* sequence between the cursor the reader brought and the one it has now,  *)
(* never both, and reports only what is gone.                              *)
(***************************************************************************)
THEOREM LossesReported == StreamSafety => []LossesAreReported
<1>1. RegistryInv /\ StreamInv => LossesAreReported
  <2> SUFFICES ASSUME RegistryInv, StreamInv, NEW s \in Subscribers
               PROVE  /\ delivered[s] \cup reported[s] = (since[s] + 1)..cursor[s]
                      /\ delivered[s] \cap reported[s] = {}
                      /\ \A i \in DOMAIN events : events[i].sequence \notin reported[s]
    BY DEF LossesAreReported
  <2>1. /\ Len(events) \in Nat /\ DOMAIN events = 1..Len(events)
        /\ next_sequence \in Nat
        /\ \A i \in 1..Len(events) : events[i].sequence = next_sequence - Len(events) + i - 1
    BY EventsLemma
  <2>2. ReaderInv(s)
    BY DEF StreamInv
  <2>3. ASSUME NEW i \in DOMAIN events
        PROVE  events[i].sequence \notin 1..(next_sequence - Len(events) - 1)
    BY <2>1
  <2> QED
    BY <2>2, <2>3 DEF ReaderInv
<1> QED
  BY <1>1, StreamInvariant, PTL

(***************************************************************************)
(* What a reader receives is contiguous in the sense of                    *)
(* `Event::is_contiguous_after`, inside a batch and across batches, except *)
(* that a StreamOverflow marker may jump ahead.                            *)
(***************************************************************************)
THEOREM StreamIsContiguous == StreamSafety => []ReadersSeeAContiguousStream
<1>1. RegistryInv /\ StreamInv => ReadersSeeAContiguousStream
  <2> DEFINE L     == Len(events)
             first == next_sequence - L
  <2> SUFFICES ASSUME RegistryInv, StreamInv, NEW s \in Subscribers,
                      EventBatch(cursor[s]) # <<>>
               PROVE  ContiguousBatch(EventBatch(cursor[s]), last[s], Overflowed(cursor[s]))
    BY DEF ReadersSeeAContiguousStream
  <2> DEFINE after == cursor[s]
             batch == EventBatch(after)
  <2>0. /\ StreamTypeOK /\ ReaderInv(s) /\ after \in 0..(next_sequence - 1)
    BY NothingAhead, EventsLemma DEF StreamInv, StreamTypeOK
  <2>1. L > 0 /\ events # <<>>
    BY <2>0, BatchLemma
  <2>2. /\ L \in Nat /\ DOMAIN events = 1..L
        /\ next_sequence \in Nat \ {0}
        /\ \A i \in 1..L :
             /\ events[i].sequence = next_sequence - L + i - 1
             /\ events[i].snapshot_generation \in Nat
             /\ i > 1 => events[i - 1].snapshot_generation <= events[i].snapshot_generation
    BY EventsLemma
  <2>3. ASSUME NEW i \in 2..L PROVE IsContiguousAfter(events[i], events[i - 1])
    <3>1. /\ events[i].sequence = first + i - 1
          /\ events[i - 1].sequence = first + (i - 1) - 1
          /\ events[i].snapshot_generation \in Nat
          /\ events[i - 1].snapshot_generation \in Nat
          /\ events[i - 1].snapshot_generation <= events[i].snapshot_generation
      <4>1. i \in 1..L /\ i - 1 \in 1..L /\ i > 1
        BY <2>2
      <4> QED
        BY <2>2, <4>1
    <3>2. first + i - 1 = (first + (i - 1) - 1) + 1
      BY <2>2
    <3> QED
      BY <3>1, <3>2 DEF IsContiguousAfter
  <2>4. events[1].sequence = first /\ events[1].snapshot_generation \in Nat
    <3>1. 1 \in 1..L /\ next_sequence - L + 1 - 1 = first
      BY <2>1, <2>2
    <3> QED
      BY <2>2, <3>1, Zenon
  <2>5. ASSUME last[s] # None
        PROVE  /\ last[s].sequence = after /\ last[s].snapshot_generation \in Nat
               /\ \A i \in 1..L : events[i].sequence > after =>
                    events[i].snapshot_generation >= last[s].snapshot_generation
    <3>1. last[s] \in Event
      BY <2>0, <2>5 DEF StreamTypeOK
    <3>2. last[s].snapshot_generation \in Generations \cup {0}
      BY <3>1 DEF Event
    <3>3. Generations \cup {0} \subseteq Nat
      BY GenerationAssumption
    <3>4. last[s].snapshot_generation \in Nat
      BY <3>2, <3>3, Zenon
    <3> QED
      BY <2>0, <2>2, <2>5, <3>4 DEF ReaderInv
  <2>6. CASE Overflowed(after)
    <3>1. /\ after + 1 < first
          /\ Len(batch) = L + 1
          /\ batch[1] = OverflowMarker
          /\ \A n \in 2..(L + 1) : batch[n] = events[n - 1]
      BY <2>0, <2>2, <2>6, OverflowedBatch
    <3>2. /\ OverflowMarker.sequence = first - 1
          /\ OverflowMarker.snapshot_generation = events[1].snapshot_generation
      BY <2>4 DEF OverflowMarker
    <3>3. ASSUME NEW n \in 2..(L + 1) PROVE IsContiguousAfter(batch[n], batch[n - 1])
      <4>1. CASE n = 2
        <5>1. batch[2] = events[1] /\ batch[2 - 1] = OverflowMarker
          BY <2>1, <2>2, <3>1
        <5>2. first = (first - 1) + 1
          BY <2>2
        <5>3. IsContiguousAfter(events[1], OverflowMarker)
          BY <2>4, <3>2, <5>2 DEF IsContiguousAfter
        <5> QED
          BY <4>1, <5>1, <5>3, Zenon
      <4>2. CASE n # 2
        <5>1. n - 1 \in 2..L /\ n - 1 \in 2..(L + 1) /\ n - 1 - 1 = (n - 1) - 1
          BY <2>2, <4>2
        <5>2. batch[n] = events[n - 1] /\ batch[n - 1] = events[(n - 1) - 1]
          BY <3>1, <5>1
        <5>3. IsContiguousAfter(events[n - 1], events[(n - 1) - 1])
          BY <2>3, <5>1
        <5> QED
          BY <5>2, <5>3, Zenon
      <4> QED
        BY <4>1, <4>2
    <3>4. ASSUME last[s] # None
          PROVE  /\ batch[1].sequence > last[s].sequence
                 /\ batch[1].snapshot_generation >= last[s].snapshot_generation
      <4>1. first - 1 > after /\ first > after /\ 1 \in 1..L
        BY <2>0, <2>1, <2>2, <3>1
      <4>2. events[1].snapshot_generation >= last[s].snapshot_generation
        BY <2>4, <2>5, <3>4, <4>1
      <4> QED
        BY <2>5, <3>1, <3>2, <3>4, <4>1, <4>2
    <3>5. \A i \in 2..Len(batch) : IsContiguousAfter(batch[i], batch[i - 1])
      BY <3>1, <3>3
    <3> QED
      BY <2>6, <3>4, <3>5, Zenon DEF ContiguousBatch
  <2>7. CASE ~Overflowed(after)
    <3> DEFINE m == after + 2 - first
    <3>1. /\ m \in 1..(L + 1)
          /\ Len(batch) = L - m + 1
          /\ \A n \in 1..(L - m + 1) : batch[n] = events[m + n - 1]
      BY <2>0, <2>1, <2>7, OrdinaryBatch
    <3>2. Len(batch) # 0
      BY <2>0, BatchLemma
    <3>3. m \in 1..L
      <4> HIDE DEF batch, m, L
      <4> QED
        BY <2>2, <3>1, <3>2
    <3>4. ASSUME NEW n \in 2..(L - m + 1) PROVE IsContiguousAfter(batch[n], batch[n - 1])
      <4>1. /\ n \in 1..(L - m + 1) /\ n - 1 \in 1..(L - m + 1)
            /\ m + n - 1 \in 2..L /\ m + (n - 1) - 1 = (m + n - 1) - 1
        <5> HIDE DEF batch, m, L
        <5> QED
          BY <2>2, <3>3
      <4>2. batch[n] = events[m + n - 1] /\ batch[n - 1] = events[m + (n - 1) - 1]
        <5> HIDE DEF batch, m, L
        <5> QED
          BY <3>1, <4>1
      <4>3. IsContiguousAfter(events[m + n - 1], events[(m + n - 1) - 1])
        <5> HIDE DEF m, L
        <5> QED
          BY <2>3, <4>1
      <4> QED
        BY <4>1, <4>2, <4>3, Zenon
    <3>5. ASSUME last[s] # None PROVE IsContiguousAfter(batch[1], last[s])
      <4>1. 1 \in 1..(L - m + 1) /\ m + 1 - 1 = m
        <5> HIDE DEF m, L
        <5> QED
          BY <2>2, <3>3
      <4>2. batch[1] = events[m]
        <5>1. batch[1] = events[m + 1 - 1]
          <6> HIDE DEF batch, m, L
          <6> QED
            BY <3>1, <4>1
        <5> QED
          BY <4>1, <5>1, Zenon
      <4>3. next_sequence - L + m - 1 = after + 1 /\ after + 1 > after
        BY <2>0, <2>2
      <4>4. events[m].sequence = after + 1
        <5>1. events[m].sequence = next_sequence - L + m - 1
          <6> HIDE DEF m, L
          <6> QED
            BY <2>2, <3>3
        <5> QED
          BY <4>3, <5>1, Zenon
      <4>5. events[m].snapshot_generation >= last[s].snapshot_generation
        <5> HIDE DEF m, L
        <5> QED
          BY <2>5, <3>3, <3>5, <4>3, <4>4
      <4> QED
        BY <2>5, <3>5, <4>2, <4>4, <4>5, Zenon DEF IsContiguousAfter
    <3>6. \A i \in 2..Len(batch) : IsContiguousAfter(batch[i], batch[i - 1])
      BY <3>1, <3>4
    <3> QED
      BY <3>5, <3>6, Zenon DEF ContiguousBatch
  <2> QED
    BY <2>6, <2>7
<1> QED
  BY <1>1, StreamInvariant, PTL

(***************************************************************************)
(* `publish` pushes after it has made room, so that once anything has been *)
(* published the queue is never empty: the newest event is retained.       *)
(***************************************************************************)
NewestIsRetained == next_sequence = 1 \/ Len(events) > 0

(***************************************************************************)
(* The predicate of the condition variable is the right one: a reader that *)
(* is behind, however far the queue ran ahead of it, finds a batch, and    *)
(* the batch ends with the newest event.                                   *)
(***************************************************************************)
WaitersAreServed ==
  \A s \in Subscribers :
    next_sequence - 1 > cursor[s] =>
      LET batch == EventBatch(cursor[s])
      IN  batch # <<>> /\ batch[Len(batch)].sequence = next_sequence - 1

(***************************************************************************)
(* A reader's cursor never goes back, and one `next_batch` takes it to the *)
(* end of the stream: how far it was behind does not matter.               *)
(***************************************************************************)
OneBatchCatchesUp ==
  [][\A s \in Subscribers :
       \/ cursor'[s] = cursor[s]
       \/ cursor'[s] > cursor[s] /\ cursor'[s] = next_sequence' - 1]_readerVars

\* Each step of the registry pushes an event; readers leave the queue alone.
LEMMA NewestStays ==
  ASSUME RegistryInv, NewestIsRetained, [StreamNext]_readerVars
  PROVE  NewestIsRetained'
<1>1. CASE RegistryNext
  <2>1. PICK operation \in Operation : PublishOperationEvent(operation)
    BY <1>1, PublishedOperation
  <2>2. Len(events') \in 1..(Len(events) + 1)
    BY <2>1, EventsGrow
  <2>3. Len(events) \in Nat
    BY EventsLemma
  <2> QED
    BY <2>2, <2>3 DEF NewestIsRetained
<1>2. CASE UNCHANGED registryVars
  BY <1>2 DEF NewestIsRetained, registryVars
<1> QED
  BY <1>1, <1>2 DEF StreamNext, NextBatch, readerVars

\* The batch of a reader that is behind.
LEMMA BatchReachesEnd ==
  ASSUME RegistryInv, NewestIsRetained,
         NEW after \in 0..(next_sequence - 1), next_sequence - 1 > after
  PROVE  LET batch == EventBatch(after)
         IN  batch # <<>> /\ batch[Len(batch)].sequence = next_sequence - 1
<1> DEFINE L     == Len(events)
           batch == EventBatch(after)
<1>0. /\ events \in Seq(Event) /\ L \in Nat /\ DOMAIN events = 1..L
      /\ next_sequence \in Nat \ {0} /\ after \in Nat
      /\ \A i \in 1..L : events[i].sequence = next_sequence - L + i - 1
  BY EventsLemma
<1>1. L > 0 /\ events # <<>>
  BY <1>0 DEF NewestIsRetained
<1>2. Len(batch) # 0
  <2>1. CASE Overflowed(after)
    <3>1. Len(batch) = L + 1
      BY <1>0, <2>1, OverflowedBatch
    <3> QED
      BY <1>0, <3>1
  <2>2. CASE ~Overflowed(after)
    <3>1. Len(batch) = L - (after + 2 - (next_sequence - L)) + 1
      BY <1>1, <2>2, OrdinaryBatch
    <3> HIDE DEF batch, L
    <3> QED
      BY <1>0, <3>1
  <2> QED
    BY <2>1, <2>2
<1>3. batch # <<>>
  <2> HIDE DEF batch
  <2>1. Len(<<>>) = 0
    OBVIOUS
  <2> QED
    BY <1>2, <2>1, Zenon
<1>4. batch[Len(batch)] = events[L]
  BY <1>3, BatchLemma
<1>5. events[L].sequence = next_sequence - 1
  BY <1>0, <1>1
<1> QED
  BY <1>3, <1>4, <1>5, Zenon

\* The strengthening in force beside the two invariants.
LEMMA NewestInvariant == StreamSafety => [](RegistryInv /\ StreamInv /\ NewestIsRetained)
<1>1. StreamInit => NewestIsRetained
  BY DEF StreamInit, RegistryInit, NewestIsRetained
<1>2. RegistryInv /\ NewestIsRetained /\ [StreamNext]_readerVars => NewestIsRetained'
  BY NewestStays
<1> QED
  BY <1>1, <1>2, StreamInvariant, PTL DEF StreamSafety

(***************************************************************************)
(* The condition variable lets in exactly the readers `event_batch` has    *)
(* something for: for any capacity and any lag, whoever is behind gets a   *)
(* batch that reaches the newest event.                                    *)
(***************************************************************************)
THEOREM ReadersAreServed == StreamSafety => []WaitersAreServed
<1>1. RegistryInv /\ StreamInv /\ NewestIsRetained => WaitersAreServed
  <2> SUFFICES ASSUME RegistryInv, StreamInv, NewestIsRetained, NEW s \in Subscribers,
                      next_sequence - 1 > cursor[s]
               PROVE  LET batch == EventBatch(cursor[s])
                      IN  batch # <<>> /\ batch[Len(batch)].sequence = next_sequence - 1
    BY DEF WaitersAreServed
  <2>1. cursor[s] \in 0..(next_sequence - 1)
    BY EventsLemma DEF StreamInv, StreamTypeOK
  <2> QED
    BY <2>1, BatchReachesEnd
<1> QED
  BY <1>1, NewestInvariant, PTL

(***************************************************************************)
(* One `next_batch` is enough: a reader's cursor only moves to the end of  *)
(* the stream, whatever was published or evicted since its last call.      *)
(***************************************************************************)
THEOREM ReadersCatchUpAtOnce == StreamSafety => OneBatchCatchesUp
<1>1. RegistryInv /\ StreamInv /\ NewestIsRetained /\ [StreamNext]_readerVars
        => [\A s \in Subscribers :
              \/ cursor'[s] = cursor[s]
              \/ cursor'[s] > cursor[s] /\ cursor'[s] = next_sequence' - 1]_readerVars
  <2> SUFFICES ASSUME RegistryInv, StreamInv, NewestIsRetained, StreamNext,
                      NEW s \in Subscribers, cursor'[s] # cursor[s]
               PROVE  cursor'[s] > cursor[s] /\ cursor'[s] = next_sequence' - 1
    OBVIOUS
  <2>1. PICK r \in Subscribers : NextBatch(r)
    BY DEF StreamNext, streamVars
  <2> DEFINE batch == EventBatch(cursor[r])
  <2>2. /\ next_sequence - 1 > cursor[r]
        /\ cursor' = [cursor EXCEPT ![r] = batch[Len(batch)].sequence]
        /\ next_sequence' = next_sequence
    BY <2>1 DEF NextBatch, registryVars
  <2>3. cursor[r] \in 0..(next_sequence - 1) /\ cursor \in [Subscribers -> Nat]
    BY <2>2, EventsLemma DEF StreamInv, StreamTypeOK
  <2>4. batch[Len(batch)].sequence = next_sequence - 1
    BY <2>2, <2>3, BatchReachesEnd
  <2> HIDE DEF batch
  <2>5. cursor' = [cursor EXCEPT ![r] = next_sequence - 1]
    BY <2>2, <2>4, Zenon
  <2>6. r = s
    BY <2>3, <2>5
  <2>7. cursor'[s] = next_sequence - 1
    BY <2>3, <2>5, <2>6
  <2> QED
    BY <2>2, <2>6, <2>7
<1> QED
  BY <1>1, NewestInvariant, PTL DEF StreamSafety, OneBatchCatchesUp

(***************************************************************************)
(* Readers leave the registry alone: everything proved of RegistrySpec     *)
(* holds while subscribers come, lag and are told of their losses.         *)
(***************************************************************************)
THEOREM ReadersLeaveRegistry == StreamSafety => RegistrySpec
<1>1. StreamInit => RegistryInit
  BY DEF StreamInit
<1>2. [StreamNext]_readerVars => [RegistryNext]_registryVars
  <2>1. ASSUME NEW s \in Subscribers, NextBatch(s) PROVE UNCHANGED registryVars
    BY <2>1, Zenon DEF NextBatch
  <2>2. ASSUME UNCHANGED readerVars PROVE UNCHANGED registryVars
    BY <2>2 DEF readerVars
  <2> QED
    BY <2>1, <2>2 DEF StreamNext
<1> QED
  BY <1>1, <1>2, PTL DEF StreamSafety, RegistrySpec

-----------------------------------------------------------------------------
(* The registry implements OperationLedger.                                *)

\* Ids start at one, and the bound on accepted operations is kept.
IdsInRange ==
  /\ next_operation - Len(operations) >= 1
  /\ next_operation - 1 <= MaxOperations

Lowest == next_operation - Len(operations)

(***************************************************************************)
(* What an id stands for: it is unused from `next_operation` on, forgotten *)
(* below the oldest retained one, and otherwise names its record.          *)
(***************************************************************************)
IdsNameRecords ==
  /\ Len(operations) \in Nat /\ DOMAIN operations = 1..Len(operations)
  /\ next_operation \in Nat \ {0} /\ Lowest \in Nat \ {0}
  /\ \A i \in 1..Len(operations) :
       /\ operations[i] \in Operation
       /\ operations[i].id = Lowest + i - 1
  /\ \A id \in 1..MaxOperations :
       /\ id >= next_operation => StatusOf(id) = "Unused"
       /\ id \in Lowest..(next_operation - 1) =>
            /\ id - Lowest + 1 \in 1..Len(operations)
            /\ StatusOf(id) = operations[id - Lowest + 1].state
       /\ id < Lowest => StatusOf(id) = "Forgotten"

LEMMA StatusLemma == RegistryInv /\ IdsInRange => IdsNameRecords
<1> SUFFICES ASSUME RegistryInv, IdsInRange PROVE IdsNameRecords
  OBVIOUS
<1> DEFINE L == Len(operations)
<1>1. /\ L \in Nat /\ DOMAIN operations = 1..L
      /\ next_operation \in Nat \ {0}
      /\ \A i \in 1..L : operations[i] \in Operation
  BY DEF RegistryInv, RegistryTypeOK
<1>0. Lowest = next_operation - L /\ next_operation - L >= 1
  BY DEF IdsInRange, Lowest
<1>3. \A i \in 1..L : operations[i].id = Lowest + i - 1
  BY <1>1 DEF RegistryInv, NewestOperationsRetained, Lowest
<1>7. L = Len(operations)
  OBVIOUS
<1> HIDE DEF L
<1>2. Lowest \in Nat \ {0}
  BY <1>0, <1>1
<1>4. ASSUME NEW id \in 1..MaxOperations, id >= next_operation
      PROVE  StatusOf(id) = "Unused"
  BY <1>4 DEF StatusOf
<1>5. ASSUME NEW id \in 1..MaxOperations, id \in Lowest..(next_operation - 1)
      PROVE  /\ id - Lowest + 1 \in 1..L
             /\ StatusOf(id) = operations[id - Lowest + 1].state
  <2> DEFINE k == id - Lowest + 1
  <2>1. k \in 1..L /\ Lowest + k - 1 = id
    BY <1>0, <1>1, <1>2, <1>5
  <2>2. operations[k].id = id
    BY <1>3, <2>1, Zenon
  <2>3. ASSUME NEW i \in 1..L, operations[i].id = id PROVE i = k
    <3>1. Lowest + i - 1 = id
      BY <1>3, <2>3
    <3> QED
      BY <1>1, <1>2, <3>1
  <2> HIDE DEF k
  <2>4. (CHOOSE i \in DOMAIN operations : operations[i].id = id) = k
    BY <1>1, <2>1, <2>2, <2>3
  <2>5. Retained(id) /\ ~(id >= next_operation)
    BY <1>1, <1>2, <1>5, <2>1, <2>2 DEF Retained
  <2>6. StatusOf(id) = operations[k].state
    BY <2>4, <2>5, Zenon DEF StatusOf
  <2> QED
    BY <2>1, <2>6 DEF k
<1>6. ASSUME NEW id \in 1..MaxOperations, id < Lowest
      PROVE  StatusOf(id) = "Forgotten"
  <2>1. ASSUME NEW i \in 1..L PROVE operations[i].id # id
    <3>1. Lowest + i - 1 # id
      BY <1>1, <1>2, <1>6
    <3> QED
      BY <1>3, <3>1, Zenon
  <2>2. ~Retained(id)
    BY <1>1, <2>1, Zenon DEF Retained
  <2>3. ~(id >= next_operation)
    BY <1>0, <1>1, <1>6
  <2> QED
    BY <2>2, <2>3, Zenon DEF StatusOf
<1> QED
  BY <1>1, <1>2, <1>3, <1>4, <1>5, <1>6, <1>7 DEF IdsNameRecords

(***************************************************************************)
(* Which ids the ledger takes for unused and for known.                    *)
(***************************************************************************)
LEMMA LedgerSets ==
  ASSUME RegistryInv, IdsInRange
  PROVE  /\ Ledger!Unused = next_operation..MaxOperations
         /\ Ledger!Known = Lowest..(next_operation - 1)
         /\ Cardinality(Ledger!Known) = Len(operations)
<1>1. /\ Len(operations) \in Nat /\ next_operation \in Nat \ {0} /\ Lowest \in Nat \ {0}
      /\ next_operation - 1 <= MaxOperations /\ MaxOperations \in Nat
  BY StatusLemma, BoundAssumption DEF IdsInRange, IdsNameRecords
<1>2. ASSUME NEW id \in 1..MaxOperations
      PROVE  /\ StatusOf(id) = "Unused" <=> id >= next_operation
             /\ StatusOf(id) \notin {"Unused", "Forgotten"}
                  <=> id \in Lowest..(next_operation - 1)
  <2>1. CASE id >= next_operation
    <3>1. StatusOf(id) = "Unused"
      BY <2>1, StatusLemma DEF IdsNameRecords
    <3> QED
      BY <1>1, <2>1, <3>1
  <2>2. CASE id \in Lowest..(next_operation - 1)
    <3>1. PICK k \in 1..Len(operations) :
            StatusOf(id) = operations[k].state /\ operations[k] \in Operation
      BY <2>2, StatusLemma, ZenonT(60) DEF IdsNameRecords
    <3>2. StatusOf(id) \in OperationState
      BY <3>1 DEF Operation
    <3>3. StatusOf(id) \notin {"Unused", "Forgotten"}
      BY <3>2 DEF OperationState, Terminal
    <3> QED
      BY <1>1, <2>2, <3>3
  <2>3. CASE id < Lowest
    <3>1. StatusOf(id) = "Forgotten"
      BY <2>3, StatusLemma DEF IdsNameRecords
    <3> QED
      BY <1>1, <2>3, <3>1 DEF Lowest
  <2> QED
    BY <1>1, <2>1, <2>2, <2>3
<1>3. /\ Ledger!Unused = {id \in 1..MaxOperations : StatusOf(id) = "Unused"}
      /\ Ledger!Known = {id \in 1..MaxOperations : StatusOf(id) \notin {"Unused", "Forgotten"}}
  BY DEF Ledger!Unused, Ledger!Known
<1>4. Ledger!Unused = next_operation..MaxOperations
  BY <1>1, <1>2, <1>3
<1>5. Ledger!Known = Lowest..(next_operation - 1)
  BY <1>1, <1>2, <1>3
<1>6. Cardinality(Lowest..(next_operation - 1)) = Len(operations)
  <2>1. Lowest \in Int /\ next_operation - 1 \in Int
    BY <1>1
  <2>2. Cardinality(Lowest..(next_operation - 1)) =
          IF Lowest > next_operation - 1 THEN 0 ELSE (next_operation - 1) - Lowest + 1
    BY <2>1, FS_Interval
  <2> QED
    BY <1>1, <2>2 DEF Lowest
<1> QED
  BY <1>4, <1>5, <1>6

(***************************************************************************)
(* `create` is the ledger's Accept of the next id; at capacity it forgets  *)
(* the oldest known operation and no other.                                *)
(***************************************************************************)
LEMMA CreateAccepts ==
  ASSUME RegistryInv, IdsInRange, RegistryInv', IdsInRange',
         NEW expected \in Generations, Create(expected)
  PROVE  Ledger!Accept(next_operation)
<1> DEFINE n == next_operation  L == Len(operations)  lo == Lowest
           m == next_operation'  K == Len(operations')  hi == Lowest'
           Ids == 1..MaxOperations
<1>1. IdsNameRecords /\ IdsNameRecords'
  <2>1. IdsNameRecords
    BY StatusLemma
  <2>2. (RegistryInv /\ IdsInRange => IdsNameRecords)'
    BY StatusLemma, PTL
  <2> QED
    BY <2>1, <2>2
<1>2. /\ L \in Nat /\ n \in Nat \ {0} /\ lo \in Nat \ {0} /\ lo = n - L
      /\ K \in Nat /\ m \in Nat \ {0} /\ hi \in Nat \ {0} /\ hi = m - K
  BY <1>1, ZenonT(60) DEF IdsNameRecords, Lowest
<1>3. /\ n <= MaxOperations /\ m = n + 1 /\ MaxOperations \in Nat
      /\ operations' = PushBack(operations, NewOperation(n, expected), OperationCapacity)
  BY BoundAssumption DEF Create
<1>4. PICK d \in {0, 1} :
        /\ K = L + 1 - d
        /\ \A k \in 1..(K - 1) : operations'[k] = operations[k + d]
  BY CreateKeeps
<1>5. operations'[K].state = "Queued" /\ (d = 1 <=> L = OperationCapacity)
  <2>1. /\ operations \in Seq(Operation) /\ L <= OperationCapacity
        /\ OperationCapacity \in Nat \ {0} /\ operations' \in Seq(Operation)
        /\ K <= OperationCapacity
    BY CapacityAssumption DEF RegistryInv, RegistryTypeOK
  <2>2. NewOperation(n, expected).state = "Queued"
    BY DEF NewOperation
  <2>3. CASE L = OperationCapacity
    <3>1. operations' = Append(Tail(operations), NewOperation(n, expected))
      BY <1>3, <2>3 DEF PushBack
    <3>2. Tail(operations) \in Seq(Operation) /\ Len(Tail(operations)) = L - 1
      BY <2>1, <2>3
    <3>3. K = L /\ operations'[K] = NewOperation(n, expected)
      BY <2>1, <3>1, <3>2
    <3>4. d = 1
      <4> HIDE DEF K, L
      <4> QED
        BY <1>2, <1>4, <3>3
    <3> QED
      BY <2>2, <2>3, <3>3, <3>4, Zenon
  <2>4. CASE L # OperationCapacity
    <3>1. operations' = Append(operations, NewOperation(n, expected))
      BY <1>3, <2>4 DEF PushBack
    <3>2. K = L + 1 /\ operations'[K] = NewOperation(n, expected)
      BY <2>1, <3>1
    <3> QED
      BY <1>2, <1>4, <2>2, <2>4, <3>2
  <2> QED
    BY <2>3, <2>4
<1>6. /\ Ledger!Unused = n..MaxOperations
      /\ Ledger!Known = lo..(n - 1)
      /\ Cardinality(Ledger!Known) = L
  BY LedgerSets
<1>7. hi = lo + d
  <2> HIDE DEF n, L, lo, m, K, hi
  <2> QED
    BY <1>2, <1>3, <1>4
<1>8. ASSUME NEW id \in Ids PROVE
        /\ id >= n => StatusOf(id) = "Unused"
        /\ id \in lo..(n - 1) => StatusOf(id) = operations[id - lo + 1].state
        /\ id < lo => StatusOf(id) = "Forgotten"
        /\ id >= m => StatusOf(id)' = "Unused"
        /\ id \in hi..(m - 1) => StatusOf(id)' = operations'[id - hi + 1].state
        /\ id < hi => StatusOf(id)' = "Forgotten"
  BY <1>1, ZenonT(60) DEF IdsNameRecords
<1>9. ASSUME NEW id \in Ids
      PROVE  StatusOf(id)' =
               IF id = n THEN "Queued"
               ELSE IF Cardinality(Ledger!Known) = OperationCapacity /\ Ledger!Oldest(id)
                 THEN "Forgotten" ELSE StatusOf(id)
  <2>0. /\ Ledger!Oldest(id) <=> id \in lo..(n - 1) /\ \A other \in lo..(n - 1) : id <= other
        /\ id \in Nat
    BY <1>6 DEF Ledger!Oldest
  <2> HIDE DEF n, L, lo, m, K, hi
  <2>1. CASE id = n
    <3>0. K >= 1
      BY <1>2, <1>4, <1>5, CapacityAssumption
    <3>1. id \in hi..(m - 1) /\ id - hi + 1 = K
      BY <1>2, <1>3, <2>1, <3>0
    <3> QED
      BY <1>5, <1>8, <2>1, <3>1
  <2>2. CASE id > n
    <3>1. id >= n /\ id >= m /\ id # n /\ id \notin lo..(n - 1)
      BY <1>2, <1>3, <2>2
    <3> QED
      BY <1>8, <2>0, <3>1
  <2>3. CASE id < n /\ id >= hi
    <3>1. /\ id \in lo..(n - 1) /\ id \in hi..(m - 1) /\ id # n
          /\ id - hi + 1 \in 1..(K - 1) /\ (id - hi + 1) + d = id - lo + 1
      BY <1>2, <1>3, <1>4, <1>7, <2>0, <2>3
    <3>2. operations'[id - hi + 1] = operations[id - lo + 1]
      BY <1>4, <3>1
    <3>3. StatusOf(id)' = StatusOf(id)
      BY <1>8, <3>1, <3>2
    <3>4. ~(L = OperationCapacity /\ Ledger!Oldest(id))
      <4> SUFFICES ASSUME L = OperationCapacity, Ledger!Oldest(id) PROVE FALSE
        OBVIOUS
      <4>1. lo \in lo..(n - 1) /\ lo < id
        BY <1>2, <1>5, <1>7, <2>3, <3>1
      <4>2. id <= lo
        BY <2>0, <4>1
      <4> QED
        BY <1>2, <2>0, <4>1, <4>2
    <3> QED
      BY <1>6, <3>1, <3>3, <3>4, Zenon
  <2>4. CASE id < hi /\ id >= lo
    <3>0. L >= 1
      BY <1>2, <1>4, <1>5, <1>7, <2>4, CapacityAssumption
    <3>1. id = lo /\ d = 1 /\ id # n /\ id \in lo..(n - 1)
      BY <1>2, <1>4, <1>7, <2>0, <2>4, <3>0
    <3>2. L = OperationCapacity /\ Ledger!Oldest(id)
      BY <1>2, <1>5, <2>0, <3>1
    <3> QED
      BY <1>6, <1>8, <2>4, <3>1, <3>2
  <2>5. CASE id < lo
    <3>1. id < hi /\ id # n /\ id \notin lo..(n - 1)
      BY <1>2, <1>3, <1>4, <1>7, <2>0, <2>5
    <3> QED
      BY <1>8, <2>0, <2>5, <3>1
  <2>6. id = n \/ id > n \/ (id < n /\ id >= hi) \/ (id < hi /\ id >= lo) \/ id < lo
    BY <1>2, <1>4, <1>7, <2>0
  <2> QED
    BY <2>1, <2>2, <2>3, <2>4, <2>5, <2>6, Zenon
<1>10. n \in Ledger!Unused /\ \A other \in Ledger!Unused : n <= other
  BY <1>2, <1>3, <1>6
<1>11. [id \in Ids |-> StatusOf(id)]' = [id \in Ids |->
         IF id = n THEN "Queued"
         ELSE IF Cardinality(Ledger!Known) = OperationCapacity /\ Ledger!Oldest(id)
           THEN "Forgotten" ELSE [i \in Ids |-> StatusOf(i)][id]]
  BY <1>9
<1>12. Ledger!Cardinality(Ledger!Known) = Cardinality(Ledger!Known)
  BY DEF Ledger!Cardinality, Cardinality
<1> QED
  BY <1>10, <1>11, <1>12 DEF Ledger!Accept

(***************************************************************************)
(* `update` changes the status of the one operation it finds: to running   *)
(* from queued (Begin), or to an outcome from a state that is not terminal *)
(* (Conclude); progress alone leaves every status as it was.               *)
(***************************************************************************)
LEMMA UpdateIsLedgerStep ==
  ASSUME RegistryInv, IdsInRange, RegistryInv', IdsInRange',
         NEW k \in DOMAIN operations, NEW operation \in Operation,
         Successor(operations[k], operation), Update(k, operation)
  PROVE  \/ \E id \in 1..MaxOperations : Ledger!Begin(id) \/ Ledger!Conclude(id)
         \/ [id \in 1..MaxOperations |-> StatusOf(id)]' =
              [id \in 1..MaxOperations |-> StatusOf(id)]
<1> DEFINE n == next_operation  L == Len(operations)  lo == Lowest
           Ids == 1..MaxOperations
           status == [id \in Ids |-> StatusOf(id)]
<1>1. IdsNameRecords /\ IdsNameRecords'
  <2>1. IdsNameRecords
    BY StatusLemma
  <2>2. (RegistryInv /\ IdsInRange => IdsNameRecords)'
    BY StatusLemma, PTL
  <2> QED
    BY <2>1, <2>2
<1>2. /\ L \in Nat /\ n \in Nat \ {0} /\ lo \in Nat \ {0} /\ lo = n - L
      /\ k \in 1..L /\ n - 1 <= MaxOperations /\ MaxOperations \in Nat
  BY <1>1, BoundAssumption, ZenonT(60) DEF IdsNameRecords, Lowest, IdsInRange
<1>3. /\ operations' = [operations EXCEPT ![k] = operation]
      /\ next_operation' = n /\ Len(operations') = L
  BY DEF Update, RegistryInv, RegistryTypeOK
<1>4. Lowest' = lo
  BY <1>3 DEF Lowest
<1>5. ASSUME NEW id \in Ids PROVE
        /\ id >= n => StatusOf(id) = "Unused" /\ StatusOf(id)' = "Unused"
        /\ id \in lo..(n - 1) =>
             /\ id - lo + 1 \in 1..L
             /\ StatusOf(id) = operations[id - lo + 1].state
             /\ StatusOf(id)' = operations'[id - lo + 1].state
        /\ id < lo => StatusOf(id) = "Forgotten" /\ StatusOf(id)' = "Forgotten"
  BY <1>1, <1>3, <1>4 DEF IdsNameRecords
<1>6. DOMAIN operations = 1..L
  BY <1>1 DEF IdsNameRecords
<1>7. PICK target \in Ids : target \in lo..(n - 1) /\ target - lo + 1 = k
  <2> HIDE DEF n, L, lo
  <2>1. lo + k - 1 \in Ids /\ lo + k - 1 \in lo..(n - 1) /\ (lo + k - 1) - lo + 1 = k
    BY <1>2
  <2> QED
    BY <2>1
<1>8. StatusOf(target) = operations[k].state /\ StatusOf(target)' = operation.state
  BY <1>3, <1>5, <1>6, <1>7
<1>9. ASSUME NEW id \in Ids, id # target PROVE StatusOf(id)' = StatusOf(id)
  <2>1. CASE id \in lo..(n - 1)
    <3>1. id - lo + 1 \in 1..L /\ id - lo + 1 # k
      <4>1. id - lo + 1 \in 1..L
        BY <1>5, <2>1
      <4> HIDE DEF n, L, lo
      <4> QED
        BY <1>2, <1>7, <1>9, <4>1
    <3>2. operations'[id - lo + 1] = operations[id - lo + 1]
      BY <1>3, <1>6, <3>1
    <3> QED
      BY <1>5, <2>1, <3>2
  <2>2. CASE id \notin lo..(n - 1)
    <3>1. id >= n \/ id < lo
      <4> HIDE DEF n, L, lo
      <4> QED
        BY <1>2, <2>2
    <3> QED
      BY <1>5, <3>1
  <2> QED
    BY <2>1, <2>2
<1>10. status' = [status EXCEPT ![target] = operation.state] /\ status[target] = operations[k].state
  <2>1. status' = [id \in Ids |-> StatusOf(id)']
    OBVIOUS
  <2> QED
    BY <1>7, <1>8, <1>9, <2>1, ZenonT(60)
<1>11. /\ operations[k].state \in {"Queued", "Running"}
       /\ operation.state = "Running" \/ operation.state \in Terminal
       /\ operation.state = "Running" => operations[k].state \in {"Queued", "Running"}
  <2>1. operations[k] \in Operation
    BY <1>1, <1>6 DEF IdsNameRecords
  <2> QED
    BY <2>1 DEF Successor, Operation, OperationState, Terminal
<1>12. CASE operation.state \in Terminal
  <2>1. operation.state \in Ledger!Outcomes
    BY <1>12 DEF Ledger!Outcomes, Terminal
  <2>2. Ledger!Conclude(target)
    BY <1>10, <1>11, <2>1, ZenonT(60) DEF Ledger!Conclude
  <2> QED
    BY <1>7, <2>2
<1>13. CASE operation.state = "Running" /\ operations[k].state = "Queued"
  <2>1. Ledger!Begin(target)
    BY <1>10, <1>13 DEF Ledger!Begin
  <2> QED
    BY <1>7, <2>1
<1>14. CASE operation.state = "Running" /\ operations[k].state = "Running"
  BY <1>7, <1>8, <1>9, <1>14
<1> QED
  BY <1>11, <1>12, <1>13, <1>14

(***************************************************************************)
(* Ids start at one and stay within the bound on accepted operations.      *)
(***************************************************************************)
LEMMA IdsStayInRange == RegistrySpec => []IdsInRange
<1>1. RegistryInit => IdsInRange
  BY BoundAssumption DEF RegistryInit, IdsInRange
<1>2. ASSUME RegistryInv, RegistryInv', IdsInRange, RegistryNext
      PROVE  IdsInRange'
  <2>0. /\ next_operation \in Nat /\ Len(operations) \in Nat /\ MaxOperations \in Nat
        /\ next_operation - Len(operations) >= 1 /\ next_operation - 1 <= MaxOperations
    BY <1>2, BoundAssumption DEF RegistryInv, RegistryTypeOK, IdsInRange
  <2>1. CASE \E expected \in Generations : Create(expected)
    <3>1. PICK expected \in Generations : Create(expected)
      BY <2>1
    <3>2. PICK d \in {0, 1} : Len(operations') = Len(operations) + 1 - d
      BY <1>2, <3>1, CreateKeeps
    <3>3. next_operation' = next_operation + 1 /\ next_operation <= MaxOperations
      BY <3>1 DEF Create
    <3>4. next_operation' - Len(operations') >= 1 /\ next_operation' - 1 <= MaxOperations
      <4> DEFINE L == Len(operations)  K == Len(operations')
      <4>1. L \in Nat /\ next_operation - L >= 1 /\ K = L + 1 - d
        BY <2>0, <3>2
      <4> HIDE DEF L, K
      <4>2. next_operation' - K >= 1
        BY <2>0, <3>3, <4>1
      <4> QED
        BY <2>0, <3>3, <4>2 DEF K
    <3> QED
      BY <3>4 DEF IdsInRange
  <2>2. CASE \E k \in DOMAIN operations : \E operation \in Operation :
               Successor(operations[k], operation) /\ Update(k, operation)
    <3>1. next_operation' = next_operation /\ Len(operations') = Len(operations)
      BY <1>2, <2>2 DEF Update, RegistryInv, RegistryTypeOK
    <3> QED
      BY <1>2, <3>1 DEF IdsInRange
  <2> QED
    BY <1>2, <2>1, <2>2, StepLemma
<1>3. IdsInRange /\ UNCHANGED registryVars => IdsInRange'
  BY DEF IdsInRange, registryVars
<1> QED
  BY <1>1, <1>2, <1>3, RegistryInvariant, PTL DEF RegistrySpec

(***************************************************************************)
(* The registry of operations.rs implements the ledger: whoever holds an   *)
(* id sees its operation accepted in order, taken from queued to running   *)
(* to one outcome, and forgotten only as the oldest of a full history.     *)
(***************************************************************************)
THEOREM RegistryImplementsLedger == RegistrySpec => ImplementsLedger
<1> DEFINE status == [id \in 1..MaxOperations |-> StatusOf(id)]
<1>1. RegistryInit => Ledger!Init
  <2> SUFFICES ASSUME RegistryInit PROVE Ledger!Init
    OBVIOUS
  <2>1. \A id \in 1..MaxOperations : StatusOf(id) = "Unused"
    BY DEF RegistryInit, StatusOf
  <2> QED
    BY <2>1 DEF Ledger!Init
<1>2. RegistryInv /\ RegistryInv' /\ IdsInRange /\ IdsInRange' /\ [RegistryNext]_registryVars
        => [Ledger!Next]_status
  <2> SUFFICES ASSUME RegistryInv, RegistryInv', IdsInRange, IdsInRange',
                      [RegistryNext]_registryVars
               PROVE  [Ledger!Next]_status
    OBVIOUS
  <2>1. CASE \E expected \in Generations : Create(expected)
    <3>1. PICK expected \in Generations : Create(expected)
      BY <2>1
    <3>2. next_operation \in 1..MaxOperations
      <4>1. next_operation \in Nat \ {0} /\ next_operation <= MaxOperations
        BY <3>1 DEF Create, RegistryInv, RegistryTypeOK
      <4> QED
        BY <4>1, BoundAssumption
    <3>3. Ledger!Accept(next_operation)
      BY <3>1, CreateAccepts
    <3> QED
      BY <3>2, <3>3, Zenon DEF Ledger!Next
  <2>2. CASE \E k \in DOMAIN operations : \E operation \in Operation :
               Successor(operations[k], operation) /\ Update(k, operation)
    <3>1. PICK k \in DOMAIN operations, operation \in Operation :
            Successor(operations[k], operation) /\ Update(k, operation)
      BY <2>2
    <3>2. \/ \E id \in 1..MaxOperations : Ledger!Begin(id) \/ Ledger!Conclude(id)
          \/ status' = status
      BY <3>1, UpdateIsLedgerStep
    <3> QED
      BY <3>2, Zenon DEF Ledger!Next
  <2>3. CASE UNCHANGED registryVars
    <3>1. \A id \in 1..MaxOperations : StatusOf(id)' = StatusOf(id)
      BY <2>3 DEF registryVars, StatusOf, Retained
    <3> QED
      BY <3>1
  <2>4. Ledger!Next \/ status' = status
    BY <2>1, <2>2, <2>3, StepLemma
  <2> HIDE DEF status
  <2> QED
    BY <2>4
<1> QED
  BY <1>1, <1>2, RegistryInvariant, IdsStayInRange, PTL
  DEF RegistrySpec, ImplementsLedger, Ledger!Spec
=============================================================================
