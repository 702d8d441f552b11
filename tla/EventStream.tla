----------------------------- MODULE EventStream -----------------------------
(***************************************************************************)
(* Readers of the operation registry's event queue: the in-process         *)
(* `EventSubscription` of operations.rs and the HTTP clients that poll     *)
(* GET /1.0/events?after=<cursor>.  Both read with `event_batch` and       *)
(* continue from the last sequence they were given.  A reader starts at    *)
(* the cursor it brings along, which may be from an earlier life of the    *)
(* daemon and ahead of the registry.                                       *)
(*                                                                         *)
(* `since`, `delivered`, `reported` and `last` are history variables:      *)
(* where a reader started and what it has been handed.                     *)
(***************************************************************************)
EXTENDS OperationRegistry, FiniteSets

CONSTANTS
  Subscribers,
  Cursors      \* cursors a reader may bring along

ASSUME CursorAssumption == Cursors \subseteq Nat

VARIABLES
  cursor,      \* the reader's cursor, EventSequence
  since,       \* the cursor it started with
  delivered,   \* sequences received as operation events
  reported,    \* sequences an overflow marker told the reader it missed
  last         \* the last event received, or None

streamVars == <<cursor, since, delivered, reported, last>>
readerVars == <<registryVars, streamVars>>

StreamInit ==
  /\ RegistryInit
  /\ since \in [Subscribers -> Cursors]
  /\ cursor = since
  /\ delivered = [s \in Subscribers |-> {}]
  /\ reported = [s \in Subscribers |-> {}]
  /\ last = [s \in Subscribers |-> None]

-----------------------------------------------------------------------------

\* Mutant: off by one, the first lost event goes unnoticed.
Overflowed_Late(after) == events # <<>> /\ after + 2 < events[1].sequence

\* Mutant: off by one, a reader exactly at the oldest event is told it fell behind.
Overflowed_Early(after) == events # <<>> /\ after < events[1].sequence

Overflowed(after) == events # <<>> /\ after + 1 < events[1].sequence

\* The synthetic event stands for everything up to the oldest retained one.
OverflowMarker ==
  [sequence |-> events[1].sequence - 1,
   snapshot_generation |-> events[1].snapshot_generation]

\* `iter().filter(..)`: the retained events after the cursor, in their order.
EventsAfter(after) ==
  LET later == {i \in DOMAIN events : events[i].sequence > after}
  IN  [n \in 1..Cardinality(later) |->
         events[CHOOSE i \in later : Cardinality({j \in later : j <= i}) = n]]

\* The events of `event_batch`, the marker first when the reader fell behind.
EventBatch(after) ==
  IF Overflowed(after)
    THEN <<OverflowMarker>> \o EventsAfter(after)
    ELSE EventsAfter(after)

Sequences(batch) == {batch[i].sequence : i \in DOMAIN batch}

\* Mutant: the wait's predicate is off by one; the newest event wakes nobody.
NextBatch_WaitsForMore(s) ==
  LET batch  == EventBatch(cursor[s])
      missed == IF Overflowed(cursor[s])
                  THEN (cursor[s] + 1)..OverflowMarker.sequence
                  ELSE {}
  IN  /\ next_sequence - 2 > cursor[s]
      /\ batch # <<>>
      /\ cursor' = [cursor EXCEPT ![s] = batch[Len(batch)].sequence]
      /\ delivered' = [delivered EXCEPT ![s] = @ \cup (Sequences(batch) \ missed)]
      /\ reported' = [reported EXCEPT ![s] = @ \cup missed]
      /\ last' = [last EXCEPT ![s] = batch[Len(batch)]]
      /\ UNCHANGED <<registryVars, since>>

\* `next_batch` once its wait is over; the reader moves to the batch's end.
NextBatch(s) ==
  LET batch  == EventBatch(cursor[s])
      missed == IF Overflowed(cursor[s])
                  THEN (cursor[s] + 1)..OverflowMarker.sequence
                  ELSE {}
  IN  /\ next_sequence - 1 > cursor[s]
      /\ batch # <<>>
      /\ cursor' = [cursor EXCEPT ![s] = batch[Len(batch)].sequence]
      /\ delivered' = [delivered EXCEPT ![s] = @ \cup (Sequences(batch) \ missed)]
      /\ reported' = [reported EXCEPT ![s] = @ \cup missed]
      /\ last' = [last EXCEPT ![s] = batch[Len(batch)]]
      /\ UNCHANGED <<registryVars, since>>

StreamNext ==
  \/ RegistryNext /\ UNCHANGED streamVars
  \/ \E s \in Subscribers : NextBatch(s)

\* A reader in its loop polls again; nothing obliges anyone to publish.
StreamSafety == StreamInit /\ [][StreamNext]_readerVars

StreamSpec == StreamSafety /\ \A s \in Subscribers : WF_readerVars(NextBatch(s))

-----------------------------------------------------------------------------

(***************************************************************************)
(* A reader never loses an event silently, however far the bounded queue   *)
(* ran ahead of it: each sequence from where it started to its cursor was  *)
(* delivered or reported missing by a StreamOverflow marker, none was      *)
(* both, and what is reported missing is gone, so that no reader           *)
(* resynchronises without cause.                                           *)
(***************************************************************************)
LossesAreReported ==
  \A s \in Subscribers :
    /\ delivered[s] \cup reported[s] = (since[s] + 1)..cursor[s]
    /\ delivered[s] \cap reported[s] = {}
    /\ \A i \in DOMAIN events : events[i].sequence \notin reported[s]

(***************************************************************************)
(* What a reader receives obeys `Event::is_contiguous_after` throughout,   *)
(* across batches as well as inside one; only a marker may jump ahead, and *)
(* not even a marker goes back in sequence or in generation.               *)
(***************************************************************************)
IsContiguousAfter(event, previous) ==
  /\ event.sequence = previous.sequence + 1
  /\ event.snapshot_generation >= previous.snapshot_generation

ContiguousBatch(batch, previous, jump) ==
  /\ \A i \in 2..Len(batch) : IsContiguousAfter(batch[i], batch[i - 1])
  /\ previous # None =>
       \/ IsContiguousAfter(batch[1], previous)
       \/ /\ jump
          /\ batch[1].sequence > previous.sequence
          /\ batch[1].snapshot_generation >= previous.snapshot_generation

ReadersSeeAContiguousStream ==
  \A s \in Subscribers :
    LET batch == EventBatch(cursor[s])
    IN  batch # <<>> =>
          ContiguousBatch(batch, last[s], Overflowed(cursor[s]))

(***************************************************************************)
(* What holds between a reader and the registry: the cursor is within the  *)
(* stream, or still ahead of it where the reader started; everything up to *)
(* it is accounted for, what was reported missing has left the queue, and  *)
(* no event still to come goes back behind the last one received.          *)
(***************************************************************************)
ReaderInv(s) ==
  /\ \/ cursor[s] \in since[s]..(next_sequence - 1)
     \/ cursor[s] = since[s] /\ last[s] = None
  /\ delivered[s] \cup reported[s] = (since[s] + 1)..cursor[s]
  /\ delivered[s] \cap reported[s] = {}
  /\ reported[s] \subseteq 1..(next_sequence - Len(events) - 1)
  /\ last[s] # None =>
       /\ last[s].sequence = cursor[s]
       /\ last[s].snapshot_generation <= latest_generation
       /\ \A i \in DOMAIN events :
            events[i].sequence > cursor[s] =>
              events[i].snapshot_generation >= last[s].snapshot_generation

StreamTypeOK ==
  /\ cursor \in [Subscribers -> Nat]
  /\ since \in [Subscribers -> Nat]
  /\ delivered \in [Subscribers -> SUBSET Nat]
  /\ reported \in [Subscribers -> SUBSET Nat]
  /\ last \in [Subscribers -> Event \cup {None}]

\* The inductive invariant, beside that of the registry.
StreamInv == StreamTypeOK /\ \A s \in Subscribers : ReaderInv(s)

(***************************************************************************)
(* A reader that keeps polling catches up again and again: the condition   *)
(* variable's predicate lets it in whenever it is behind, also one that    *)
(* came with a cursor the stream had yet to reach.                         *)
(***************************************************************************)
ReadersCatchUp ==
  \A s \in Subscribers : []<>(cursor[s] >= next_sequence - 1)
=============================================================================
