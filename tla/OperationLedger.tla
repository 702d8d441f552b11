--------------------------- MODULE OperationLedger ---------------------------
(***************************************************************************)
(* What the operation registry promises to those who only hold an id:      *)
(* operations are accepted in order, each goes from queued to running to   *)
(* one terminal state (or straight to it), and the only way to lose one is *)
(* to be the oldest of `Capacity` known ones when another is accepted.     *)
(***************************************************************************)
EXTENDS Integers, FiniteSets

CONSTANTS Ids, Capacity

VARIABLE status

Outcomes == {"Succeeded", "Failed", "Cancelled", "Indeterminate"}

Unused == {id \in Ids : status[id] = "Unused"}
Known  == {id \in Ids : status[id] \notin {"Unused", "Forgotten"}}

Oldest(id) == id \in Known /\ \A other \in Known : id <= other

Init == status = [id \in Ids |-> "Unused"]

Accept(id) ==
  /\ id \in Unused
  /\ \A other \in Unused : id <= other
  /\ status' = [other \in Ids |->
       IF other = id THEN "Queued"
       ELSE IF Cardinality(Known) = Capacity /\ Oldest(other) THEN "Forgotten"
       ELSE status[other]]

Begin(id) ==
  /\ status[id] = "Queued"
  /\ status' = [status EXCEPT ![id] = "Running"]

Conclude(id) ==
  /\ status[id] \in {"Queued", "Running"}
  /\ \E outcome \in Outcomes : status' = [status EXCEPT ![id] = outcome]

Next == \E id \in Ids : Accept(id) \/ Begin(id) \/ Conclude(id)

Spec == Init /\ [][Next]_status
=============================================================================
