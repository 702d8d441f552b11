---------------------------- MODULE MCEventStream ----------------------------
(* Constant values for model-checking OperationRegistry and EventStream.   *)
EXTENDS EventStream

MCErrors == {[code |-> "Internal", retryable |-> FALSE]}
=============================================================================
