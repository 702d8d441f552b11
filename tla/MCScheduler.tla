---------------------------- MODULE MCScheduler ----------------------------
(* Constant values for model-checking Scheduler.                           *)
EXTENDS Scheduler

MCErrors ==
  [code : {"BackendUnavailable", "PreconditionFailed", "Internal", "NotFound"},
   retryable : BOOLEAN]
=============================================================================
