------------------------------- MODULE Uploads -------------------------------
(***************************************************************************)
(* Browser uploads of OS images: the gateway streams the body into a       *)
(* `.part` file, renames it to `.ready`, submits an import of that path to *)
(* the daemon and removes the file once the import is over (gateway        *)
(* lib.rs).  A client of the library waits for an operation the same way   *)
(* (kernmux-client `wait_operation`).                                      *)
(*                                                                         *)
(* Gateway, daemon and browsers fail independently: a browser goes away    *)
(* mid-request, an answer of the daemon is lost, either service restarts.  *)
(* The daemon's registry forgets its oldest operations at its capacity and *)
(* all of them at a restart, when ids start again at 1.                    *)
(***************************************************************************)
EXTENDS Integers, Sequences, FiniteSets

CONSTANTS
  Uploads,             \* upload requests, each made once
  UploadLimit,         \* `max_concurrent_uploads`
  PollLimit,           \* polls of cleanup_after_operation (120)
  OperationCapacity,   \* operations the registry retains
  MaxTasks,            \* bound on operations accepted in all
  MaxRestarts,         \* bound on restarts, for the daemon and for the gateway
  None

ASSUME UploadsAssumption ==
  /\ IsFiniteSet(Uploads)
  /\ None \notin Uploads \cup Int \cup [id : Nat, polls : Nat]
  /\ UploadLimit \in Nat \ {0} /\ PollLimit \in Nat \ {0}
  /\ OperationCapacity \in Nat \ {0}
  /\ MaxTasks \in Nat /\ MaxRestarts \in Nat

VARIABLES
  handler,    \* handle_os_image_upload: new, streaming, submitting, answered,
              \* failed (the call to the daemon returned an error) or gone
              \* (dropped with its connection or its process)
  permits,    \* upload permits in use
  file,       \* the upload's file: absent, part or ready
  aged,       \* uploads whose file is older than STALE_UPLOAD_AGE
  request,    \* the import request: none, sent or handled
  answer,     \* the daemon's answer on its way: None, 0 if refused, or an id
  poller,     \* cleanup task: None or [id, polls]; over when polls = PollLimit
  tasks,      \* every operation accepted: its source (None unless an import
              \* of an upload) and how far its worker is
  records,    \* the registry: retained operations, oldest first
  next_operation,
  daemonLife, \* restarts of the daemon so far
  gatewayLife,\* restarts of the gateway so far
  waiter      \* a wait_operation in progress or answered, or None

gatewayVars == <<handler, permits, file, aged, poller, gatewayLife>>
wireVars    == <<request, answer>>
daemonVars  == <<tasks, records, next_operation, daemonLife>>
vars == <<gatewayVars, wireVars, daemonVars, waiter>>

\* A worker's task: Finished stands for every terminal state (succeeded,
\* failed, cancelled, indeterminate), Lost for ended with its daemon.
TaskStates == {"Queued", "Running", "Reading", "Finished", "Lost"}
Over(task) == task.state \in {"Finished", "Lost"}

Init ==
  /\ handler = [u \in Uploads |-> "new"]
  /\ permits = 0
  /\ file = [u \in Uploads |-> "absent"]
  /\ aged = {}
  /\ request = [u \in Uploads |-> "none"]
  /\ answer = [u \in Uploads |-> None]
  /\ poller = [u \in Uploads |-> None]
  /\ tasks = <<>> /\ records = <<>> /\ next_operation = 1
  /\ daemonLife = 0 /\ gatewayLife = 0
  /\ waiter = None

Move(u, stage) == handler' = [handler EXCEPT ![u] = stage]

Remove(us) ==
  /\ file' = [u \in Uploads |-> IF u \in us THEN "absent" ELSE file[u]]
  /\ aged' = aged \ us

-----------------------------------------------------------------------------
(* The gateway's upload handler.                                           *)

\* `handle_api`: the upload permit; without one the answer is upload_busy.
BeginUpload(u) ==
  /\ handler[u] = "new" /\ permits < UploadLimit
  /\ Move(u, "streaming") /\ permits' = permits + 1
  /\ UNCHANGED <<file, aged, poller, gatewayLife, wireVars, daemonVars, waiter>>

\* The `file` field: create_new, then the chunks.
CreatePart(u) ==
  /\ handler[u] = "streaming" /\ file[u] = "absent"
  /\ file' = [file EXCEPT ![u] = "part"]
  /\ UNCHANGED <<handler, permits, aged, poller, gatewayLife, wireVars, daemonVars,
                 waiter>>

\* Any refusal before the rename removes the `.part` file.
RefuseUpload(u) ==
  /\ handler[u] = "streaming"
  /\ Move(u, "answered") /\ permits' = permits - 1
  /\ Remove({u})
  /\ UNCHANGED <<poller, gatewayLife, wireVars, daemonVars, waiter>>

\* Rename, then the blocking call to the daemon.
SubmitImport(u) ==
  /\ handler[u] = "streaming" /\ file[u] = "part"
  /\ file' = [file EXCEPT ![u] = "ready"]
  /\ Move(u, "submitting")
  /\ request' = [request EXCEPT ![u] = "sent"]
  /\ UNCHANGED <<permits, aged, poller, gatewayLife, answer, daemonVars, waiter>>

\* Mutant: a guard removes the file with the handler, the call goes on.
BrowserGone_RemovesFile(u) ==
  /\ handler[u] \in {"streaming", "submitting"}
  /\ Move(u, "gone") /\ permits' = permits - 1
  /\ Remove({u})
  /\ UNCHANGED <<poller, gatewayLife, wireVars, daemonVars, waiter>>

\* hyper drops the handler with its connection: the permit goes, the file and
\* the blocking call stay.
BrowserGone(u) ==
  /\ handler[u] \in {"streaming", "submitting"}
  /\ Move(u, "gone") /\ permits' = permits - 1
  /\ UNCHANGED <<file, aged, poller, gatewayLife, wireVars, daemonVars, waiter>>

\* Mutant: only the 202 arm looks at the file.
ReadAnswer_KeepsRefused(u) ==
  /\ handler[u] = "submitting" /\ answer[u] # None
  /\ Move(u, "answered") /\ permits' = permits - 1
  /\ answer' = [answer EXCEPT ![u] = None]
  /\ IF answer[u] # 0
     THEN poller' = [poller EXCEPT ![u] = [id |-> answer[u], polls |-> 0]]
     ELSE UNCHANGED poller
  /\ UNCHANGED <<file, aged, request, gatewayLife, daemonVars, waiter>>

\* The call returned: 202 starts the cleanup task, any other status removes
\* the file.
ReadAnswer(u) ==
  /\ handler[u] = "submitting" /\ answer[u] # None
  /\ Move(u, "answered") /\ permits' = permits - 1
  /\ answer' = [answer EXCEPT ![u] = None]
  /\ IF answer[u] # 0
     THEN /\ poller' = [poller EXCEPT ![u] = [id |-> answer[u], polls |-> 0]]
          /\ UNCHANGED <<file, aged>>
     ELSE Remove({u}) /\ UNCHANGED poller
  /\ UNCHANGED <<request, gatewayLife, daemonVars, waiter>>

\* The call failed (timeout, reset, unreadable answer): the file is removed,
\* although the daemon may have accepted the import or may yet receive it.
CallFails(u) ==
  /\ handler[u] = "submitting"
  /\ Move(u, "failed") /\ permits' = permits - 1
  /\ Remove({u})
  /\ UNCHANGED <<poller, gatewayLife, wireVars, daemonVars, waiter>>

-----------------------------------------------------------------------------
(* The daemon.                                                             *)

\* Mutant: ids are positions in the history.
CreateOperation_ReusesId(source) ==
  /\ Len(tasks) < MaxTasks
  /\ tasks' = Append(tasks, [source |-> source, state |-> "Queued"])
  /\ LET kept == IF Len(records) = OperationCapacity THEN Tail(records) ELSE records
     IN  records' = Append(kept, [id |-> Len(kept) + 1, task |-> Len(tasks) + 1])
  /\ next_operation' = next_operation + 1
  /\ UNCHANGED daemonLife

\* `OperationRegistry::create`: the oldest record makes room.
CreateOperation(source) ==
  /\ Len(tasks) < MaxTasks
  /\ tasks' = Append(tasks, [source |-> source, state |-> "Queued"])
  /\ records' = Append(IF Len(records) = OperationCapacity THEN Tail(records)
                                                           ELSE records,
                       [id |-> next_operation, task |-> Len(tasks) + 1])
  /\ next_operation' = next_operation + 1
  /\ UNCHANGED daemonLife

\* The answer of a call nobody waits for any more is dropped.
SendAnswer(u, a) ==
  answer' = IF handler[u] = "submitting" THEN [answer EXCEPT ![u] = a] ELSE answer

\* `submit_os_image_import`: `image_policy.resolve` needs the file; a limit,
\* or anything else wrong with the request, refuses it too.
HandleImport(u) ==
  /\ request[u] = "sent"
  /\ request' = [request EXCEPT ![u] = "handled"]
  /\ \/ /\ file[u] = "ready" /\ CreateOperation(u)
        /\ SendAnswer(u, next_operation)
     \/ SendAnswer(u, 0) /\ UNCHANGED daemonVars
  /\ UNCHANGED <<gatewayVars, waiter>>

\* Another client's mutation.
HandleOther ==
  CreateOperation(None) /\ UNCHANGED <<gatewayVars, wireVars, waiter>>

SetTask(k, state) ==
  /\ tasks' = [tasks EXCEPT ![k].state = state]
  /\ UNCHANGED <<records, next_operation, daemonLife, gatewayVars, wireVars, waiter>>

\* The worker: a queued operation starts or is found cancelled, ...
StartTask(k) ==
  /\ tasks[k].state = "Queued"
  /\ \E state \in {"Running", "Finished"} : SetTask(k, state)

\* ... an import opens its source, which fails once the path is gone, ...
OpenSource(k) ==
  /\ tasks[k].state = "Running" /\ tasks[k].source # None
  /\ SetTask(k, IF file[tasks[k].source] = "ready" THEN "Reading" ELSE "Finished")

\* ... and the task returns, an import on an error before it opens its source
\* as well.
FinishTask(k) ==
  /\ tasks[k].state \in {"Running", "Reading"}
  /\ SetTask(k, "Finished")

DaemonRestarts ==
  /\ daemonLife < MaxRestarts /\ daemonLife' = daemonLife + 1
  /\ tasks' = [k \in DOMAIN tasks |->
                 IF Over(tasks[k]) THEN tasks[k] ELSE [tasks[k] EXCEPT !.state = "Lost"]]
  /\ records' = <<>> /\ next_operation' = 1
  /\ request' = [u \in Uploads |-> IF request[u] = "sent" THEN "handled" ELSE request[u]]
  /\ answer' = [u \in Uploads |-> None]
  /\ UNCHANGED <<gatewayVars, waiter>>

-----------------------------------------------------------------------------
(* Polling an operation: GET /1.0/operations/{id}.                         *)

\* What the registry shows for an id, or None when it retains no such record.
Shown(id) ==
  IF \E k \in DOMAIN records : records[k].id = id
  THEN records[CHOOSE k \in DOMAIN records : records[k].id = id].task
  ELSE None

Finished(task) == task # None /\ Over(tasks[task])

Polling(u) == poller[u] # None /\ poller[u].polls < PollLimit

\* One round of `cleanup_after_operation`; a failed call, a 404 and an
\* operation that is not over are all "not yet".
Poll(u) ==
  /\ Polling(u)
  /\ \/ /\ Finished(Shown(poller[u].id))
        /\ Remove({u})
        /\ poller' = [poller EXCEPT ![u] = None]
     \/ /\ poller' = [poller EXCEPT ![u].polls = @ + 1]
        /\ UNCHANGED <<file, aged>>
  /\ UNCHANGED <<handler, permits, gatewayLife, wireVars, daemonVars, waiter>>

\* `wait_operation` is called with the id of an operation just accepted.
BeginWait(k) ==
  /\ waiter = None
  /\ waiter' = [id |-> records[k].id, task |-> records[k].task, life |-> daemonLife,
                saw |-> None]
  /\ UNCHANGED <<gatewayVars, wireVars, daemonVars>>

\* One attempt: a terminal state is reported; anything else is waited out or,
\* at the last attempt, on a 404 and on a failed call, ends without a report.
PollWait ==
  /\ waiter # None /\ waiter.saw = None
  /\ \/ /\ Finished(Shown(waiter.id))
        /\ waiter' = [waiter EXCEPT !.saw = Shown(waiter.id)]
     \/ waiter' = None
  /\ UNCHANGED <<gatewayVars, wireVars, daemonVars>>

-----------------------------------------------------------------------------
(* Time and restarts of the gateway.                                       *)

\* A day passes: every file grows old, every call, poll and import is over.  The
\* code enforces no such thing: that STALE_UPLOAD_AGE is longer than an upload
\* and the wait and run of its import is an assumption about time.
DayPasses ==
  /\ \A k \in DOMAIN tasks : Over(tasks[k])
  /\ \A u \in Uploads : /\ handler[u] \notin {"streaming", "submitting"}
                         /\ request[u] # "sent" /\ ~Polling(u)
  /\ aged' = {u \in Uploads : file[u] # "absent"} /\ aged' # aged
  /\ UNCHANGED <<handler, permits, file, poller, gatewayLife, wireVars, daemonVars, waiter>>

\* The process ends with its tasks; `cleanup_stale_uploads` runs at the start.
GatewayRestarts ==
  /\ gatewayLife < MaxRestarts /\ gatewayLife' = gatewayLife + 1
  /\ handler' = [u \in Uploads |-> IF handler[u] \in {"streaming", "submitting"}
                                   THEN "gone" ELSE handler[u]]
  /\ poller' = [u \in Uploads |-> IF poller[u] = None THEN None
                                  ELSE [poller[u] EXCEPT !.polls = PollLimit]]
  /\ permits' = 0
  /\ Remove(aged)
  /\ UNCHANGED <<wireVars, daemonVars, waiter>>

GatewayStep(u) ==
  \/ CreatePart(u) \/ RefuseUpload(u) \/ SubmitImport(u) \/ BrowserGone(u)
  \/ ReadAnswer(u) \/ CallFails(u) \/ Poll(u)

TaskStep(k) == StartTask(k) \/ OpenSource(k) \/ FinishTask(k)

Next ==
  \/ \E u \in Uploads : BeginUpload(u) \/ GatewayStep(u) \/ HandleImport(u)
  \/ \E k \in DOMAIN tasks : TaskStep(k)
  \/ \E k \in DOMAIN records : BeginWait(k)
  \/ HandleOther \/ PollWait \/ DaemonRestarts \/ DayPasses \/ GatewayRestarts

Safety == Init /\ [][Next]_vars

\* Fairness: a call to the daemon returns or fails (it has timeouts), cleanup
\* tasks poll.  Each upload has finitely many such steps, so fairness to all of
\* them together is enough.  Nothing is assumed of browsers (a body may stall
\* for ever: the gateway has no timeout for it), of the daemon, of restarts, of
\* days or of other clients.
Fairness == WF_vars(\E u \in Uploads : ReadAnswer(u) \/ CallFails(u) \/ Poll(u))

Spec == Safety /\ Fairness

-----------------------------------------------------------------------------
(* Properties.                                                             *)

\* An accepted import finds its file: whatever restarts, disconnects, history
\* limits and id reuse do, the gateway removes a `.ready` file under an import
\* that has still to open it only when its call to the daemon had failed.
ImportsFindTheirFile ==
  \A k \in DOMAIN tasks :
    (tasks[k].state \in {"Queued", "Running"} /\ tasks[k].source # None) =>
      file[tasks[k].source] = "ready" \/ handler[tasks[k].source] = "failed"

\* `wait_operation` and the registry's ids: the operation whose end a wait
\* reports is the one it was asked about, unless the daemon restarted since.
WaitersAreNotMisled ==
  (waiter # None /\ waiter.saw # None) =>
    waiter.saw = waiter.task \/ waiter.life # daemonLife

\* The upload directory does not fill up: once its body has arrived, every file
\* is removed again, except after its browser or the gateway went away before
\* the daemon's answer, or when the cleanup task stopped polling before the
\* import was over.
FilesAreRemoved ==
  \A u \in Uploads :
    file[u] # "absent" /\ handler[u] # "streaming" ~>
      \/ file[u] = "absent"
      \/ handler[u] = "gone"
      \/ poller[u] # None /\ poller[u].polls = PollLimit
=============================================================================
