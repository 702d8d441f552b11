--------------------------- MODULE UploadsProofs ---------------------------
(***************************************************************************)
(* Proofs about Uploads, for every number of uploads, permits, polls,      *)
(* retained operations and restarts.                                       *)
(*                                                                         *)
(* The argument turns on what an operation id stands for.  The gateway's   *)
(* cleanup task and a waiting client only hold an id; the registry may     *)
(* have evicted its record or, after a restart, may give the id to another *)
(* operation.  As long as the task behind the id lives, the id names it:   *)
(* no record with that id belongs to another task.                         *)
(***************************************************************************)
EXTENDS Uploads, FiniteSetTheorems, TLAPS

\* Most leaves are logic and functions: Zenon is the backend unless one names another.
USE ZenonT(60)

TypeOK ==
  /\ handler \in [Uploads -> {"new", "streaming", "submitting", "answered", "failed", "gone"}]
  /\ permits \in Nat
  /\ file \in [Uploads -> {"absent", "part", "ready"}]
  /\ aged \subseteq Uploads
  /\ request \in [Uploads -> {"none", "sent", "handled"}]
  /\ answer \in [Uploads -> Nat \cup {None}]
  /\ poller \in [Uploads -> [id : Nat, polls : Nat] \cup {None}]
  /\ tasks \in Seq([source : Uploads \cup {None}, state : TaskStates])
  /\ records \in Seq([id : Nat, task : Nat])
  /\ next_operation \in Nat \ {0}
  /\ daemonLife \in Nat
  /\ waiter \in [id : Nat, task : Nat, life : Nat, saw : Nat \cup {None}] \cup {None}

Receiving == {u \in Uploads : handler[u] \in {"streaming", "submitting"}}

(***************************************************************************)
(* `upload_permits`: one for each request being received or submitted, and *)
(* none lost to a disconnect, an error or a restart.                       *)
(***************************************************************************)
UploadPermitsMatch == permits = Cardinality(Receiving) /\ permits <= UploadLimit

\* No record with this id belongs to another task, and none ever will.
Names(id, k) ==
  /\ id \in 1..(next_operation - 1)
  /\ \A r \in DOMAIN records : records[r].id = id => records[r].task = k

\* How far the request of an upload can be for the stage of its handler.
Stage(u) ==
  /\ handler[u] = "new" => file[u] = "absent"
  /\ handler[u] \in {"new", "streaming"} => request[u] = "none" /\ file[u] # "ready"
  /\ handler[u] = "submitting" => file[u] = "ready" /\ request[u] # "none"
  /\ request[u] # "handled" => answer[u] = None /\ poller[u] = None
  /\ poller[u] # None => handler[u] = "answered"
  /\ u \in aged => /\ handler[u] \in {"answered", "failed", "gone"}
                   /\ request[u] # "sent"

\* What an import still to come to its end can rely on.
Import(k) ==
  tasks[k].source # None /\ ~Over(tasks[k]) =>
    LET u == tasks[k].source
    IN  /\ request[u] = "handled" /\ u \notin aged
        /\ tasks[k].state # "Reading" => file[u] = "ready" \/ handler[u] = "failed"
        /\ answer[u] # None => Names(answer[u], k)
        /\ poller[u] # None => Names(poller[u].id, k)

RecordsInv ==
  /\ \A r \in DOMAIN records : records[r].id \in 1..(next_operation - 1)
  /\ \A r, s \in DOMAIN records :
       records[r].id = records[s].id => records[r].task = records[s].task

WaiterInv ==
  waiter # None =>
    /\ waiter.life <= daemonLife
    /\ waiter.life = daemonLife =>
         /\ Names(waiter.id, waiter.task)
         /\ waiter.saw # None => waiter.saw = waiter.task

UploadsInv ==
  /\ TypeOK
  /\ UploadPermitsMatch
  /\ \A u \in Uploads : Stage(u)
  /\ \A k \in DOMAIN tasks : Import(k)
  /\ RecordsInv
  /\ WaiterInv

-----------------------------------------------------------------------------
(* Frames.                                                                 *)

OthersStay(u) ==
  \A v \in Uploads \ {u} :
    /\ handler'[v] = handler[v] /\ file'[v] = file[v] /\ request'[v] = request[v]
    /\ answer'[v] = answer[v] /\ poller'[v] = poller[v]
    /\ v \in aged' <=> v \in aged

(***************************************************************************)
(* The source and the state of a task.                                     *)
(***************************************************************************)
LEMMA TaskType ==
  ASSUME TypeOK, NEW k \in DOMAIN tasks
  PROVE  tasks[k].source \in Uploads \cup {None} /\ tasks[k].state \in TaskStates
<1>1. ASSUME NEW S, NEW q \in Seq(S), NEW i \in DOMAIN q PROVE q[i] \in S
  BY <1>1, SMTT(60)
<1>2. tasks[k] \in [source : Uploads \cup {None}, state : TaskStates]
  BY <1>1, ZenonT(60) DEF TypeOK
<1> QED
  BY <1>2

(***************************************************************************)
(* While the daemon does nothing its ids keep their meaning.               *)
(***************************************************************************)
LEMMA NamesStay ==
  ASSUME records' = records, next_operation' = next_operation, NEW id, NEW k
  PROVE  Names(id, k)' <=> Names(id, k)
  BY DEF Names

(***************************************************************************)
(* A step of one upload's handler or cleanup task leaves the invariant of  *)
(* everything else alone.                                                  *)
(***************************************************************************)
LEMMA GatewayFrame ==
  ASSUME UploadsInv, NEW u \in Uploads, OthersStay(u),
         UNCHANGED daemonVars, UNCHANGED waiter,
         TypeOK', UploadPermitsMatch', Stage(u)',
         \A k \in DOMAIN tasks : tasks[k].source = u => Import(k)'
  PROVE  UploadsInv'
<1>1. /\ tasks' = tasks /\ records' = records /\ next_operation' = next_operation
      /\ daemonLife' = daemonLife
  BY DEF daemonVars
<1>2. \A v \in Uploads : Stage(v)'
  BY SMTT(60) DEF UploadsInv, OthersStay, Stage
<1>3. ASSUME NEW k \in DOMAIN tasks PROVE Import(k)'
  <2>1. CASE tasks[k].source = u
    BY <2>1
  <2>2. CASE tasks[k].source \in Uploads \ {u}
    <3>1. Import(k)
      BY DEF UploadsInv
    <3> QED
      BY <1>1, <2>2, <3>1, NamesStay DEF OthersStay, Import, Over
  <2>3. CASE tasks[k].source = None
    BY <1>1, <2>3, ZenonT(30) DEF Import
  <2>4. tasks[k].source \in Uploads \cup {None}
    BY TaskType DEF UploadsInv
  <2> QED
    BY <2>1, <2>2, <2>3, <2>4
<1>4. RecordsInv'
  BY <1>1, SMTT(60) DEF UploadsInv, RecordsInv
<1>5. WaiterInv'
  BY <1>1, NamesStay DEF UploadsInv, WaiterInv
<1> QED
  BY <1>1, <1>2, <1>3, <1>4, <1>5 DEF UploadsInv

(***************************************************************************)
(* Permits are counted: none, one more, or one less.                       *)
(***************************************************************************)
LEMMA ReceivingIsFinite == IsFiniteSet(Receiving) /\ Cardinality(Receiving) \in Nat
<1>1. IsFiniteSet(Uploads) /\ Receiving \subseteq Uploads
  BY UploadsAssumption DEF Receiving
<1> QED
  BY <1>1, FS_Subset, FS_CardinalityType, ZenonT(30)

LEMMA PermitsStay ==
  ASSUME UploadsInv, permits' = permits, Receiving' = Receiving
  PROVE  UploadPermitsMatch'
  BY DEF UploadsInv, UploadPermitsMatch

LEMMA PermitTaken ==
  ASSUME UploadsInv, NEW u \in Uploads, u \notin Receiving, Receiving' = Receiving \cup {u},
         permits < UploadLimit, permits' = permits + 1
  PROVE  UploadPermitsMatch'
<1>1. Cardinality(Receiving \cup {u}) = Cardinality(Receiving) + 1
  BY ReceivingIsFinite, FS_AddElement, ZenonT(30)
<1>2. Cardinality(Receiving)' = Cardinality(Receiving) + 1
  BY <1>1
<1> QED
  BY <1>2, UploadsAssumption, SMTT(60) DEF UploadsInv, TypeOK, UploadPermitsMatch

LEMMA PermitReturned ==
  ASSUME UploadsInv, NEW u \in Uploads, u \in Receiving, Receiving' = Receiving \ {u},
         permits' = permits - 1
  PROVE  UploadPermitsMatch' /\ permits' \in Nat
<1>1. Cardinality(Receiving \ {u}) = Cardinality(Receiving) - 1
  BY ReceivingIsFinite, FS_RemoveElement, ZenonT(30)
<1>2. Cardinality(Receiving)' = Cardinality(Receiving) - 1
  BY <1>1
<1>3. Cardinality(Receiving) # 0
  BY ReceivingIsFinite, FS_EmptySet, ZenonT(30)
<1> QED
  BY <1>2, <1>3, ReceivingIsFinite, UploadsAssumption, SMTT(60) DEF UploadsInv, TypeOK, UploadPermitsMatch

-----------------------------------------------------------------------------
(* The gateway's steps.                                                    *)

(***************************************************************************)
(* Before its request is handled an upload has no import to look after.    *)
(***************************************************************************)
LEMMA NoImportYet ==
  ASSUME UploadsInv, NEW u \in Uploads, request[u] # "handled", tasks' = tasks
  PROVE  \A k \in DOMAIN tasks : tasks[k].source = u => Import(k)'
<1> SUFFICES ASSUME NEW k \in DOMAIN tasks, tasks[k].source = u PROVE Import(k)'
  OBVIOUS
<1>1. Import(k) /\ u # None
  BY UploadsAssumption DEF UploadsInv
<1>2. Over(tasks[k])
  BY <1>1 DEF Import
<1> QED
  BY <1>2 DEF Import

LEMMA BeginUploadKeeps ==
  ASSUME UploadsInv, NEW u \in Uploads, BeginUpload(u)
  PROVE  UploadsInv'
<1>1. /\ handler[u] = "new" /\ handler' = [handler EXCEPT ![u] = "streaming"]
      /\ permits < UploadLimit /\ permits' = permits + 1
      /\ UNCHANGED <<file, aged, poller, request, answer>>
      /\ UNCHANGED daemonVars /\ UNCHANGED waiter
  BY DEF BeginUpload, Move, wireVars
<1>2. TypeOK
  BY DEF UploadsInv
<1>3. handler'[u] = "streaming" /\ OthersStay(u)
  BY <1>1, <1>2 DEF TypeOK, OthersStay
<1>4. u \notin Receiving /\ Receiving' = Receiving \cup {u}
  BY <1>1, <1>3 DEF Receiving, OthersStay
<1>5. UploadPermitsMatch'
  BY <1>1, <1>4, PermitTaken
<1>6. TypeOK'
  BY <1>1, <1>2, SMTT(60) DEF TypeOK, daemonVars
<1>7. Stage(u) /\ request[u] # "handled"
  BY <1>1 DEF UploadsInv, Stage
<1>8. Stage(u)'
  BY <1>1, <1>3, <1>7 DEF Stage
<1>9. \A k \in DOMAIN tasks : tasks[k].source = u => Import(k)'
  BY <1>1, <1>7, NoImportYet DEF daemonVars
<1> QED
  BY <1>1, <1>3, <1>5, <1>6, <1>8, <1>9, GatewayFrame

LEMMA CreatePartKeeps ==
  ASSUME UploadsInv, NEW u \in Uploads, CreatePart(u)
  PROVE  UploadsInv'
<1>1. /\ handler[u] = "streaming" /\ file[u] = "absent"
      /\ file' = [file EXCEPT ![u] = "part"]
      /\ UNCHANGED <<handler, permits, aged, poller, request, answer>>
      /\ UNCHANGED daemonVars /\ UNCHANGED waiter
  BY DEF CreatePart, wireVars
<1>2. TypeOK
  BY DEF UploadsInv
<1>3. file'[u] = "part" /\ OthersStay(u)
  BY <1>1, <1>2 DEF TypeOK, OthersStay
<1>5. UploadPermitsMatch'
  BY <1>1, PermitsStay DEF Receiving
<1>6. TypeOK'
  BY <1>1, <1>2 DEF TypeOK, daemonVars
<1>7. Stage(u) /\ request[u] # "handled"
  BY <1>1 DEF UploadsInv, Stage
<1>8. Stage(u)'
  BY <1>1, <1>3, <1>7 DEF Stage
<1>9. \A k \in DOMAIN tasks : tasks[k].source = u => Import(k)'
  BY <1>1, <1>7, NoImportYet DEF daemonVars
<1> QED
  BY <1>1, <1>3, <1>5, <1>6, <1>8, <1>9, GatewayFrame

LEMMA SubmitImportKeeps ==
  ASSUME UploadsInv, NEW u \in Uploads, SubmitImport(u)
  PROVE  UploadsInv'
<1>1. /\ handler[u] = "streaming" /\ handler' = [handler EXCEPT ![u] = "submitting"]
      /\ file' = [file EXCEPT ![u] = "ready"]
      /\ request' = [request EXCEPT ![u] = "sent"]
      /\ UNCHANGED <<permits, aged, poller, answer>>
      /\ UNCHANGED daemonVars /\ UNCHANGED waiter
  BY DEF SubmitImport, Move
<1>2. TypeOK
  BY DEF UploadsInv
<1>3. handler'[u] = "submitting" /\ file'[u] = "ready" /\ request'[u] = "sent" /\ OthersStay(u)
  BY <1>1, <1>2 DEF TypeOK, OthersStay
<1>4. Receiving' = Receiving
  BY <1>1, <1>3, SMTT(60) DEF Receiving, OthersStay
<1>5. UploadPermitsMatch'
  BY <1>1, <1>4, PermitsStay
<1>6. TypeOK'
  BY <1>1, <1>2 DEF TypeOK, daemonVars
<1>7. Stage(u) /\ request[u] # "handled"
  BY <1>1 DEF UploadsInv, Stage
<1>8. Stage(u)'
  BY <1>1, <1>3, <1>7 DEF Stage
<1>9. \A k \in DOMAIN tasks : tasks[k].source = u => Import(k)'
  BY <1>1, <1>7, NoImportYet DEF daemonVars
<1> QED
  BY <1>1, <1>3, <1>5, <1>6, <1>8, <1>9, GatewayFrame

(***************************************************************************)
(* However a handler ends, its permit returns.                             *)
(***************************************************************************)
LEMMA HandlerEnds ==
  ASSUME UploadsInv, NEW u \in Uploads, handler[u] \in {"streaming", "submitting"},
         NEW stage \in {"answered", "failed", "gone"}, Move(u, stage), permits' = permits - 1
  PROVE  /\ UploadPermitsMatch' /\ permits' \in Nat
         /\ handler' \in [Uploads -> {"new", "streaming", "submitting", "answered",
                                      "failed", "gone"}]
         /\ handler'[u] = stage
         /\ \A v \in Uploads \ {u} : handler'[v] = handler[v]
<1>1. TypeOK
  BY DEF UploadsInv
<1>2. /\ handler' \in [Uploads -> {"new", "streaming", "submitting", "answered",
                                   "failed", "gone"}]
      /\ handler'[u] = stage
      /\ \A v \in Uploads \ {u} : handler'[v] = handler[v]
  BY <1>1 DEF TypeOK, Move
<1>3. u \in Receiving /\ Receiving' = Receiving \ {u}
  BY <1>2 DEF Receiving
<1> QED
  BY <1>2, <1>3, PermitReturned

(***************************************************************************)
(* What `Remove` leaves.                                                   *)
(***************************************************************************)
LEMMA RemoveOne ==
  ASSUME UploadsInv, NEW u \in Uploads, Remove({u})
  PROVE  /\ file' \in [Uploads -> {"absent", "part", "ready"}]
         /\ file'[u] = "absent" /\ u \notin aged' /\ aged' \subseteq Uploads
         /\ \A v \in Uploads \ {u} : file'[v] = file[v] /\ (v \in aged' <=> v \in aged)
  BY DEF UploadsInv, TypeOK, Remove

LEMMA RefuseUploadKeeps ==
  ASSUME UploadsInv, NEW u \in Uploads, RefuseUpload(u)
  PROVE  UploadsInv'
<1>1. /\ handler[u] = "streaming" /\ Move(u, "answered") /\ permits' = permits - 1
      /\ Remove({u})
      /\ UNCHANGED <<poller, request, answer>>
      /\ UNCHANGED daemonVars /\ UNCHANGED waiter
  BY DEF RefuseUpload, wireVars
<1>2. /\ UploadPermitsMatch' /\ permits' \in Nat
      /\ handler' \in [Uploads -> {"new", "streaming", "submitting", "answered",
                                   "failed", "gone"}]
      /\ handler'[u] = "answered"
      /\ \A v \in Uploads \ {u} : handler'[v] = handler[v]
  BY <1>1, HandlerEnds
<1>3. /\ file' \in [Uploads -> {"absent", "part", "ready"}]
      /\ file'[u] = "absent" /\ u \notin aged' /\ aged' \subseteq Uploads
      /\ \A v \in Uploads \ {u} : file'[v] = file[v] /\ (v \in aged' <=> v \in aged)
  BY <1>1, RemoveOne
<1>4. OthersStay(u)
  BY <1>1, <1>2, <1>3 DEF OthersStay
<1>5. TypeOK'
  BY <1>1, <1>2, <1>3 DEF UploadsInv, TypeOK, daemonVars
<1>6. Stage(u) /\ request[u] # "handled"
  BY <1>1 DEF UploadsInv, Stage
<1>7. Stage(u)'
  BY <1>1, <1>2, <1>3, <1>6 DEF Stage
<1>8. \A k \in DOMAIN tasks : tasks[k].source = u => Import(k)'
  BY <1>1, <1>6, NoImportYet DEF daemonVars
<1> QED
  BY <1>1, <1>2, <1>4, <1>5, <1>7, <1>8, GatewayFrame

(***************************************************************************)
(* A browser that leaves takes the handler with it, not the file.          *)
(***************************************************************************)
LEMMA BrowserGoneKeeps ==
  ASSUME UploadsInv, NEW u \in Uploads, BrowserGone(u)
  PROVE  UploadsInv'
<1>1. /\ handler[u] \in {"streaming", "submitting"} /\ Move(u, "gone")
      /\ permits' = permits - 1
      /\ UNCHANGED <<file, aged, poller, request, answer>>
      /\ UNCHANGED daemonVars /\ UNCHANGED waiter
  BY DEF BrowserGone, wireVars
<1>2. /\ UploadPermitsMatch' /\ permits' \in Nat
      /\ handler' \in [Uploads -> {"new", "streaming", "submitting", "answered",
                                   "failed", "gone"}]
      /\ handler'[u] = "gone"
      /\ \A v \in Uploads \ {u} : handler'[v] = handler[v]
  BY <1>1, HandlerEnds
<1>3. OthersStay(u)
  BY <1>1, <1>2 DEF OthersStay
<1>4. TypeOK'
  BY <1>1, <1>2 DEF UploadsInv, TypeOK, daemonVars
<1>5. Stage(u)'
  BY <1>1, <1>2 DEF UploadsInv, Stage
<1>6. ASSUME NEW k \in DOMAIN tasks, tasks[k].source = u PROVE Import(k)'
  <2>1. Import(k) /\ handler[u] # "failed" /\ u # None
    BY <1>1, UploadsAssumption DEF UploadsInv
  <2> QED
    BY <1>1, <1>6, <2>1, NamesStay DEF Import, Over, daemonVars
<1> QED
  BY <1>1, <1>2, <1>3, <1>4, <1>5, <1>6, GatewayFrame

(***************************************************************************)
(* A call that failed takes the file away under whatever it started.       *)
(***************************************************************************)
LEMMA CallFailsKeeps ==
  ASSUME UploadsInv, NEW u \in Uploads, CallFails(u)
  PROVE  UploadsInv'
<1>1. /\ handler[u] = "submitting" /\ Move(u, "failed") /\ permits' = permits - 1
      /\ Remove({u})
      /\ UNCHANGED <<poller, request, answer>>
      /\ UNCHANGED daemonVars /\ UNCHANGED waiter
  BY DEF CallFails, wireVars
<1>2. /\ UploadPermitsMatch' /\ permits' \in Nat
      /\ handler' \in [Uploads -> {"new", "streaming", "submitting", "answered",
                                   "failed", "gone"}]
      /\ handler'[u] = "failed"
      /\ \A v \in Uploads \ {u} : handler'[v] = handler[v]
  BY <1>1, HandlerEnds
<1>3. /\ file' \in [Uploads -> {"absent", "part", "ready"}]
      /\ file'[u] = "absent" /\ u \notin aged' /\ aged' \subseteq Uploads
      /\ \A v \in Uploads \ {u} : file'[v] = file[v] /\ (v \in aged' <=> v \in aged)
  BY <1>1, RemoveOne
<1>4. OthersStay(u)
  BY <1>1, <1>2, <1>3 DEF OthersStay
<1>5. TypeOK'
  BY <1>1, <1>2, <1>3 DEF UploadsInv, TypeOK, daemonVars
<1>6. Stage(u)'
  BY <1>1, <1>2, <1>3 DEF UploadsInv, Stage
<1>7. ASSUME NEW k \in DOMAIN tasks, tasks[k].source = u PROVE Import(k)'
  <2>1. Import(k)
    BY DEF UploadsInv
  <2> QED
    BY <1>1, <1>2, <1>3, <1>7, <2>1, NamesStay DEF Import, Over, daemonVars
<1> QED
  BY <1>1, <1>2, <1>4, <1>5, <1>6, <1>7, GatewayFrame

(***************************************************************************)
(* The answer hands its id on to the cleanup task; a refusal means that    *)
(* there is no import of the file.                                         *)
(***************************************************************************)
LEMMA ReadAnswerKeeps ==
  ASSUME UploadsInv, NEW u \in Uploads, ReadAnswer(u)
  PROVE  UploadsInv'
<1>0. TypeOK /\ Stage(u) /\ u # None
  BY UploadsAssumption DEF UploadsInv
<1>1. /\ handler[u] = "submitting" /\ answer[u] # None
      /\ Move(u, "answered") /\ permits' = permits - 1
      /\ answer' = [answer EXCEPT ![u] = None]
      /\ UNCHANGED request /\ UNCHANGED daemonVars /\ UNCHANGED waiter
  BY DEF ReadAnswer
<1>2. /\ UploadPermitsMatch' /\ permits' \in Nat
      /\ handler' \in [Uploads -> {"new", "streaming", "submitting", "answered",
                                   "failed", "gone"}]
      /\ handler'[u] = "answered"
      /\ \A v \in Uploads \ {u} : handler'[v] = handler[v]
  BY <1>1, HandlerEnds
<1>3. /\ answer' \in [Uploads -> Nat \cup {None}] /\ answer'[u] = None
      /\ \A v \in Uploads \ {u} : answer'[v] = answer[v]
  BY <1>0, <1>1 DEF TypeOK
<1>4. request[u] = "handled" /\ answer[u] \in Nat
  BY <1>0, <1>1 DEF Stage, TypeOK
<1>5. CASE answer[u] # 0
  <2>1. /\ poller' = [poller EXCEPT ![u] = [id |-> answer[u], polls |-> 0]]
        /\ UNCHANGED <<file, aged>>
    BY <1>5 DEF ReadAnswer
  <2>2. /\ poller' \in [Uploads -> [id : Nat, polls : Nat] \cup {None}]
        /\ poller'[u] = [id |-> answer[u], polls |-> 0]
        /\ \A v \in Uploads \ {u} : poller'[v] = poller[v]
    BY <1>0, <1>4, <2>1 DEF TypeOK
  <2>3. OthersStay(u)
    BY <1>1, <1>2, <1>3, <2>1, <2>2 DEF OthersStay
  <2>4. TypeOK'
    BY <1>0, <1>1, <1>2, <1>3, <2>1, <2>2 DEF TypeOK, daemonVars
  <2>5. Stage(u)'
    BY <1>0, <1>1, <1>2, <1>3, <1>4, <2>1 DEF Stage
  <2>6. ASSUME NEW k \in DOMAIN tasks, tasks[k].source = u PROVE Import(k)'
    <3>1. Import(k)
      BY DEF UploadsInv
    <3>2. poller'[u].id = answer[u]
      BY <2>2, SMTT(60)
    <3> QED
      BY <1>0, <1>1, <1>2, <1>3, <2>1, <2>6, <3>1, <3>2, NamesStay DEF Import, Over, daemonVars
  <2> QED
    BY <1>1, <1>2, <2>3, <2>4, <2>5, <2>6, GatewayFrame
<1>6. CASE answer[u] = 0
  <2>1. Remove({u}) /\ UNCHANGED poller
    BY <1>6 DEF ReadAnswer
  <2>2. /\ file' \in [Uploads -> {"absent", "part", "ready"}]
        /\ file'[u] = "absent" /\ u \notin aged' /\ aged' \subseteq Uploads
        /\ \A v \in Uploads \ {u} : file'[v] = file[v] /\ (v \in aged' <=> v \in aged)
    BY <2>1, RemoveOne
  <2>3. OthersStay(u)
    BY <1>1, <1>2, <1>3, <2>1, <2>2 DEF OthersStay
  <2>4. TypeOK'
    BY <1>0, <1>1, <1>2, <1>3, <2>1, <2>2 DEF TypeOK, daemonVars
  <2>5. Stage(u)'
    BY <1>0, <1>1, <1>2, <1>3, <1>4, <2>1, <2>2 DEF Stage
  <2>6. ASSUME NEW k \in DOMAIN tasks, tasks[k].source = u PROVE Import(k)'
    <3>1. Import(k)
      BY DEF UploadsInv
    <3>2. ~Names(answer[u], k)
      BY <1>6, SMTT(60) DEF Names
    <3>3. Over(tasks[k])
      BY <1>0, <1>1, <2>6, <3>1, <3>2 DEF Import
    <3> QED
      BY <1>1, <3>3 DEF Import, daemonVars
  <2> QED
    BY <1>1, <1>2, <2>3, <2>4, <2>5, <2>6, GatewayFrame
<1> QED
  BY <1>5, <1>6

(***************************************************************************)
(* An id that names a task shows that task, or nothing.                    *)
(***************************************************************************)
LEMMA ShownIsNamed ==
  ASSUME NEW id, NEW k, Names(id, k), Shown(id) # None
  PROVE  Shown(id) = k
<1>1. \E r \in DOMAIN records : records[r].id = id
  BY DEF Shown
<1> DEFINE r == CHOOSE r \in DOMAIN records : records[r].id = id
<1>2. r \in DOMAIN records /\ records[r].id = id
  BY <1>1
<1> QED
  BY <1>1, <1>2 DEF Shown, Names

LEMMA ShownType ==
  ASSUME TypeOK, NEW id, Shown(id) # None
  PROVE  Shown(id) \in Nat
<1>1. \E r \in DOMAIN records : records[r].id = id
  BY DEF Shown
<1> DEFINE r == CHOOSE r \in DOMAIN records : records[r].id = id
<1>2. r \in DOMAIN records
  BY <1>1
<1>3. records \in Seq([id : Nat, task : Nat])
  BY DEF TypeOK
<1>4. ASSUME NEW S, NEW q \in Seq(S), NEW i \in DOMAIN q PROVE q[i] \in S
  BY <1>4, SMTT(60)
<1>5. \A i \in DOMAIN records : records[i] \in [id : Nat, task : Nat]
  BY <1>3, <1>4, ZenonT(60)
<1>6. Shown(id) = records[r].task
  BY <1>1 DEF Shown
<1> QED
  BY <1>2, <1>5, <1>6

(***************************************************************************)
(* The cleanup task removes the file when the operation it sees is over;   *)
(* while the import lives, that operation is the import.                   *)
(***************************************************************************)
LEMMA PollKeeps ==
  ASSUME UploadsInv, NEW u \in Uploads, Poll(u)
  PROVE  UploadsInv'
<1>0. TypeOK /\ Stage(u) /\ u # None
  BY UploadsAssumption DEF UploadsInv
<1>1. /\ poller[u] # None /\ UNCHANGED <<handler, permits, request, answer>>
      /\ UNCHANGED daemonVars /\ UNCHANGED waiter
  BY DEF Poll, Polling, wireVars
<1>2. UploadPermitsMatch'
  BY <1>1, PermitsStay DEF Receiving
<1>3. poller[u] \in [id : Nat, polls : Nat]
  BY <1>0, <1>1 DEF TypeOK
<1>4. request[u] = "handled"
  BY <1>0, <1>1 DEF Stage, TypeOK
<1>5. CASE /\ Finished(Shown(poller[u].id)) /\ Remove({u})
           /\ poller' = [poller EXCEPT ![u] = None]
  <2>1. /\ file' \in [Uploads -> {"absent", "part", "ready"}]
        /\ file'[u] = "absent" /\ u \notin aged' /\ aged' \subseteq Uploads
        /\ \A v \in Uploads \ {u} : file'[v] = file[v] /\ (v \in aged' <=> v \in aged)
    BY <1>5, RemoveOne
  <2>2. /\ poller' \in [Uploads -> [id : Nat, polls : Nat] \cup {None}] /\ poller'[u] = None
        /\ \A v \in Uploads \ {u} : poller'[v] = poller[v]
    BY <1>0, <1>5 DEF TypeOK
  <2>3. OthersStay(u)
    BY <1>1, <2>1, <2>2 DEF OthersStay
  <2>4. TypeOK'
    BY <1>0, <1>1, <2>1, <2>2 DEF TypeOK, daemonVars
  <2>5. Stage(u)'
    BY <1>0, <1>1, <1>4, <2>1, <2>2 DEF Stage
  <2>6. ASSUME NEW k \in DOMAIN tasks, tasks[k].source = u PROVE Import(k)'
    <3>1. Import(k)
      BY DEF UploadsInv
    <3>2. ASSUME ~Over(tasks[k]) PROVE FALSE
      <4>1. Names(poller[u].id, k)
        BY <1>0, <1>1, <2>6, <3>1, <3>2 DEF Import
      <4>2. Shown(poller[u].id) = k
        BY <1>5, <4>1, ShownIsNamed DEF Finished
      <4> QED
        BY <1>5, <3>2, <4>2 DEF Finished
    <3> QED
      BY <1>1, <3>2 DEF Import, daemonVars
  <2> QED
    BY <1>1, <1>2, <2>3, <2>4, <2>5, <2>6, GatewayFrame
<1>6. CASE poller' = [poller EXCEPT ![u].polls = @ + 1] /\ UNCHANGED <<file, aged>>
  <2>1. /\ poller'[u] \in [id : Nat, polls : Nat] /\ poller'[u].id = poller[u].id
        /\ poller' \in [Uploads -> [id : Nat, polls : Nat] \cup {None}]
        /\ \A v \in Uploads \ {u} : poller'[v] = poller[v]
    <3> DEFINE next == [poller[u] EXCEPT !.polls = @ + 1]
    <3>1. next \in [id : Nat, polls : Nat] /\ next.id = poller[u].id
      BY <1>3, SMTT(60)
    <3>2. poller' = [poller EXCEPT ![u] = next]
      BY <1>6
    <3> HIDE DEF next
    <3> QED
      BY <1>0, <3>1, <3>2 DEF TypeOK
  <2>2. OthersStay(u)
    BY <1>1, <1>6, <2>1 DEF OthersStay
  <2>3. TypeOK'
    BY <1>0, <1>1, <1>6, <2>1 DEF TypeOK, daemonVars
  <2>4. Stage(u)'
    BY <1>0, <1>1, <1>4, <1>6, <2>1 DEF Stage
  <2>5. ASSUME NEW k \in DOMAIN tasks, tasks[k].source = u PROVE Import(k)'
    <3>1. Import(k)
      BY DEF UploadsInv
    <3> QED
      BY <1>0, <1>1, <1>6, <2>1, <2>5, <3>1, NamesStay DEF Import, Over, daemonVars
  <2> QED
    BY <1>1, <1>2, <2>2, <2>3, <2>4, <2>5, GatewayFrame
<1> QED
  BY <1>5, <1>6 DEF Poll

-----------------------------------------------------------------------------
(* The daemon's steps.                                                     *)

Record == [id : Nat, task : Nat]
Task == [source : Uploads \cup {None}, state : TaskStates]

(***************************************************************************)
(* A new operation's record: the others are old records, in any case.      *)
(***************************************************************************)
LEMMA NewRecord ==
  ASSUME UploadsInv, NEW source, CreateOperation(source)
  PROVE  \E new \in Record :
           /\ new.id = next_operation /\ new.task = Len(tasks) + 1
           /\ records' \in Seq(Record)
           /\ \A r \in DOMAIN records' :
                \/ records'[r] = new
                \/ \E s \in DOMAIN records : records'[r] = records[s]
<1>1. /\ records \in Seq(Record) /\ Len(tasks) \in Nat /\ next_operation \in Nat
      /\ OperationCapacity \in Nat \ {0}
  BY UploadsAssumption, SMTT(60) DEF UploadsInv, TypeOK, Record
<1> DEFINE new == [id |-> next_operation, task |-> Len(tasks) + 1]
           kept == IF Len(records) = OperationCapacity THEN Tail(records) ELSE records
<1>2. new \in Record /\ new.id = next_operation /\ new.task = Len(tasks) + 1
  BY <1>1, SMTT(60) DEF Record
<1>3. records' = Append(kept, new)
  BY DEF CreateOperation
<1>4. kept \in Seq(Record) /\ \A i \in DOMAIN kept : \E s \in DOMAIN records : kept[i] = records[s]
  <2>1. CASE Len(records) = OperationCapacity
    <3>1. /\ Tail(records) \in Seq(Record) /\ Len(Tail(records)) = Len(records) - 1
          /\ \A i \in 1..(Len(records) - 1) : Tail(records)[i] = records[i + 1]
      BY <1>1, <2>1, SMTT(60)
    <3>2. DOMAIN Tail(records) = 1..(Len(records) - 1) /\ DOMAIN records = 1..Len(records)
          /\ Len(records) \in Nat
      BY <1>1, <3>1, SMTT(60)
    <3>3. ASSUME NEW i \in DOMAIN Tail(records)
          PROVE  i + 1 \in DOMAIN records /\ Tail(records)[i] = records[i + 1]
      BY <3>1, <3>2, SMTT(60)
    <3> QED
      BY <2>1, <3>1, <3>3
  <2>2. CASE Len(records) # OperationCapacity
    BY <1>1, <2>2
  <2> QED
    BY <2>1, <2>2
<1> HIDE DEF new, kept
<1>5. /\ records' \in Seq(Record)
      /\ \A r \in DOMAIN records' : records'[r] = new \/ (r \in DOMAIN kept /\ records'[r] = kept[r])
  BY <1>2, <1>3, <1>4, SMTT(60)
<1> QED
  BY <1>2, <1>4, <1>5, SMTT(60)

(***************************************************************************)
(* It takes no id away from a task that has one, and names its own.        *)
(***************************************************************************)
LEMMA CreateKeepsNames ==
  ASSUME UploadsInv, NEW source \in Uploads \cup {None}, CreateOperation(source)
  PROVE  /\ \A id, k : Names(id, k) => Names(id, k)'
         /\ \A id, k : id = next_operation /\ k = Len(tasks) + 1 => Names(id, k)'
         /\ RecordsInv' /\ records' \in Seq(Record)
         /\ next_operation' = next_operation + 1 /\ daemonLife' = daemonLife
<1>1. /\ next_operation \in Nat \ {0} /\ records \in Seq(Record)
      /\ next_operation' = next_operation + 1 /\ daemonLife' = daemonLife
  BY DEF UploadsInv, TypeOK, Record, CreateOperation
<1>2. PICK new \in Record :
        /\ new.id = next_operation /\ new.task = Len(tasks) + 1
        /\ records' \in Seq(Record)
        /\ \A r \in DOMAIN records' :
             \/ records'[r] = new
             \/ \E s \in DOMAIN records : records'[r] = records[s]
  BY NewRecord
<1>3. \A r \in DOMAIN records : records[r].id \in 1..(next_operation - 1)
  BY DEF UploadsInv, RecordsInv
<1>4. ASSUME NEW id, NEW k, Names(id, k) PROVE Names(id, k)'
  <2>1. id \in Nat /\ id < next_operation /\ id \in 1..(next_operation' - 1)
    BY <1>1, <1>4, SMTT(60) DEF Names
  <2>2. ASSUME NEW r \in DOMAIN records', records'[r].id = id PROVE records'[r].task = k
    BY <1>2, <1>4, <2>1, <2>2, SMTT(60) DEF Names
  <2> QED
    BY <2>1, <2>2 DEF Names
<1>5. ASSUME NEW id, NEW k, id = next_operation, k = Len(tasks) + 1 PROVE Names(id, k)'
  <2>1. id \in 1..(next_operation' - 1)
    BY <1>1, <1>5, SMTT(60)
  <2>2. ASSUME NEW r \in DOMAIN records', records'[r].id = id PROVE records'[r].task = k
    BY <1>2, <1>3, <1>5, <2>2, SMTT(60)
  <2> QED
    BY <2>1, <2>2 DEF Names
<1>6. RecordsInv'
  <2>1. ASSUME NEW r \in DOMAIN records' PROVE records'[r].id \in 1..(next_operation' - 1)
    BY <1>1, <1>2, <1>3, SMTT(60)
  <2>2. ASSUME NEW r \in DOMAIN records', NEW s \in DOMAIN records',
               records'[r].id = records'[s].id
        PROVE  records'[r].task = records'[s].task
    <3>1. CASE records'[r] = new /\ records'[s] = new
      BY <3>1
    <3>2. CASE records'[r] = new /\ \E q \in DOMAIN records : records'[s] = records[q]
      BY <1>1, <1>2, <1>3, <2>2, <3>2, SMTT(60)
    <3>3. CASE records'[s] = new /\ \E q \in DOMAIN records : records'[r] = records[q]
      BY <1>1, <1>2, <1>3, <2>2, <3>3, SMTT(60)
    <3>4. CASE /\ \E q \in DOMAIN records : records'[r] = records[q]
               /\ \E q \in DOMAIN records : records'[s] = records[q]
      BY <2>2, <3>4 DEF UploadsInv, RecordsInv
    <3> QED
      BY <1>2, <3>1, <3>2, <3>3, <3>4
  <2> QED
    BY <2>1, <2>2 DEF RecordsInv
<1> QED
  BY <1>1, <1>2, <1>4, <1>5, <1>6

(***************************************************************************)
(* A new task joins the others.                                            *)
(***************************************************************************)
LEMMA NewTask ==
  ASSUME UploadsInv, NEW source \in Uploads \cup {None}, CreateOperation(source)
  PROVE  /\ tasks' \in Seq(Task)
         /\ DOMAIN tasks' = DOMAIN tasks \cup {Len(tasks) + 1}
         /\ \A k \in DOMAIN tasks : tasks'[k] = tasks[k]
         /\ tasks'[Len(tasks) + 1].source = source
<1> DEFINE new == [source |-> source, state |-> "Queued"]
<1>1. tasks \in Seq(Task) /\ new \in Task /\ new.source = source
  BY DEF UploadsInv, TypeOK, Task, TaskStates
<1>2. tasks' = Append(tasks, new)
  BY DEF CreateOperation
<1> HIDE DEF new
<1> QED
  BY <1>1, <1>2, SMTT(60)

(***************************************************************************)
(* Operations nobody uploaded for.                                         *)
(***************************************************************************)
LEMMA HandleOtherKeeps ==
  ASSUME UploadsInv, HandleOther
  PROVE  UploadsInv'
<1>1. /\ CreateOperation(None)
      /\ UNCHANGED <<handler, permits, file, aged, poller, request, answer, waiter>>
  BY DEF HandleOther, gatewayVars, wireVars
<1>2. /\ \A id, k : Names(id, k) => Names(id, k)'
      /\ RecordsInv' /\ records' \in Seq(Record)
      /\ next_operation' = next_operation + 1 /\ daemonLife' = daemonLife
  BY <1>1, CreateKeepsNames
<1>3. /\ tasks' \in Seq(Task)
      /\ DOMAIN tasks' = DOMAIN tasks \cup {Len(tasks) + 1}
      /\ \A k \in DOMAIN tasks : tasks'[k] = tasks[k]
      /\ tasks'[Len(tasks) + 1].source = None
  BY <1>1, NewTask, ZenonT(60)
<1>4. TypeOK'
  <2>1. TypeOK
    BY DEF UploadsInv
  <2>2. /\ tasks' \in Seq([source : Uploads \cup {None}, state : TaskStates])
        /\ records' \in Seq([id : Nat, task : Nat])
    BY <1>2, <1>3 DEF Record, Task
  <2>3. next_operation' \in Nat \ {0} /\ daemonLife' \in Nat
    BY <1>2, <2>1, SMTT(30) DEF TypeOK
  <2> QED
    BY <1>1, <2>1, <2>2, <2>3 DEF TypeOK
<1>5. UploadPermitsMatch' /\ \A u \in Uploads : Stage(u)'
  BY <1>1, PermitsStay DEF Receiving, UploadsInv, Stage
<1>6. ASSUME NEW k \in DOMAIN tasks' PROVE Import(k)'
  <2>1. CASE k \in DOMAIN tasks
    BY <1>1, <1>2, <1>3, <2>1, SMTT(60) DEF UploadsInv, Import, Over
  <2>2. CASE k = Len(tasks) + 1
    BY <1>3, <2>2 DEF Import
  <2> QED
    BY <1>3, <2>1, <2>2
<1>7. WaiterInv'
  BY <1>1, <1>2 DEF UploadsInv, WaiterInv
<1> QED
  BY <1>2, <1>4, <1>5, <1>6, <1>7 DEF UploadsInv

(***************************************************************************)
(* An accepted import finds its file ready and takes the id the answer     *)
(* carries; a refused one leaves nothing behind.                           *)
(***************************************************************************)
LEMMA HandleImportKeeps ==
  ASSUME UploadsInv, NEW u \in Uploads, HandleImport(u)
  PROVE  UploadsInv'
<1>0. TypeOK /\ Stage(u) /\ u # None
  BY UploadsAssumption DEF UploadsInv
<1>1. /\ request[u] = "sent" /\ request' = [request EXCEPT ![u] = "handled"]
      /\ UNCHANGED <<handler, permits, file, aged, poller, waiter>>
  BY DEF HandleImport, gatewayVars
<1>2. /\ request' \in [Uploads -> {"none", "sent", "handled"}] /\ request'[u] = "handled"
      /\ \A v \in Uploads \ {u} : request'[v] = request[v]
  BY <1>0, <1>1 DEF TypeOK
<1>3. answer[u] = None /\ poller[u] = None /\ u \notin aged
  BY <1>0, <1>1 DEF Stage
<1>4. UploadPermitsMatch'
  BY <1>1, PermitsStay DEF Receiving
<1>5. ASSUME NEW a \in Nat, SendAnswer(u, a)
      PROVE  /\ answer' \in [Uploads -> Nat \cup {None}]
             /\ answer'[u] \in {a, None}
             /\ \A v \in Uploads \ {u} : answer'[v] = answer[v]
  BY <1>0, <1>3, <1>5 DEF SendAnswer, TypeOK
<1>6. ASSUME /\ answer' \in [Uploads -> Nat \cup {None}]
             /\ \A v \in Uploads \ {u} : answer'[v] = answer[v]
      PROVE  \A v \in Uploads : Stage(v)'
  BY <1>0, <1>1, <1>2, <1>3, <1>6, SMTT(30) DEF UploadsInv, Stage
<1>7. \A k \in DOMAIN tasks : tasks[k].source = u => Over(tasks[k])
  BY <1>0, <1>1 DEF UploadsInv, Import
<1>8. CASE /\ file[u] = "ready" /\ CreateOperation(u) /\ SendAnswer(u, next_operation)
  <2>1. /\ answer' \in [Uploads -> Nat \cup {None}]
        /\ answer'[u] \in {next_operation, None}
        /\ \A v \in Uploads \ {u} : answer'[v] = answer[v]
    BY <1>0, <1>5, <1>8 DEF TypeOK
  <2>2. /\ \A id, k : Names(id, k) => Names(id, k)'
        /\ \A id, k : id = next_operation /\ k = Len(tasks) + 1 => Names(id, k)'
        /\ RecordsInv' /\ records' \in Seq(Record)
        /\ next_operation' = next_operation + 1 /\ daemonLife' = daemonLife
    BY <1>8, CreateKeepsNames
  <2>3. /\ tasks' \in Seq(Task)
        /\ DOMAIN tasks' = DOMAIN tasks \cup {Len(tasks) + 1}
        /\ \A k \in DOMAIN tasks : tasks'[k] = tasks[k]
        /\ tasks'[Len(tasks) + 1].source = u
    BY <1>8, NewTask, ZenonT(60)
  <2>4. TypeOK'
    BY <1>0, <1>1, <1>2, <2>1, <2>2, <2>3, SMTT(60) DEF TypeOK, Record, Task
  <2>5. ASSUME NEW k \in DOMAIN tasks' PROVE Import(k)'
    <3>1. CASE k \in DOMAIN tasks
      <4>1. tasks[k].source \in Uploads \cup {None} /\ Import(k) /\ tasks'[k] = tasks[k]
        BY <1>0, <2>3, <3>1, TaskType, SMTT(30) DEF UploadsInv
      <4>2. CASE tasks[k].source = u
        BY <1>7, <3>1, <4>1, <4>2, ZenonT(60) DEF Import
      <4>3. CASE tasks[k].source \in Uploads \ {u}
        BY <1>1, <1>2, <2>1, <2>2, <4>1, <4>3, ZenonT(60) DEF Import, Over
      <4>4. CASE tasks[k].source = None
        BY <4>1, <4>4, ZenonT(60) DEF Import
      <4> QED
        BY <4>1, <4>2, <4>3, <4>4
    <3>2. CASE k = Len(tasks) + 1
      BY <1>1, <1>2, <1>3, <1>8, <2>1, <2>2, <2>3, <3>2 DEF Import
    <3> QED
      BY <2>3, <3>1, <3>2
  <2>6. WaiterInv'
    BY <1>1, <2>2 DEF UploadsInv, WaiterInv
  <2> QED
    BY <1>4, <1>6, <2>1, <2>2, <2>4, <2>5, <2>6 DEF UploadsInv
<1>9. CASE SendAnswer(u, 0) /\ UNCHANGED daemonVars
  <2>1. /\ answer' \in [Uploads -> Nat \cup {None}]
        /\ \A v \in Uploads \ {u} : answer'[v] = answer[v]
    BY <1>5, <1>9
  <2>2. TypeOK' /\ OthersStay(u)
    BY <1>0, <1>1, <1>2, <1>9, <2>1 DEF TypeOK, daemonVars, OthersStay
  <2>3. Stage(u)'
    BY <1>6, <2>1
  <2>4. \A k \in DOMAIN tasks : tasks[k].source = u => Import(k)'
    BY <1>7, <1>9, SMTT(30) DEF Import, daemonVars
  <2> QED
    BY <1>1, <1>4, <1>9, <2>2, <2>3, <2>4, GatewayFrame
<1> QED
  BY <1>8, <1>9 DEF HandleImport

(***************************************************************************)
(* A worker never goes back, and is through with the path once it reads.   *)
(***************************************************************************)
LEMMA TaskStepKeeps ==
  ASSUME UploadsInv, NEW k \in DOMAIN tasks, TaskStep(k)
  PROVE  UploadsInv'
<1>0. TypeOK
  BY DEF UploadsInv
<1>1. PICK state \in TaskStates \ {"Queued", "Lost"} :
        /\ SetTask(k, state) /\ ~Over(tasks[k])
        /\ tasks[k].state = "Reading" => state = "Finished"
  BY DEF TaskStep, StartTask, OpenSource, FinishTask, TaskStates, Over
<1>2. /\ tasks' = [tasks EXCEPT ![k].state = state]
      /\ UNCHANGED <<records, next_operation, daemonLife, handler, permits, file, aged,
                     poller, request, answer, waiter>>
  BY <1>1 DEF SetTask, gatewayVars, wireVars
<1>3. /\ tasks' \in Seq(Task) /\ DOMAIN tasks' = DOMAIN tasks
      /\ tasks'[k].source = tasks[k].source /\ tasks'[k].state = state
      /\ \A j \in DOMAIN tasks : j # k => tasks'[j] = tasks[j]
  <2> DEFINE next == [tasks[k] EXCEPT !.state = state]
  <2>1. tasks \in Seq(Task)
    BY <1>0 DEF TypeOK, Task
  <2>2. tasks[k] \in Task
    BY <2>1, SMTT(60)
  <2>3. next \in Task /\ next.source = tasks[k].source /\ next.state = state
    BY <2>2 DEF Task
  <2>4. tasks' = [tasks EXCEPT ![k] = next]
    BY <1>2
  <2> HIDE DEF next
  <2> QED
    BY <2>1, <2>3, <2>4, SMTT(60)
<1>4. TypeOK'
  BY <1>0, <1>2, <1>3 DEF TypeOK, Task
<1>5. UploadPermitsMatch' /\ (\A u \in Uploads : Stage(u)') /\ RecordsInv'
  BY <1>2, PermitsStay, SMTT(60) DEF Receiving, UploadsInv, Stage, RecordsInv
<1>6. ASSUME NEW j \in DOMAIN tasks PROVE Import(j)'
  <2>1. Import(j)
    BY DEF UploadsInv
  <2>2. CASE j # k
    BY <1>2, <1>3, <2>1, <2>2, NamesStay DEF Import, Over
  <2>3. CASE j = k
    BY <1>1, <1>2, <1>3, <2>1, <2>3, NamesStay, SMTT(60) DEF Import, Over
  <2> QED
    BY <2>2, <2>3
<1>7. WaiterInv'
  BY <1>2, NamesStay DEF UploadsInv, WaiterInv
<1> QED
  BY <1>3, <1>4, <1>5, <1>6, <1>7 DEF UploadsInv

(***************************************************************************)
(* A restart of the daemon ends every task, so that an id may start over.  *)
(***************************************************************************)
LEMMA DaemonRestartsKeeps ==
  ASSUME UploadsInv, DaemonRestarts
  PROVE  UploadsInv'
<1>0. TypeOK
  BY DEF UploadsInv
<1>1. /\ daemonLife' = daemonLife + 1 /\ records' = <<>> /\ next_operation' = 1
      /\ request' = [u \in Uploads |-> IF request[u] = "sent" THEN "handled" ELSE request[u]]
      /\ answer' = [u \in Uploads |-> None]
      /\ UNCHANGED <<handler, permits, file, aged, poller, waiter>>
  BY DEF DaemonRestarts, gatewayVars
<1> DEFINE Ended(k) == IF Over(tasks[k]) THEN tasks[k] ELSE [tasks[k] EXCEPT !.state = "Lost"]
<1>2. tasks \in Seq(Task) /\ tasks' = [k \in DOMAIN tasks |-> Ended(k)]
  BY <1>0 DEF TypeOK, Task, DaemonRestarts
<1>3. ASSUME NEW k \in DOMAIN tasks PROVE Ended(k) \in Task /\ Over(Ended(k))
  <2>1. tasks[k] \in Task
    BY <1>2, SMTT(60)
  <2> QED
    BY <2>1 DEF Task, Over, TaskStates
<1> HIDE DEF Ended
<1>4. tasks' \in Seq(Task)
  BY <1>2, <1>3, SMTT(60)
<1>5. TypeOK'
  BY <1>0, <1>1, <1>4, SMTT(60) DEF TypeOK, Task
<1>6. UploadPermitsMatch'
  BY <1>1, PermitsStay DEF Receiving
<1>7. ASSUME NEW u \in Uploads PROVE Stage(u)'
  <2>1. Stage(u)
    BY DEF UploadsInv
  <2> QED
    BY <1>1, <2>1 DEF Stage
<1>8. \A k \in DOMAIN tasks' : Import(k)'
  BY <1>2, <1>3 DEF Import
<1>9. RecordsInv' /\ WaiterInv'
  BY <1>0, <1>1, SMTT(60) DEF UploadsInv, RecordsInv, WaiterInv, TypeOK
<1> QED
  BY <1>5, <1>6, <1>7, <1>8, <1>9 DEF UploadsInv

-----------------------------------------------------------------------------
(* Waiting, time, and restarts of the gateway.                             *)

(***************************************************************************)
(* A wait starts with the id of a retained record and reports what that id *)
(* shows.                                                                  *)
(***************************************************************************)
LEMMA WaitKeeps ==
  ASSUME UploadsInv, (\E k \in DOMAIN records : BeginWait(k)) \/ PollWait
  PROVE  UploadsInv'
<1>0. TypeOK
  BY DEF UploadsInv
<1>1. /\ UNCHANGED <<handler, permits, file, aged, poller, request, answer>>
      /\ tasks' = tasks /\ records' = records /\ next_operation' = next_operation
      /\ daemonLife' = daemonLife
  BY DEF BeginWait, PollWait, gatewayVars, wireVars, daemonVars
<1>2. UploadPermitsMatch' /\ (\A u \in Uploads : Stage(u)') /\ RecordsInv'
  BY <1>1, PermitsStay, SMTT(30) DEF Receiving, UploadsInv, Stage, RecordsInv
<1>3. \A k \in DOMAIN tasks' : Import(k)'
  BY <1>1, NamesStay, ZenonT(60) DEF UploadsInv, Import
<1>4. CASE \E k \in DOMAIN records : BeginWait(k)
  <2>1. PICK k \in DOMAIN records : BeginWait(k)
    BY <1>4
  <2>2. records[k] \in Record
    <3>1. records \in Seq(Record)
      BY <1>0 DEF TypeOK, Record
    <3> QED
      BY <3>1, SMTT(60)
  <2>3. PICK id \in Nat, task \in Nat :
          /\ id = records[k].id /\ task = records[k].task
          /\ waiter' = [id |-> id, task |-> task, life |-> daemonLife, saw |-> None]
    BY <2>1, <2>2 DEF BeginWait, Record
  <2>4. Names(id, task)
    BY <1>0, <2>3 DEF Names, UploadsInv, RecordsInv, TypeOK
  <2>5. Names(id, task)'
    BY <1>1, <2>4, NamesStay
  <2>6. /\ waiter' \in [id : Nat, task : Nat, life : Nat, saw : Nat \cup {None}]
        /\ waiter'.id = id /\ waiter'.task = task /\ waiter'.life = daemonLife
        /\ waiter'.saw = None
    BY <1>0, <2>3 DEF TypeOK
  <2>7. TypeOK' /\ WaiterInv'
    BY <1>0, <1>1, <2>5, <2>6, SMTT(30) DEF TypeOK, WaiterInv
  <2> QED
    BY <1>2, <1>3, <2>7 DEF UploadsInv
<1>5. CASE PollWait
  <2>1. \/ waiter' = None
        \/ /\ waiter # None /\ Finished(Shown(waiter.id))
           /\ waiter' = [waiter EXCEPT !.saw = Shown(waiter.id)]
    BY <1>5 DEF PollWait
  <2>2. CASE waiter' = None
    BY <1>0, <1>1, <1>2, <1>3, <2>2 DEF UploadsInv, TypeOK, WaiterInv
  <2>3. CASE /\ waiter # None /\ Finished(Shown(waiter.id))
             /\ waiter' = [waiter EXCEPT !.saw = Shown(waiter.id)]
    <3>1. waiter \in [id : Nat, task : Nat, life : Nat, saw : Nat \cup {None}]
      BY <1>0, <2>3 DEF TypeOK
    <3>2. Shown(waiter.id) \in Nat
      BY <1>0, <2>3, ShownType DEF Finished
    <3>3. /\ waiter' \in [id : Nat, task : Nat, life : Nat, saw : Nat \cup {None}]
          /\ waiter'.id = waiter.id /\ waiter'.task = waiter.task
          /\ waiter'.life = waiter.life /\ waiter'.saw = Shown(waiter.id)
      BY <2>3, <3>1, <3>2
    <3>4. waiter.life = daemonLife => Names(waiter.id, waiter.task)
      BY <2>3 DEF UploadsInv, WaiterInv
    <3>5. waiter.life = daemonLife => Shown(waiter.id) = waiter.task
      BY <2>3, <3>4, ShownIsNamed DEF Finished
    <3>6. waiter.life = daemonLife => Names(waiter.id, waiter.task)'
      <4>1. ASSUME NEW id, NEW task, id = waiter.id, task = waiter.task, Names(id, task)
            PROVE  Names(waiter.id, waiter.task)'
        BY <1>1, <3>3, <4>1, NamesStay, SMTT(60)
      <4> QED
        BY <3>4, <4>1
    <3>7. TypeOK' /\ WaiterInv'
      BY <1>0, <1>1, <2>3, <3>3, <3>5, <3>6, SMTT(30) DEF UploadsInv, TypeOK, WaiterInv
    <3> QED
      BY <1>2, <1>3, <3>7 DEF UploadsInv
  <2> QED
    BY <2>1, <2>2, <2>3
<1> QED
  BY <1>4, <1>5

(***************************************************************************)
(* Only files that no import needs grow old.                               *)
(***************************************************************************)
LEMMA DayPassesKeeps ==
  ASSUME UploadsInv, DayPasses
  PROVE  UploadsInv'
<1>0. TypeOK
  BY DEF UploadsInv
<1>1. /\ \A k \in DOMAIN tasks : Over(tasks[k])
      /\ \A u \in Uploads : handler[u] \notin {"streaming", "submitting"} /\ request[u] # "sent"
      /\ aged' = {u \in Uploads : file[u] # "absent"}
      /\ UNCHANGED <<handler, permits, file, poller, request, answer, waiter>>
      /\ tasks' = tasks /\ records' = records /\ next_operation' = next_operation
      /\ daemonLife' = daemonLife
  BY ZenonT(60) DEF DayPasses, wireVars, daemonVars
<1>2. TypeOK'
  BY <1>0, <1>1, SMTT(30) DEF TypeOK
<1>3. UploadPermitsMatch' /\ RecordsInv'
  BY <1>1, PermitsStay, ZenonT(60) DEF Receiving, UploadsInv, RecordsInv
<1>4. ASSUME NEW u \in Uploads PROVE Stage(u)'
  <2>1. Stage(u) /\ handler[u] \in {"new", "answered", "failed", "gone"}
    BY <1>0, <1>1 DEF UploadsInv, TypeOK
  <2> QED
    BY <1>1, <2>1 DEF Stage
<1>5. \A k \in DOMAIN tasks' : Import(k)'
  BY <1>1, ZenonT(60) DEF Import
<1>6. WaiterInv'
  BY <1>1, NamesStay DEF UploadsInv, WaiterInv
<1> QED
  BY <1>2, <1>3, <1>4, <1>5, <1>6 DEF UploadsInv

(***************************************************************************)
(* A restart of the gateway removes old files only, and frees the permits. *)
(***************************************************************************)
LEMMA GatewayRestartsKeeps ==
  ASSUME UploadsInv, GatewayRestarts
  PROVE  UploadsInv'
<1>0. TypeOK
  BY DEF UploadsInv
<1>1. /\ handler' = [u \in Uploads |-> IF handler[u] \in {"streaming", "submitting"}
                                       THEN "gone" ELSE handler[u]]
      /\ poller' = [u \in Uploads |-> IF poller[u] = None THEN None
                                      ELSE [poller[u] EXCEPT !.polls = PollLimit]]
      /\ permits' = 0
      /\ file' = [u \in Uploads |-> IF u \in aged THEN "absent" ELSE file[u]]
      /\ aged' = {}
      /\ UNCHANGED <<request, answer, waiter>>
      /\ tasks' = tasks /\ records' = records /\ next_operation' = next_operation
      /\ daemonLife' = daemonLife
  BY DEF GatewayRestarts, Remove, wireVars, daemonVars
<1>2. ASSUME NEW u \in Uploads
      PROVE  /\ poller'[u] \in [id : Nat, polls : Nat] \cup {None}
             /\ poller'[u] # None => poller[u] # None
             /\ poller[u] # None => poller'[u].id = poller[u].id
  <2>1. CASE poller[u] = None
    BY <1>1, <2>1
  <2>2. CASE poller[u] # None
    <3> DEFINE last == [poller[u] EXCEPT !.polls = PollLimit]
    <3>1. poller[u] \in [id : Nat, polls : Nat] /\ PollLimit \in Nat
      BY <1>0, <2>2, UploadsAssumption DEF TypeOK
    <3>2. last \in [id : Nat, polls : Nat] /\ last.id = poller[u].id
      BY <3>1
    <3>3. poller'[u] = last
      BY <1>1, <2>2
    <3> HIDE DEF last
    <3> QED
      BY <2>2, <3>2, <3>3
  <2> QED
    BY <2>1, <2>2
<1>3. /\ handler' \in [Uploads -> {"new", "streaming", "submitting", "answered",
                                   "failed", "gone"}]
      /\ file' \in [Uploads -> {"absent", "part", "ready"}]
      /\ poller' \in [Uploads -> [id : Nat, polls : Nat] \cup {None}]
  BY <1>0, <1>1, <1>2 DEF TypeOK
<1>4. TypeOK'
  BY <1>0, <1>1, <1>3 DEF TypeOK
<1>5. UploadPermitsMatch'
  <2>1. Receiving' = {}
    BY <1>1 DEF Receiving
  <2>2. Cardinality(Receiving)' = 0
    BY <2>1, FS_EmptySet
  <2> QED
    BY <1>1, <2>2, UploadsAssumption, SMTT(60) DEF UploadPermitsMatch
<1>6. ASSUME NEW u \in Uploads PROVE Stage(u)'
  <2>1. Stage(u)
    BY DEF UploadsInv
  <2> QED
    BY <1>0, <1>1, <1>2, <2>1 DEF Stage, TypeOK
<1>7. ASSUME NEW k \in DOMAIN tasks' PROVE Import(k)'
  <2>1. Import(k) /\ tasks[k].source \in Uploads \cup {None}
    BY <1>0, <1>1, TaskType DEF UploadsInv
  <2> QED
    BY <1>1, <1>2, <2>1, NamesStay DEF Import, Over
<1>8. RecordsInv' /\ WaiterInv'
  BY <1>1, NamesStay, SMTT(60) DEF UploadsInv, RecordsInv, WaiterInv
<1> QED
  BY <1>4, <1>5, <1>6, <1>7, <1>8 DEF UploadsInv

-----------------------------------------------------------------------------

(***************************************************************************)
(* What every step preserves holds throughout.                             *)
(***************************************************************************)
THEOREM UploadsInvariant == Spec => []UploadsInv
<1>1. Init => UploadsInv
  <2> SUFFICES ASSUME Init PROVE UploadsInv
    OBVIOUS
  <2>1. TypeOK
    BY SMTT(60) DEF Init, TypeOK
  <2>2. Receiving = {}
    BY DEF Init, Receiving
  <2>3. UploadPermitsMatch
    BY <2>2, FS_EmptySet, UploadsAssumption, SMTT(60) DEF Init, UploadPermitsMatch
  <2>4. (\A u \in Uploads : Stage(u)) /\ RecordsInv /\ WaiterInv
    BY SMTT(60) DEF Init, Stage, RecordsInv, WaiterInv
  <2>5. \A k \in DOMAIN tasks : Import(k)
    BY SMTT(60) DEF Init
  <2> QED
    BY <2>1, <2>3, <2>4, <2>5 DEF UploadsInv
<1>2. UploadsInv /\ [Next]_vars => UploadsInv'
  <2> SUFFICES ASSUME UploadsInv, [Next]_vars PROVE UploadsInv'
    OBVIOUS
  <2>1. CASE UNCHANGED vars
    <3>1. /\ UNCHANGED <<handler, permits, file, aged, poller, request, answer, waiter>>
          /\ tasks' = tasks /\ records' = records /\ next_operation' = next_operation
          /\ daemonLife' = daemonLife
      BY <2>1 DEF vars, gatewayVars, wireVars, daemonVars
    <3>2. TypeOK'
      BY <3>1 DEF UploadsInv, TypeOK
    <3>3. UploadPermitsMatch'
      BY <3>1, PermitsStay DEF Receiving
    <3>4. RecordsInv' /\ \A u \in Uploads : Stage(u)'
      BY <3>1, SMTT(30) DEF UploadsInv, RecordsInv, Stage
    <3>5. WaiterInv' /\ \A k \in DOMAIN tasks' : Import(k)'
      BY <3>1, NamesStay, ZenonT(60) DEF UploadsInv, WaiterInv, Import
    <3> QED
      BY <3>2, <3>3, <3>4, <3>5 DEF UploadsInv
  <2>2. CASE \E u \in Uploads : BeginUpload(u) \/ GatewayStep(u) \/ HandleImport(u)
    BY <2>2, BeginUploadKeeps, CreatePartKeeps, RefuseUploadKeeps, SubmitImportKeeps,
       BrowserGoneKeeps, ReadAnswerKeeps, CallFailsKeeps, PollKeeps, HandleImportKeeps
    DEF GatewayStep
  <2>3. CASE \E k \in DOMAIN tasks : TaskStep(k)
    BY <2>3, TaskStepKeeps
  <2>4. CASE (\E k \in DOMAIN records : BeginWait(k)) \/ PollWait
    BY <2>4, WaitKeeps
  <2> QED
    BY <2>1, <2>2, <2>3, <2>4, HandleOtherKeeps, DaemonRestartsKeeps, DayPassesKeeps,
       GatewayRestartsKeeps
    DEF Next
<1> QED
  BY <1>1, <1>2, PTL DEF Spec, Safety

(***************************************************************************)
(* However many uploads and restarts there are and however little the      *)
(* registry retains, the gateway takes no file away under an accepted      *)
(* import, except when the call that submitted it failed.                  *)
(***************************************************************************)
THEOREM FilesAreThere == Spec => []ImportsFindTheirFile
<1>1. UploadsInv => ImportsFindTheirFile
  BY ZenonT(60) DEF UploadsInv, Import, ImportsFindTheirFile, Over
<1> QED
  BY <1>1, UploadsInvariant, PTL

(***************************************************************************)
(* A wait that reports an end within one life of the daemon reports the    *)
(* end of the operation it was asked about, although records are evicted.  *)
(***************************************************************************)
THEOREM WaitsAreTrue == Spec => []WaitersAreNotMisled
<1>1. UploadsInv => WaitersAreNotMisled
  BY DEF UploadsInv, WaiterInv, WaitersAreNotMisled
<1> QED
  BY <1>1, UploadsInvariant, PTL

(***************************************************************************)
(* The gateway's upload permits are neither lost nor granted twice.        *)
(***************************************************************************)
THEOREM PermitsMatch == Spec => []UploadPermitsMatch
<1>1. UploadsInv => UploadPermitsMatch
  BY DEF UploadsInv
<1> QED
  BY <1>1, UploadsInvariant, PTL

-----------------------------------------------------------------------------
(* Why the directory does not fill up: the safety half of FilesAreRemoved. *)

\* The handler is receiving or submitting, or the cleanup task has rounds
\* left: a step of GatewayStep(u) is possible (RefuseUpload, CallFails, Poll).
Attended(u) == handler[u] \in {"streaming", "submitting"} \/ Polling(u)

(***************************************************************************)
(* A file in the upload directory that nobody deals with any more is one   *)
(* of the two kinds that only `cleanup_stale_uploads` removes: its browser *)
(* or gateway went away mid-upload, or its cleanup task ran out of polls.  *)
(***************************************************************************)
FilesAreAttended ==
  \A u \in Uploads : file[u] # "absent" =>
    \/ Attended(u) \/ handler[u] = "gone"
    \/ poller[u] # None /\ poller[u].polls = PollLimit

\* The steps the gateway can still make for an upload.
Work(u) ==
  CASE handler[u] = "new" -> PollLimit + 4
    [] handler[u] = "streaming" -> PollLimit + (IF file[u] = "absent" THEN 3 ELSE 2)
    [] handler[u] = "submitting" -> PollLimit + 1
    [] handler[u] = "answered" /\ poller[u] # None -> PollLimit - poller[u].polls
    [] OTHER -> 0

\* The work for an upload never grows, and each step of its own shrinks it.
Winds(u) == Work(u)' <= Work(u) /\ (GatewayStep(u) => Work(u)' < Work(u))

WorkRunsOut == [][\A u \in Uploads : Winds(u)]_vars

\* Rounds are counted up to the limit, and a file kept past its handler has a
\* cleanup task.
Kept(u) ==
  /\ poller[u] # None => poller[u].polls <= PollLimit
  /\ handler[u] \in {"answered", "failed"} /\ file[u] # "absent" => poller[u] # None

(***************************************************************************)
(* The types that the work of an upload is counted in.                     *)
(***************************************************************************)
LEMMA WorkTypes ==
  ASSUME UploadsInv, NEW u \in Uploads
  PROVE  /\ handler[u] \in {"new", "streaming", "submitting", "answered", "failed", "gone"}
         /\ file[u] \in {"absent", "part", "ready"}
         /\ poller[u] # None => poller[u].polls \in Nat
         /\ PollLimit \in Nat \ {0}
         /\ Stage(u)
<1>1. TypeOK /\ Stage(u)
  BY DEF UploadsInv
<1>2. poller[u] \in [id : Nat, polls : Nat] \cup {None}
  BY <1>1 DEF TypeOK
<1> QED
  BY <1>1, <1>2, UploadsAssumption DEF TypeOK

(***************************************************************************)
(* A step that leaves an upload alone.                                     *)
(***************************************************************************)
LEMMA WorkStays ==
  ASSUME UploadsInv, NEW u \in Uploads, Kept(u),
         handler'[u] = handler[u], file'[u] = file[u], poller'[u] = poller[u]
  PROVE  Kept(u)' /\ Work(u)' = Work(u) /\ Work(u)' <= Work(u)
<1>1. Kept(u)' /\ Work(u)' = Work(u)
  BY DEF Kept, Work
<1>2. Work(u) \in Int
  BY WorkTypes, SMTT(60) DEF Work
<1> QED
  BY <1>1, <1>2, SMTT(60)

(***************************************************************************)
(* A step of the gateway for the upload itself.                            *)
(***************************************************************************)
LEMMA OwnStepWinds ==
  ASSUME UploadsInv, NEW u \in Uploads, Kept(u), GatewayStep(u)
  PROVE  Kept(u)' /\ Work(u)' < Work(u) /\ Work(u)' <= Work(u)
<1> USE WorkTypes
<1>0. /\ handler \in [Uploads -> {"new", "streaming", "submitting", "answered", "failed",
                                  "gone"}]
      /\ file \in [Uploads -> {"absent", "part", "ready"}]
      /\ poller \in [Uploads -> [id : Nat, polls : Nat] \cup {None}]
      /\ answer \in [Uploads -> Nat \cup {None}]
  BY DEF UploadsInv, TypeOK
<1>1. CASE CreatePart(u)
  <2>1. /\ handler[u] = "streaming" /\ file[u] = "absent" /\ file'[u] = "part"
        /\ handler'[u] = handler[u] /\ poller'[u] = poller[u]
    BY <1>0, <1>1 DEF CreatePart
  <2> QED
    BY <2>1, SMTT(60) DEF Kept, Work, Stage
<1>2. CASE RefuseUpload(u)
  <2>1. /\ handler[u] = "streaming" /\ handler'[u] = "answered" /\ file'[u] = "absent"
        /\ poller'[u] = poller[u]
    BY <1>0, <1>2 DEF RefuseUpload, Move, Remove
  <2> QED
    BY <2>1, SMTT(60) DEF Kept, Work, Stage
<1>3. CASE SubmitImport(u)
  <2>1. /\ handler[u] = "streaming" /\ file[u] = "part" /\ handler'[u] = "submitting"
        /\ poller'[u] = poller[u]
    BY <1>0, <1>3 DEF SubmitImport, Move
  <2> QED
    BY <2>1, SMTT(60) DEF Kept, Work, Stage
<1>4. CASE BrowserGone(u)
  <2>1. /\ handler[u] \in {"streaming", "submitting"} /\ handler'[u] = "gone"
        /\ poller'[u] = poller[u]
    BY <1>0, <1>4 DEF BrowserGone, Move
  <2> QED
    BY <2>1, SMTT(60) DEF Kept, Work, Stage
<1>5. CASE ReadAnswer(u)
  <2>1. handler[u] = "submitting" /\ handler'[u] = "answered"
    BY <1>0, <1>5 DEF ReadAnswer, Move
  <2>2. CASE answer[u] # 0
    <3>1. poller'[u] = [id |-> answer[u], polls |-> 0]
      BY <1>0, <1>5, <2>2 DEF ReadAnswer
    <3>2. poller'[u] # None /\ poller'[u].polls = 0
      <4>1. answer[u] \in Nat
        BY <1>0, <1>5 DEF ReadAnswer
      <4>2. poller'[u] \in [id : Nat, polls : Nat]
        BY <3>1, <4>1, SMTT(60)
      <4>3. poller'[u].polls = 0
        BY <3>1, SMTT(60)
      <4> QED
        BY <4>2, <4>3, UploadsAssumption
    <3>3. Kept(u)'
      BY <3>2, SMTT(60) DEF Kept
    <3>4. Work(u) = PollLimit + 1
      BY <2>1, SMTT(60) DEF Work
    <3>5. Work(u)' = PollLimit - poller'[u].polls
      BY <2>1, <3>2, SMTT(60) DEF Work
    <3> QED
      BY <3>2, <3>3, <3>4, <3>5, SMTT(60)
  <2>3. CASE answer[u] = 0
    <3>1. file'[u] = "absent" /\ poller'[u] = poller[u]
      BY <1>5, <2>3 DEF ReadAnswer, Remove
    <3> QED
      BY <2>1, <3>1, SMTT(60) DEF Kept, Work, Stage
  <2> QED
    BY <2>2, <2>3
<1>6. CASE CallFails(u)
  <2>1. /\ handler[u] = "submitting" /\ handler'[u] = "failed" /\ file'[u] = "absent"
        /\ poller'[u] = poller[u]
    BY <1>0, <1>6 DEF CallFails, Move, Remove
  <2> QED
    BY <2>1, SMTT(60) DEF Kept, Work, Stage
<1>7. CASE Poll(u)
  <2>1. /\ poller[u] # None /\ poller[u].polls < PollLimit /\ handler'[u] = handler[u]
    BY <1>7 DEF Poll, Polling
  <2>2. CASE poller' = [poller EXCEPT ![u] = None] /\ Remove({u})
    <3>1. poller'[u] = None /\ file'[u] = "absent"
      BY <1>0, <2>2 DEF Remove
    <3> QED
      BY <2>1, <3>1, SMTT(60) DEF Kept, Work, Stage
  <2>3. CASE poller' = [poller EXCEPT ![u].polls = @ + 1] /\ UNCHANGED <<file, aged>>
    <3>1. poller'[u] = [poller[u] EXCEPT !.polls = @ + 1]
      BY <1>0, <2>3
    <3>2. poller[u] \in [id : Nat, polls : Nat]
      BY <1>0, <2>1
    <3>3. poller'[u].polls = poller[u].polls + 1 /\ poller'[u] \in [id : Nat, polls : Nat]
      BY <3>1, <3>2, SMTT(60)
    <3>4. poller'[u] # None
      BY <3>3, UploadsAssumption
    <3> QED
      BY <2>1, <2>3, <3>3, <3>4, SMTT(60) DEF Kept, Work, Stage
  <2> QED
    BY <1>7, <2>2, <2>3 DEF Poll
<1> QED
  BY <1>1, <1>2, <1>3, <1>4, <1>5, <1>6, <1>7 DEF GatewayStep

(***************************************************************************)
(* Any step: those of other uploads, of the daemon and of clients leave    *)
(* the upload alone, and a restart of the gateway ends its work.           *)
(***************************************************************************)
LEMMA StepWinds ==
  ASSUME UploadsInv, NEW u \in Uploads, Kept(u), [Next]_vars
  PROVE  Kept(u)' /\ Work(u)' <= Work(u)
<1> USE WorkTypes
<1>0. /\ handler \in [Uploads -> {"new", "streaming", "submitting", "answered", "failed",
                                  "gone"}]
      /\ file \in [Uploads -> {"absent", "part", "ready"}]
      /\ poller \in [Uploads -> [id : Nat, polls : Nat] \cup {None}]
  BY DEF UploadsInv, TypeOK
<1>1. Work(u) \in Int
  BY SMTT(60) DEF Work
<1>2. CASE GatewayStep(u)
  BY <1>2, OwnStepWinds
<1>3. ASSUME NEW v \in Uploads, v # u, GatewayStep(v)
      PROVE  Kept(u)' /\ Work(u)' <= Work(u)
  <2>1. handler'[u] = handler[u]
    BY <1>0, <1>3 DEF GatewayStep, CreatePart, RefuseUpload, SubmitImport, BrowserGone,
                      ReadAnswer, CallFails, Poll, Move
  <2>2. file'[u] = file[u]
    BY <1>0, <1>3 DEF GatewayStep, CreatePart, RefuseUpload, SubmitImport, BrowserGone,
                      ReadAnswer, CallFails, Poll, Remove
  <2>3. poller'[u] = poller[u]
    BY <1>0, <1>3 DEF GatewayStep, CreatePart, RefuseUpload, SubmitImport, BrowserGone,
                      ReadAnswer, CallFails, Poll
  <2> QED
    BY <2>1, <2>2, <2>3, WorkStays
<1>4. CASE BeginUpload(u)
  <2>1. /\ handler[u] = "new" /\ handler'[u] = "streaming" /\ file'[u] = file[u]
        /\ poller'[u] = poller[u]
    BY <1>0, <1>4 DEF BeginUpload, Move
  <2> QED
    BY <2>1, SMTT(60) DEF Kept, Work, Stage
<1>5. ASSUME NEW v \in Uploads, v # u, BeginUpload(v)
      PROVE  Kept(u)' /\ Work(u)' <= Work(u)
  <2>1. handler'[u] = handler[u] /\ file'[u] = file[u] /\ poller'[u] = poller[u]
    BY <1>0, <1>5 DEF BeginUpload, Move
  <2> QED
    BY <2>1, WorkStays
<1>6. CASE GatewayRestarts
  <2>1. /\ handler'[u] = IF handler[u] \in {"streaming", "submitting"} THEN "gone"
                                                                      ELSE handler[u]
        /\ poller'[u] = IF poller[u] = None THEN None
                        ELSE [poller[u] EXCEPT !.polls = PollLimit]
        /\ file'[u] = "absent" \/ file'[u] = file[u]
    BY <1>6 DEF GatewayRestarts, Remove
  <2>2. CASE poller[u] = None
    BY <2>1, <2>2, SMTT(60) DEF Kept, Work, Stage
  <2>3. CASE poller[u] # None
    <3>1. poller[u] \in [id : Nat, polls : Nat]
      BY <1>0, <2>3
    <3>2. poller'[u].polls = PollLimit /\ poller'[u] \in [id : Nat, polls : Nat]
      BY <2>1, <2>3, <3>1, SMTT(60)
    <3>3. poller'[u] # None
      BY <3>2, UploadsAssumption
    <3> QED
      BY <2>1, <2>3, <3>2, <3>3, SMTT(60) DEF Kept, Work, Stage
  <2> QED
    BY <2>2, <2>3
<1>7. ASSUME UNCHANGED <<handler, file, poller>>
      PROVE  Kept(u)' /\ Work(u)' <= Work(u)
  BY <1>7, WorkStays
<1>8. ASSUME NEW v \in Uploads, HandleImport(v)
      PROVE  UNCHANGED <<handler, file, poller>>
  BY <1>8 DEF HandleImport, gatewayVars
<1>9. ASSUME NEW k, TaskStep(k)
      PROVE  UNCHANGED <<handler, file, poller>>
  BY <1>9 DEF TaskStep, StartTask, OpenSource, FinishTask, SetTask, gatewayVars
<1>10. ASSUME \/ \E k \in DOMAIN records : BeginWait(k)
              \/ HandleOther \/ PollWait \/ DaemonRestarts \/ DayPasses \/ UNCHANGED vars
       PROVE  UNCHANGED <<handler, file, poller>>
  BY <1>10 DEF BeginWait, HandleOther, PollWait, DaemonRestarts, DayPasses, vars,
               gatewayVars
<1> QED
  BY <1>2, <1>3, <1>4, <1>5, <1>6, <1>7, <1>8, <1>9, <1>10 DEF Next

LEMMA KeptInvariant == Spec => [](\A u \in Uploads : Kept(u))
<1>1. Init => \A u \in Uploads : Kept(u)
  BY DEF Init, Kept
<1>2. UploadsInv /\ (\A u \in Uploads : Kept(u)) /\ [Next]_vars
        => (\A u \in Uploads : Kept(u))'
  BY StepWinds
<1> QED
  BY <1>1, <1>2, UploadsInvariant, PTL DEF Spec, Safety

(***************************************************************************)
(* No file is forgotten: whatever is in the upload directory is being      *)
(* received, submitted or polled for, or is of a kind left to the cleanup  *)
(* at the next start.  For any number of uploads, polls and restarts.      *)
(***************************************************************************)
THEOREM NoFileIsForgotten == Spec => []FilesAreAttended
<1>1. ASSUME UploadsInv, \A u \in Uploads : Kept(u)
      PROVE  FilesAreAttended
  <2>1. SUFFICES ASSUME NEW u \in Uploads, file[u] # "absent"
                 PROVE  \/ Attended(u) \/ handler[u] = "gone"
                        \/ poller[u] # None /\ poller[u].polls = PollLimit
    BY DEF FilesAreAttended
  <2> QED
    BY <1>1, <2>1, WorkTypes, SMTT(60) DEF Attended, Polling, Kept, Stage
<1> QED
  BY <1>1, UploadsInvariant, KeptInvariant, PTL

(***************************************************************************)
(* Nobody waits for a file without end: an upload is at most PollLimit + 4 *)
(* steps of the gateway, nothing that the daemon, other uploads, clients   *)
(* or restarts do adds to them, and each one taken leaves fewer.           *)
(***************************************************************************)
THEOREM UploadsWindDown == Spec => WorkRunsOut
<1>1. ASSUME UploadsInv, \A u \in Uploads : Kept(u), [Next]_vars
      PROVE  \A u \in Uploads : Winds(u)
  BY <1>1, OwnStepWinds, StepWinds DEF Winds
<1>2. UploadsInv /\ (\A u \in Uploads : Kept(u)) /\ [Next]_vars
        => [\A u \in Uploads : Winds(u)]_vars
  BY <1>1
<1> QED
  BY <1>2, UploadsInvariant, KeptInvariant, PTL DEF Spec, Safety, WorkRunsOut
=============================================================================
