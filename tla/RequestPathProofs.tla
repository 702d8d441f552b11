-------------------------- MODULE RequestPathProofs --------------------------
(***************************************************************************)
(* Proofs about RequestPath, for every set of peers and of browser bodies. *)
(***************************************************************************)
EXTENDS RequestPath, TLAPS

\* The class the daemon gives the call.
Class == RouteFor(request.method, request.path)

(***************************************************************************)
(* A route that only asks for read access is a GET: no branch of           *)
(* `route_for` gives ReadOnly to another method.                           *)
(***************************************************************************)
LEMMA ReadsAreGets ==
  ASSUME NEW method, NEW path, RouteFor(method, path) = "ReadOnly"
  PROVE  method = "GET"
<1>1. None # "ReadOnly"
  BY NoneAssumption
<1> QED
  BY <1>1, ZenonT(30) DEF RouteFor

(***************************************************************************)
(* An import has no route but an administrator's.                          *)
(***************************************************************************)
LEMMA ImportsAreAdministration ==
  ASSUME NEW method, NEW path \in {<<"images">>, <<"os-images">>}, method # "GET"
  PROVE  RouteFor(method, path) \in {"Administration", None}
<1>1. Len(path) = 1 /\ path[1] \in {"images", "os-images"}
  OBVIOUS
<1>2. /\ ~OperationPath(path) /\ ~ImageResource(path) /\ ~OsImageResource(path)
      /\ InstanceAction(path) = None
  BY <1>1 DEF OperationPath, ImageResource, OsImageResource, InstanceAction
<1>3. <<method, path>> \notin {<<"PUT", <<"resource-pool">>>>, <<"POST", <<"instances">>>>}
  OBVIOUS
<1>4. None # "none"
  BY NoneAssumption
<1> QED
  BY <1>2, <1>3, <1>4, ZenonT(30) DEF RouteFor

(***************************************************************************)
(* The rank an authorization asks for.                                     *)
(***************************************************************************)
LEMMA RolesCover ==
  ASSUME NEW p, NEW class, Authorize(p, class), class # "ReadOnly"
  PROVE  /\ Role(p) \in {"Operator", "Administrator"}
         /\ class = "Administration" => Role(p) = "Administrator"
  BY DEF Authorize, Role, Ranks

-----------------------------------------------------------------------------

Refused == answer.kind = "error" /\ effects \subseteq {"cancel"}

Granted ==
  /\ answer.kind \in {"result", "accepted"}
  /\ answer.status \in 200..299
  /\ IF request.method = "GET" THEN effects = {}
       ELSE effects # {} /\ answer.code # "incompatible"

\* An answer every front end can read, and that agrees with what was done.
AnswerIsTrue ==
  \/ Granted
  \/ /\ Refused
     /\ answer.status \in 400..599
     /\ answer.code \in {"InvalidRequest", "Forbidden", "NotFound",
                         "BackendUnavailable", "Internal"}

\* The audit trail of a call that is answered.
AnswerIsAudited ==
  \/ audits = <<>> /\ Class = None /\ effects = {}
  \/ audits = <<"Allowed">>
  \/ audits \in {<<"Denied">>, <<"Failed">>} /\ effects = {}

\* What ReportsAreTruthful says of a report.
ReportIsTrue ==
  /\ report \in {"result", "accepted", "Success"} /\ request.method # "GET"
       => effects # {}
  /\ report \in {"Rejected", "error", "RequestRejected", "Authorization", "Service"}
       => effects \subseteq {"cancel"}
  /\ report # "Protocol"

\* The three properties are proved together, stage by stage.
PathInv ==
  /\ stage \in {"idle", "sent", "handling"} => effects = {} /\ audits = <<>>
  /\ stage = "idle" => answer = None
  /\ stage = "handling" => Authorize(peer, Class)
  /\ stage = "handled" => connected /\ audits = <<>> /\ AnswerIsTrue
  /\ stage = "answered" => connected /\ AnswerIsAudited /\ AnswerIsTrue
  /\ stage = "over" /\ connected /\ answer # None => AnswerIsAudited /\ ReportIsTrue
  /\ stage = "over" /\ connected /\ audits = <<>> => effects = {}
  /\ EffectsAreAuthorized

(***************************************************************************)
(* The daemon's error statuses are error statuses to every client.         *)
(***************************************************************************)
LEMMA ErrorStatuses ==
  ASSUME NEW code \in {"InvalidRequest", "Forbidden", "NotFound",
                       "BackendUnavailable", "Internal"}
  PROVE  /\ Failure(code).kind = "error"
         /\ Failure(code).status \in 400..599
         /\ Failure(code).code = code
<1>1. StatusForError(code) \in 400..599
  BY DEF StatusForError
<1> QED
  BY <1>1 DEF Failure, Envelope

(***************************************************************************)
(* The handler answers truly, and sets nothing in motion that the route's  *)
(* class does not ask the role for.                                        *)
(***************************************************************************)
LEMMA HandleKeeps ==
  ASSUME PathInv, Handle
  PROVE  PathInv'
<1>1. PICK outcome \in Outcomes(request) :
        answer' = outcome.answer /\ effects' = outcome.effects
  BY DEF Handle
<1>2. /\ stage = "handling" /\ stage' = IF connected THEN "handled" ELSE "over"
      /\ UNCHANGED <<peer, allow_unprivileged_reads, request, connected, audits>>
  BY DEF Handle
<1>3. Authorize(peer, Class) /\ audits = <<>>
  BY <1>2 DEF PathInv
<1>4. ASSUME NEW code \in {"InvalidRequest", "Forbidden", "NotFound",
                           "BackendUnavailable", "Internal"},
             outcome.answer = Failure(code), outcome.effects \subseteq {"cancel"}
      PROVE  AnswerIsTrue'
  BY <1>1, <1>4, ErrorStatuses DEF AnswerIsTrue, Refused
<1>5. CASE request.method = "GET"
  <2>1. PICK e \in ReadResults(request) \cup {Failure(c) : c \in ReadErrors(request)} :
          outcome.answer = e /\ outcome.effects = {}
    BY <1>5 DEF Outcomes, Outcome
  <2>2. CASE e \in ReadResults(request)
    <3>1. e.kind = "result" /\ e.status = 200
      BY <2>2 DEF ReadResults, Envelope
    <3>2. AnswerIsTrue'
      BY <1>1, <1>2, <1>5, <2>1, <3>1 DEF AnswerIsTrue, Granted
    <3> QED
      BY <1>1, <1>2, <1>3, <2>1, <3>2 DEF PathInv, EffectsAreAuthorized
  <2>3. CASE e \in {Failure(c) : c \in ReadErrors(request)}
    <3>1. PICK c \in ReadErrors(request) : e = Failure(c)
      BY <2>3
    <3>2. c \in {"InvalidRequest", "NotFound", "BackendUnavailable"}
      BY DEF ReadErrors
    <3>3. AnswerIsTrue'
      BY <1>4, <2>1, <3>1, <3>2
    <3> QED
      BY <1>1, <1>2, <1>3, <2>1, <3>3 DEF PathInv, EffectsAreAuthorized
  <2> QED
    BY <2>1, <2>2, <2>3
<1>6. CASE request.method # "GET"
  <2>1. Class # "ReadOnly"
    BY <1>6, ReadsAreGets DEF Class
  <2>2. Role(peer) \in {"Operator", "Administrator"}
    BY <1>3, <2>1, RolesCover
  <2>3. "import" \in outcome.effects => Role(peer) = "Administrator"
    <3> SUFFICES ASSUME "import" \in outcome.effects
                 PROVE  Role(peer) = "Administrator"
      OBVIOUS
    <3>1. request.path \in {<<"images">>, <<"os-images">>}
      BY <1>6 DEF Outcomes, Outcome, Submits
    <3>2. Class \in {"Administration", None}
      BY <1>6, <3>1, ImportsAreAdministration DEF Class
    <3>3. Class # None
      BY <1>3, NoneAssumption DEF Authorize
    <3> QED
      BY <1>3, <2>1, <3>2, <3>3, RolesCover
  <2>4. AnswerIsTrue'
    <3>1. CASE /\ outcome.answer = Envelope(202, "accepted", None)
               /\ outcome.effects # {}
      <4>1. /\ outcome.answer.kind = "accepted" /\ outcome.answer.status = 202
            /\ outcome.answer.code # "incompatible"
        BY <3>1, NoneAssumption DEF Envelope
      <4> QED
        BY <1>1, <1>2, <1>6, <3>1, <4>1 DEF AnswerIsTrue, Granted
    <3>2. CASE /\ outcome.answer = Failure("NotFound")
               /\ outcome.effects \subseteq {"cancel"}
      BY <1>4, <3>2
    <3>3. CASE \E c \in SubmitErrors(request) \cup {"InvalidRequest"} :
                 outcome.answer = Failure(c) /\ outcome.effects = {}
      <4>1. SubmitErrors(request) \subseteq {"BackendUnavailable", "InvalidRequest", "Forbidden"}
        BY DEF SubmitErrors
      <4> QED
        BY <1>4, <3>3, <4>1
    <3> QED
      BY <1>6, <3>1, <3>2, <3>3 DEF Outcomes, Outcome
  <2>5. EffectsAreAuthorized'
    BY <1>1, <1>2, <2>2, <2>3 DEF EffectsAreAuthorized
  <2> QED
    BY <1>1, <1>2, <1>3, <2>4, <2>5 DEF PathInv
<1> QED
  BY <1>5, <1>6

(***************************************************************************)
(* The transport's own answers: nothing has been set in motion.            *)
(***************************************************************************)
LEMMA HandleRequestKeeps ==
  ASSUME PathInv, HandleRequest
  PROVE  PathInv'
<1>1. /\ stage = "sent" /\ effects = {} /\ audits = <<>>
      /\ UNCHANGED <<peer, allow_unprivileged_reads, request, connected, effects>>
  BY DEF PathInv, HandleRequest
<1>2. EffectsAreAuthorized'
  BY <1>1 DEF EffectsAreAuthorized
<1>3. CASE stage' = "handling" /\ UNCHANGED <<answer, audits>> /\ Authorize(peer, Class)
  <2>1. Authorize(peer, Class)'
    BY <1>1, <1>3 DEF Authorize, Class
  <2> QED
    BY <1>1, <1>2, <1>3, <2>1 DEF PathInv
<1>4. ASSUME NEW status \in 400..599,
             NEW code \in {"NotFound", "InvalidRequest", "Forbidden"},
             NEW decisions \in {<<>>, <<"Denied">>, <<"Failed">>},
             decisions = <<>> => Class = None,
             AnswerWith(Envelope(status, "error", code), decisions)
      PROVE  PathInv'
  <2>1. audits' = decisions
    BY <1>1, <1>4 DEF AnswerWith
  <2>2. AnswerIsAudited'
    BY <1>1, <1>4, <2>1 DEF AnswerIsAudited, Class
  <2>3. AnswerIsTrue'
    BY <1>1, <1>4 DEF AnswerWith, Envelope, AnswerIsTrue, Refused
  <2> QED
    BY <1>1, <1>2, <1>4, <2>2, <2>3 DEF PathInv, AnswerWith
<1>5. /\ 400 \in 400..599 /\ 403 \in 400..599 /\ 404 \in 400..599 /\ 413 \in 400..599
  OBVIOUS
<1>6. \/ Class = None /\ AnswerWith(Envelope(404, "error", "NotFound"), <<>>)
      \/ AnswerWith(Envelope(400, "error", "InvalidRequest"), <<"Failed">>)
      \/ AnswerWith(Envelope(403, "error", "Forbidden"), <<"Denied">>)
      \/ AnswerWith(Envelope(413, "error", "InvalidRequest"), <<"Failed">>)
      \/ stage' = "handling" /\ UNCHANGED <<answer, audits>> /\ Authorize(peer, Class)
  BY DEF HandleRequest, Class
<1>7. CASE Class = None /\ AnswerWith(Envelope(404, "error", "NotFound"), <<>>)
  BY <1>4, <1>5, <1>7
<1>8. CASE AnswerWith(Envelope(400, "error", "InvalidRequest"), <<"Failed">>)
  BY <1>4, <1>5, <1>8
<1>9. CASE AnswerWith(Envelope(403, "error", "Forbidden"), <<"Denied">>)
  BY <1>4, <1>5, <1>9
<1>10. CASE AnswerWith(Envelope(413, "error", "InvalidRequest"), <<"Failed">>)
  BY <1>4, <1>5, <1>10
<1> QED
  BY <1>3, <1>6, <1>7, <1>8, <1>9, <1>10

(***************************************************************************)
(* A panic happens before anything is set in motion.                       *)
(***************************************************************************)
LEMMA HandlerPanicsKeeps ==
  ASSUME PathInv, HandlerPanics
  PROVE  PathInv'
<1>1. /\ stage = "handling" /\ effects = {} /\ audits = <<>>
      /\ UNCHANGED <<peer, request, connected, effects>>
  BY DEF PathInv, HandlerPanics
<1>2. EffectsAreAuthorized'
  BY <1>1 DEF EffectsAreAuthorized
<1>3. CASE connected
  <2>1. answer' = Failure("Internal") /\ audits' = <<"Failed">> /\ stage' = "answered"
    BY <1>1, <1>3 DEF HandlerPanics, AnswerWith
  <2>2. AnswerIsTrue' /\ AnswerIsAudited'
    BY <1>1, <2>1, ErrorStatuses DEF AnswerIsTrue, Refused, AnswerIsAudited
  <2> QED
    BY <1>1, <1>2, <1>3, <2>1, <2>2 DEF PathInv
<1>4. CASE ~connected
  BY <1>1, <1>2, <1>4 DEF PathInv, HandlerPanics
<1> QED
  BY <1>3, <1>4

(***************************************************************************)
(* The front ends make of a true answer a true report.                     *)
(***************************************************************************)
LEMMA ReadAnswerKeeps ==
  ASSUME PathInv, ReadAnswer
  PROVE  PathInv'
<1>1. /\ stage = "answered" /\ stage' = "over" /\ report' = ReportOf(answer)
      /\ UNCHANGED <<peer, request, connected, answer, effects, audits>>
      /\ AnswerIsAudited /\ AnswerIsTrue /\ connected
  BY DEF PathInv, ReadAnswer
<1>0. AnswerIsAudited' /\ EffectsAreAuthorized' /\ (audits' = <<>> => effects' = {})
  BY <1>1 DEF PathInv, AnswerIsAudited, Class, EffectsAreAuthorized
<1>2. CASE Granted
  <2>1. /\ ReportOf(answer) \in {"result", "accepted", "Success", "RequestRejected"}
        /\ ReportOf(answer) = "RequestRejected" => answer.code = "incompatible"
    BY <1>2, NoneAssumption DEF Granted, ReportOf, CallResult, ExitCode
  <2>2. ReportIsTrue'
    BY <1>1, <1>2, <2>1 DEF Granted, ReportIsTrue
  <2> QED
    BY <1>0, <1>1, <2>2 DEF PathInv
<1>3. CASE AnswerIsTrue /\ ~Granted
  <2>1. ReportOf(answer) \in {"Rejected", "error", "RequestRejected", "Authorization", "Service"}
    BY <1>3 DEF AnswerIsTrue, Refused, ReportOf, CallResult, ExitCode
  <2>2. ReportIsTrue'
    BY <1>1, <1>3, <2>1 DEF AnswerIsTrue, Refused, ReportIsTrue
  <2> QED
    BY <1>0, <1>1, <2>2 DEF PathInv
<1> QED
  BY <1>1, <1>2, <1>3

(***************************************************************************)
(* What every step preserves holds throughout.                             *)
(***************************************************************************)
THEOREM PathInvariant == Spec => []PathInv
<1>1. Init => PathInv
  BY DEF Init, PathInv, EffectsAreAuthorized
<1>2. PathInv /\ [Next]_vars => PathInv'
  <2> SUFFICES ASSUME PathInv, [Next]_vars PROVE PathInv'
    OBVIOUS
  <2>1. CASE LibraryCalls \/ CliCalls \/ BrowserCalls
    <3>1. /\ stage = "idle" /\ stage' \in {"sent", "over"}
          /\ UNCHANGED <<peer, answer, effects, audits>>
      BY <2>1 DEF LibraryCalls, CliCalls, BrowserCalls, Call
    <3> QED
      BY <3>1 DEF PathInv, EffectsAreAuthorized
  <2>2. CASE RefuseConnection \/ DropCall
    BY <2>2 DEF RefuseConnection, DropCall, PathInv, EffectsAreAuthorized
  <2>3. CASE GiveUp
    <3>1. UNCHANGED <<peer, allow_unprivileged_reads, request, answer, effects, audits>>
      BY <2>3 DEF GiveUp
    <3>2. Authorize(peer, Class) => Authorize(peer, Class)'
      BY <3>1 DEF Authorize, Class
    <3> QED
      BY <2>3, <3>1, <3>2 DEF GiveUp, PathInv, EffectsAreAuthorized
  <2>4. CASE Respond
    <3>1. /\ stage = "handled" /\ stage' = "answered" /\ audits' = <<"Allowed">>
          /\ UNCHANGED <<peer, request, connected, answer, effects>>
          /\ connected /\ AnswerIsTrue
      BY <2>4 DEF Respond, AnswerWith, PathInv
    <3>2. AnswerIsTrue' /\ AnswerIsAudited' /\ EffectsAreAuthorized'
      BY <3>1 DEF PathInv, AnswerIsTrue, Granted, Refused, AnswerIsAudited, EffectsAreAuthorized
    <3> QED
      BY <3>1, <3>2 DEF PathInv
  <2>5. CASE UNCHANGED vars
    <3>1. UNCHANGED <<peer, allow_unprivileged_reads, request, stage, connected, answer,
                      effects, audits, report>>
      BY <2>5 DEF vars
    <3>2. Authorize(peer, Class) => Authorize(peer, Class)'
      BY <3>1 DEF Authorize, Class
    <3>3. AnswerIsTrue => AnswerIsTrue'
      BY <3>1 DEF AnswerIsTrue, Granted, Refused
    <3>4. AnswerIsAudited => AnswerIsAudited'
      BY <3>1 DEF AnswerIsAudited, Class
    <3>5. ReportIsTrue => ReportIsTrue'
      BY <3>1 DEF ReportIsTrue
    <3>6. EffectsAreAuthorized => EffectsAreAuthorized'
      BY <3>1 DEF EffectsAreAuthorized
    <3> QED
      BY <3>1, <3>2, <3>3, <3>4, <3>5, <3>6 DEF PathInv
  <2> QED
    BY <2>1, <2>2, <2>3, <2>4, <2>5, HandleKeeps, HandleRequestKeeps, HandlerPanicsKeeps,
       ReadAnswerKeeps
    DEF Next
<1> QED
  BY <1>1, <1>2, PTL DEF Spec

(***************************************************************************)
(* Whatever the peers, the policy and the bodies: a task is only set in    *)
(* motion for a peer whose role covers it, although `dispatch` itself asks *)
(* nobody and trusts the class `route_for` found.                          *)
(***************************************************************************)
THEOREM AuthorizedEffects == Spec => []EffectsAreAuthorized
<1>1. PathInv => EffectsAreAuthorized
  BY DEF PathInv
<1> QED
  BY <1>1, PathInvariant, PTL

(***************************************************************************)
(* An answered call has left its audit record before the caller reads the  *)
(* answer, and only a caller that gave up can have an effect without one.  *)
(***************************************************************************)
THEOREM AuditedCalls == Spec => []CallsAreAudited
<1>1. PathInv => CallsAreAudited
  BY DEF PathInv, CallsAreAudited, AnswerIsAudited, Class
<1> QED
  BY <1>1, PathInvariant, PTL

(***************************************************************************)
(* Status and envelope agree in every answer of the daemon, so that no     *)
(* front end mistakes one; and success and refusal are what happened.      *)
(***************************************************************************)
THEOREM TruthfulReports == Spec => []ReportsAreTruthful
<1>1. PathInv => ReportsAreTruthful
  BY DEF PathInv, ReportsAreTruthful, ReportIsTrue
<1> QED
  BY <1>1, PathInvariant, PTL
=============================================================================
