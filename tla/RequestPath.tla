---------------------------- MODULE RequestPath ----------------------------
(***************************************************************************)
(* One API call from its front end to its report.                          *)
(*                                                                         *)
(* A call starts in the client library, in kernmuxctl or in a browser      *)
(* behind the gateway; each of them keeps its own table of what it sends   *)
(* or lets through.  The daemon's transport looks the route up in a second *)
(* table, authorizes the peer for the route's class, runs the handler a    *)
(* third table selects on a blocking thread, writes one audit record and   *)
(* answers.  The front end then turns status and envelope back into what   *)
(* its user sees.  The caller may give up at any time: the transport then  *)
(* forgets the call, the blocking thread does not.                         *)
(*                                                                         *)
(* A path is the sequence of its segments after `/1.0`.  An identifier is  *)
(* "canonical" when every parser takes it and "loose" when only the        *)
(* syntactic checks do (ten digits beyond u32, a token that is no digest,  *)
(* a cursor beyond u64).  A body is the set of the fields it carries.      *)
(***************************************************************************)
EXTENDS Naturals, Sequences, Functions

CONSTANTS
  Peers,           \* sets of policy entries the calling process may match
  BrowserBodies,   \* bodies a browser may send
  None

ASSUME PeersAssumption ==
  Peers \subseteq SUBSET {"root", "administrator", "operator", "reader"}

ASSUME NoneAssumption ==
  None \notin {"none", "ReadOnly", "Mutation", "Administration", "Console", "incompatible"}

VARIABLES
  peer, allow_unprivileged_reads,  \* the credentials and the policy
  source, request, request_id,     \* the call
  stage,       \* idle, sent, handling, handled, answered, or over
  connected,   \* the caller still waits on the connection
  answer,      \* what the handler or the transport answers
  effects,     \* what the handler has set in motion
  audits,      \* audit decisions written for the call
  report       \* what the caller is told

vars == <<peer, allow_unprivileged_reads, source, request, request_id, stage,
          connected, answer, effects, audits, report>>

Methods == {"GET", "POST", "PUT", "PATCH", "DELETE"}

-----------------------------------------------------------------------------
(* What the front ends send.                                               *)

\* The fields of each mutation contract.  Every field a type shares with
\* another has the same name and type in both.
Contract(required, optional) ==
  [required |-> {"expected_generation"} \cup required, optional |-> optional]

Contracts ==
  [ResourcePoolMutation |-> Contract({"cpu_hardware_ids", "memory_bytes"}, {}),
   CreateInstanceMutation |->
     Contract({"id", "name", "cpu_hardware_ids", "memory_bytes"}, {}),
   UpdateInstanceMutation |->
     Contract({}, {"cpu_hardware_ids", "memory_bytes", "device_ids", "dry_run"}),
   LoadInstanceMutation |-> Contract({"kernel_path"}, {"initrd_path", "command_line"}),
   LoadManagedImageMutation |-> Contract({"kernel_id"}, {"initrd_id", "command_line"}),
   ImportImageMutation |-> Contract({"kind", "source_path"}, {"expected_id"}),
   ImportOsImageMutation |->
     Contract({"source_path", "label"}, {"architecture", "expected_id"}),
   InstanceLifecycleMutation |-> Contract({}, {}),
   StopInstanceMutation |-> Contract({}, {"force"})]

Fields(type) == Contracts[type].required \cup Contracts[type].optional

Request(method, path, query, body) ==
  [method |-> method, path |-> path, query |-> query, body |-> body]

Get(path) == Request("GET", path, "none", {})

\* The least and the most a serialized mutation carries.
Json(method, path, type) ==
  {Request(method, path, "none", body) :
     body \in {Contracts[type].required, Fields(type)}}

Instance == <<"instances", "canonical">>

On(action) == Append(Instance, action)

\* The typed reads of the client library; `os_image` and `operation` take
\* identifiers nobody has parsed, ...
ClientReads ==
  {Get(path) : path \in {<<>>, <<"compatibility">>, <<"resource-pool">>,
                         <<"instances">>, Instance, <<"images">>, <<"os-images">>,
                         <<"storage-devices">>, <<"operations">>}}
  \cup {Get(<<collection, id>>) : collection \in {"os-images", "operations"},
                                  id \in {"canonical", "loose"}}
  \cup {Request("GET", <<"events">>, "canonical", {})}

\* ... and so does `cancel_operation`, among the typed mutations.
ClientMutations ==
  {Request("DELETE", <<"operations", id>>, "none", {}) : id \in {"canonical", "loose"}}
  \cup UNION {Json("PUT", <<"resource-pool">>, "ResourcePoolMutation"),
              Json("POST", <<"os-images">>, "ImportOsImageMutation"),
              Json("POST", <<"images">>, "ImportImageMutation"),
              Json("POST", <<"instances">>, "CreateInstanceMutation"),
              Json("PATCH", Instance, "UpdateInstanceMutation"),
              Json("POST", On("load"), "LoadInstanceMutation"),
              Json("POST", On("load-image"), "LoadManagedImageMutation"),
              Json("POST", On("start"), "InstanceLifecycleMutation"),
              Json("POST", On("unload"), "InstanceLifecycleMutation"),
              Json("DELETE", Instance, "InstanceLifecycleMutation"),
              Json("POST", On("stop"), "StopInstanceMutation")}

ParseHost == {Get(<<>>), Get(<<"compatibility">>)}

ParsePool ==
  {Get(<<"resource-pool">>)}
  \cup Json("PUT", <<"resource-pool">>, "ResourcePoolMutation")

ParseInstanceLoad ==
  Json("POST", On("load"), "LoadInstanceMutation")
  \cup Json("POST", On("load-image"), "LoadManagedImageMutation")

\* An update names at least one resource.
ParseInstance ==
  {Get(<<"instances">>), Get(Instance)}
  \cup Json("POST", <<"instances">>, "CreateInstanceMutation")
  \cup {r \in Json("PATCH", Instance, "UpdateInstanceMutation") :
          r.body \cap {"cpu_hardware_ids", "memory_bytes", "device_ids"} # {}}
  \cup ParseInstanceLoad
  \cup Json("POST", On("start"), "InstanceLifecycleMutation")
  \cup Json("POST", On("unload"), "InstanceLifecycleMutation")
  \cup Json("DELETE", Instance, "InstanceLifecycleMutation")
  \cup Json("POST", On("stop"), "StopInstanceMutation")

ParseImage ==
  {Get(<<"images">>)}
  \cup Json("POST", <<"images">>, "ImportImageMutation")
  \cup {Get(<<"images", kind, "canonical">>) : kind \in {"kernel", "initrd"}}

ParseOsImage ==
  {Get(<<"os-images">>), Get(<<"os-images", "canonical">>)}
  \cup Json("POST", <<"os-images">>, "ImportOsImageMutation")

\* An operation ID only has to be a token.
ParseOperation ==
  {Get(<<"operations">>)}
  \cup {Request(method, <<"operations", id>>, "none", {}) :
          method \in {"GET", "DELETE"}, id \in {"canonical", "loose"}}

\* The cursor is parsed as a u64 before it is sent.
ParseEvents == {Request("GET", <<"events">>, "canonical", {})}

ParseCommand ==
  UNION {ParseHost, ParsePool, ParseInstance, ParseImage, ParseOsImage,
         {Get(<<"storage-devices">>)}, ParseOperation, ParseEvents}

Collections ==
  {<<>>} \cup {<<name>> : name \in {"compatibility", "resource-pool", "instances",
     "images", "os-images", "storage-devices", "operations", "events"}}

Ids == {"canonical", "loose"}

Resources ==
  {<<collection, id>> : collection \in {"instances", "os-images", "operations"}, id \in Ids}
  \cup {<<"images", kind, id>> : kind \in {"kernel", "initrd", "os_image"}, id \in Ids}
  \cup {<<"instances", id, action>> : id \in Ids,
          action \in {"load", "load-image", "start", "stop", "unload", "console", "reboot"}}

Paths == Collections \cup Resources

\* Whatever a page may ask for.
BrowserRequests ==
  [method : Methods, path : Paths, query : {"none"}, body : BrowserBodies]
  \cup [method : Methods, path : {<<"events">>, <<"operations">>},
        query : {"canonical", "loose"}, body : {{}}]

-----------------------------------------------------------------------------
(* The gateway's filter.                                                   *)

\* Mutant: an action the daemon has is missing from the list.
ForwardedActions_NoUnload == {"load", "load-image", "start", "stop"}

ForwardedActions == {"load", "load-image", "start", "stop", "unload"}

\* `daemon_path`: identifiers are only checked for their syntax.
DaemonPath(r) ==
  /\ r.query # "none" => r.path = <<"events">>
  /\ \/ r.path \in Collections /\ r.method = "GET"
     \/ r.path = <<"resource-pool">> /\ r.method = "PUT"
     \/ r.path \in {<<"instances">>, <<"images">>, <<"os-images">>} /\ r.method = "POST"
     \/ /\ Len(r.path) = 2 /\ r.path[1] = "instances"
        /\ r.method \in {"GET", "PATCH", "DELETE"}
     \/ /\ Len(r.path) = 3 /\ r.path[1] = "instances"
        /\ r.path[3] \in ForwardedActions
        /\ r.method = "POST"
     \/ /\ Len(r.path) = 3 /\ r.path[1] = "images" /\ r.path[2] \in {"kernel", "initrd"}
        /\ r.method = "GET"
     \/ Len(r.path) = 2 /\ r.path[1] = "os-images" /\ r.method = "GET"
     \/ Len(r.path) = 2 /\ r.path[1] = "operations" /\ r.method \in {"GET", "DELETE"}

\* What is wrong with the headers, if anything, that `handle_api` looks at.
Headers == {"good", "no_token", "foreign_origin", "no_origin", "upgrade",
            "too_large", "not_json"}

\* `handle_api` up to the forwarded call: the refusals in the code's order.
GatewayRefusal(r, headers) ==
  IF headers = "no_token" THEN "unauthorized"
  ELSE IF \/ headers = "foreign_origin"
          \/ headers = "no_origin" /\ r.method # "GET" THEN "origin_forbidden"
  ELSE IF headers = "upgrade" THEN "console_unavailable"
  ELSE IF ~DaemonPath(r) THEN "route_not_found"
  ELSE IF headers = "too_large" THEN "request_too_large"
  ELSE IF r.body # {} /\ r.method = "GET" THEN "unexpected_request_body"
  ELSE IF r.body # {} /\ headers = "not_json" THEN "content_type_required"
  ELSE None

-----------------------------------------------------------------------------
(* The daemon's tables.                                                    *)

OperationPath(path) == Len(path) = 2 /\ path[1] = "operations"

ImageResource(path) ==
  /\ Len(path) = 3 /\ path[1] = "images"
  /\ path[2] \in {"kernel", "initrd"} /\ path[3] = "canonical"

OsImageResource(path) ==
  Len(path) = 2 /\ path[1] = "os-images" /\ path[2] = "canonical"

InstanceActions == {"load", "load-image", "start", "stop", "unload", "console"}

\* The action of an instance path, "none" for the instance itself, or None.
InstanceAction(path) ==
  IF ~(Len(path) \in {2, 3} /\ path[1] = "instances" /\ path[2] = "canonical")
    THEN None
  ELSE IF Len(path) = 2 THEN "none"
  ELSE IF path[3] \in InstanceActions THEN path[3] ELSE None

\* `route_for`: the class of a route, or None where there is no route.
RouteFor(method, path) ==
  IF path \in Collections /\ method = "GET" THEN "ReadOnly"
  ELSE IF path \in {<<"images">>, <<"os-images">>} /\ method = "POST" THEN "Administration"
  ELSE IF <<method, path>> \in {<<"PUT", <<"resource-pool">>>>,
                                <<"POST", <<"instances">>>>} THEN "Mutation"
  ELSE IF OperationPath(path)
    THEN IF method = "GET" THEN "ReadOnly"
         ELSE IF method = "DELETE" THEN "Mutation" ELSE None
  ELSE IF ImageResource(path) \/ OsImageResource(path)
    THEN IF method = "GET" THEN "ReadOnly" ELSE None
  ELSE IF InstanceAction(path) = "none"
    THEN IF method = "GET" THEN "ReadOnly"
         ELSE IF method \in {"PATCH", "DELETE"} THEN "Mutation" ELSE None
  ELSE IF InstanceAction(path) # None /\ method = "POST"
    THEN IF InstanceAction(path) = "console" THEN "Console" ELSE "Mutation"
  ELSE None

\* Mutant: `stop` is decoded like the other transitions.
InstanceBody_DropsForce(method, action) ==
  CASE action = "load" -> "LoadInstanceMutation"
    [] action = "load-image" -> "LoadManagedImageMutation"
    [] action \in {"start", "stop", "unload"} -> "InstanceLifecycleMutation"
    [] action = "none" /\ method = "PATCH" -> "UpdateInstanceMutation"
    [] action = "none" /\ method = "DELETE" -> "InstanceLifecycleMutation"

\* The type `dispatch_instance` decodes a body into.
InstanceBody(method, action) ==
  CASE action = "load" -> "LoadInstanceMutation"
    [] action = "load-image" -> "LoadManagedImageMutation"
    [] action = "stop" -> "StopInstanceMutation"
    [] action \in {"start", "unload"} -> "InstanceLifecycleMutation"
    [] action = "none" /\ method = "PATCH" -> "UpdateInstanceMutation"
    [] action = "none" /\ method = "DELETE" -> "InstanceLifecycleMutation"

\* The type `dispatch` decodes the body of a mutation into.
BodyType(r) ==
  CASE r.path = <<"resource-pool">> -> "ResourcePoolMutation"
    [] r.path = <<"instances">> -> "CreateInstanceMutation"
    [] r.path = <<"images">> -> "ImportImageMutation"
    [] r.path = <<"os-images">> -> "ImportOsImageMutation"
    [] OTHER -> InstanceBody(r.method, InstanceAction(r.path))

\* `decode`: required fields must be there, unknown ones are passed over.
Decodes(r) == Contracts[BodyType(r)].required \subseteq r.body

Ranks == [Reader |-> 1, Operator |-> 2, Administrator |-> 3]

Role(p) ==
  IF p \cap {"root", "administrator"} # {} THEN "Administrator"
  ELSE IF "operator" \in p THEN "Operator"
  ELSE IF "reader" \in p THEN "Reader" ELSE None

Authorize(p, class) ==
  LET AtLeast(role) == Role(p) # None /\ Ranks[Role(p)] >= Ranks[role]
  IN  \/ class = "ReadOnly" /\ (AtLeast("Reader") \/ allow_unprivileged_reads)
      \/ class \in {"Mutation", "Console"} /\ AtLeast("Operator")
      \/ class = "Administration" /\ AtLeast("Administrator")

\* Mutant: an unavailable backend is answered with an informational status.
StatusForError_Redirects(code) == IF code = "BackendUnavailable" THEN 303 ELSE 400

StatusForError(code) ==
  [InvalidRequest |-> 400, Forbidden |-> 403, NotFound |-> 404,
   BackendUnavailable |-> 503, Internal |-> 500][code]

Envelope(status, kind, code) == [status |-> status, kind |-> kind, code |-> code]

Failure(code) == Envelope(StatusForError(code), "error", code)

Outcome(reply, set) == [answer |-> reply, effects |-> set]

\* The errors of a read: what it reads may be unavailable or not there.
ReadErrors(r) ==
  (IF r.path \in {<<"operations">>, <<"events">>} \/ OperationPath(r.path)
     THEN {} ELSE {"BackendUnavailable"})
  \cup (IF r.path \in Resources THEN {"NotFound"} ELSE {})
  \cup (IF r.query = "loose" THEN {"InvalidRequest"} ELSE {})

\* A host preflight may be answered, and say no.
ReadResults(r) ==
  IF r.query = "loose" THEN {}
    ELSE {Envelope(200, "result", "compatible")}
         \cup (IF r.path = <<"compatibility">>
                 THEN {Envelope(200, "result", "incompatible")} ELSE {})

\* The errors of a submission: the concurrency limit, the thread that cannot
\* be spawned, and for images a path outside the roots or no artifact ID.
SubmitErrors(r) ==
  {"BackendUnavailable"}
  \cup (IF r.path \in {<<"images">>, <<"os-images">>, On("load")}
          THEN {"InvalidRequest", "Forbidden"} ELSE {})
  \cup (IF r.path = On("load-image") THEN {"InvalidRequest"} ELSE {})

\* What a submission sets in motion.
Submits(r) == IF r.path \in {<<"images">>, <<"os-images">>} THEN "import" ELSE "mutate"

\* A cancelled worker may have lost its record: it is told to stop and the
\* answer is that there is no such operation.
Outcomes(r) ==
  IF r.method = "GET"
    THEN {Outcome(e, {}) : e \in ReadResults(r) \cup {Failure(c) : c \in ReadErrors(r)}}
  ELSE IF OperationPath(r.path)
    THEN {Outcome(Envelope(202, "accepted", None), {"cancel"}),
          Outcome(Failure("NotFound"), {}), Outcome(Failure("NotFound"), {"cancel"})}
  ELSE IF ~Decodes(r) THEN {Outcome(Failure("InvalidRequest"), {})}
  ELSE {Outcome(Envelope(202, "accepted", None), {Submits(r)})}
       \cup {Outcome(Failure(c), {}) : c \in SubmitErrors(r)}

-----------------------------------------------------------------------------
(* What the front ends make of an answer.                                  *)

\* `decode_response` and `call`: status and envelope have to agree.
CallResult(e) ==
  IF e.kind \in {"result", "accepted"} /\ e.status \in 200..299 THEN e.kind
  ELSE IF e.kind = "error" /\ e.status \in 400..599 THEN "Rejected" ELSE "Protocol"

\* `response_exit_code`, and the preflight whose answer is no.
ExitCode(r, e) ==
  IF e.kind \in {"result", "accepted"} /\ e.status \in 200..299
    THEN IF r.path = <<"compatibility">> /\ e.code = "incompatible"
           THEN "RequestRejected" ELSE "Success"
  ELSE IF e.kind = "error" /\ e.status >= 400
    THEN IF e.code = "Forbidden" THEN "Authorization"
         ELSE IF e.code \in {"InvalidRequest", "NotFound"} THEN "RequestRejected"
         ELSE IF e.code \in {"BackendUnavailable", "Internal"} THEN "Service"
         ELSE "Protocol"
  ELSE "Protocol"

\* The gateway hands status and envelope on as they are.
ReportOf(e) ==
  IF source = "library" THEN CallResult(e)
  ELSE IF source = "cli" THEN ExitCode(request, e)
  ELSE e.kind

\* A connection that ends early or stays silent; the gateway has one word for
\* every failed call.
LostReport(kind) == IF source = "browser" THEN "daemon_unavailable" ELSE kind

-----------------------------------------------------------------------------

Init ==
  /\ peer \in Peers
  /\ allow_unprivileged_reads \in BOOLEAN
  /\ source = None /\ request = None /\ request_id = None
  /\ stage = "idle"
  /\ connected = TRUE
  /\ answer = None
  /\ effects = {}
  /\ audits = <<>>
  /\ report = None

Call(from, r, id) ==
  /\ source' = from
  /\ request' = r
  /\ request_id' = id
  /\ UNCHANGED <<peer, allow_unprivileged_reads, connected, answer, effects, audits>>

\* The library names its requests itself, kernmuxctl checks a given name.
LibraryCalls ==
  /\ stage = "idle"
  /\ \E r \in ClientReads \cup ClientMutations : Call("library", r, "plain")
  /\ stage' = "sent"
  /\ UNCHANGED report

CliCalls ==
  /\ stage = "idle"
  /\ \E r \in ParseCommand : Call("cli", r, "plain")
  /\ stage' = "sent"
  /\ UNCHANGED report

\* The gateway takes a colon in a request ID, which the daemon does not.
BrowserCalls ==
  /\ stage = "idle"
  /\ \E r \in BrowserRequests, id \in {"plain", "colon"}, headers \in Headers :
       /\ Call("browser", r, id)
       /\ report' = GatewayRefusal(r, headers)
       /\ stage' = IF report' = None THEN "sent" ELSE "over"

\* At its limit the daemon closes the connection without an answer.
RefuseConnection ==
  /\ stage = "sent" /\ connected
  /\ stage' = "over"
  /\ connected' = FALSE
  /\ report' = LostReport("Protocol")
  /\ UNCHANGED <<peer, allow_unprivileged_reads, source, request, request_id,
                 answer, effects, audits>>

AnswerWith(e, decisions) ==
  /\ answer' = e
  /\ audits' = audits \o decisions
  /\ stage' = IF connected THEN "answered" ELSE "over"

\* Mutant: the class is looked up, and nobody asks whether the peer may.
HandleRequest_NotAuthorized ==
  /\ stage = "sent"
  /\ IF RouteFor(request.method, request.path) = None
       THEN AnswerWith(Envelope(404, "error", "NotFound"), <<>>)
     ELSE IF request_id # "plain"
       THEN AnswerWith(Envelope(400, "error", "InvalidRequest"), <<"Failed">>)
     ELSE /\ stage' = "handling"
          /\ UNCHANGED <<answer, audits>>
  /\ UNCHANGED <<peer, allow_unprivileged_reads, source, request, request_id,
                 connected, effects, report>>

\* `handle_request` up to the handler: route, request ID, authorization, body.
\* It may run for a caller that has given up, until the transport notices.
HandleRequest ==
  /\ stage = "sent"
  /\ IF RouteFor(request.method, request.path) = None
       THEN AnswerWith(Envelope(404, "error", "NotFound"), <<>>)
     ELSE IF request_id # "plain"
       THEN AnswerWith(Envelope(400, "error", "InvalidRequest"), <<"Failed">>)
     ELSE IF ~Authorize(peer, RouteFor(request.method, request.path))
       THEN AnswerWith(Envelope(403, "error", "Forbidden"), <<"Denied">>)
     ELSE \/ /\ request.body # {}
             /\ AnswerWith(Envelope(413, "error", "InvalidRequest"), <<"Failed">>)
          \/ /\ stage' = "handling"
             /\ UNCHANGED <<answer, audits>>
  /\ UNCHANGED <<peer, allow_unprivileged_reads, source, request, request_id,
                 connected, effects, report>>

\* The handler on its blocking thread, whether or not anybody still waits.
Handle ==
  /\ stage = "handling"
  /\ \E outcome \in Outcomes(request) :
       /\ answer' = outcome.answer
       /\ effects' = outcome.effects
  /\ stage' = IF connected THEN "handled" ELSE "over"
  /\ UNCHANGED <<peer, allow_unprivileged_reads, source, request, request_id,
                 connected, audits, report>>

HandlerPanics ==
  /\ stage = "handling"
  /\ IF connected
       THEN AnswerWith(Failure("Internal"), <<"Failed">>)
       ELSE stage' = "over" /\ UNCHANGED <<answer, audits>>
  /\ UNCHANGED <<peer, allow_unprivileged_reads, source, request, request_id,
                 connected, effects, report>>

\* Mutant: the record is only written for an answer that is not an error.
Respond_AuditsSuccess ==
  /\ stage = "handled"
  /\ audits' = IF answer.kind = "error" THEN audits ELSE Append(audits, "Allowed")
  /\ stage' = "answered"
  /\ UNCHANGED <<peer, allow_unprivileged_reads, source, request, request_id,
                 connected, answer, effects, report>>

\* The handler has returned: audit, then answer.
Respond ==
  /\ stage = "handled"
  /\ AnswerWith(answer, <<"Allowed">>)
  /\ UNCHANGED <<peer, allow_unprivileged_reads, source, request, request_id,
                 connected, effects, report>>

\* The caller's deadline passes.
GiveUp ==
  /\ connected
  /\ stage \in {"sent", "handling", "handled", "answered"}
  /\ connected' = FALSE
  /\ report' = LostReport("Transport")
  /\ stage' = IF stage \in {"sent", "handling"} THEN stage ELSE "over"
  /\ UNCHANGED <<peer, allow_unprivileged_reads, source, request, request_id,
                 answer, effects, audits>>

\* The transport drops the call of a closed connection; a handler that has
\* started is beyond its reach.
DropCall ==
  /\ stage = "sent" /\ ~connected
  /\ stage' = "over"
  /\ UNCHANGED <<peer, allow_unprivileged_reads, source, request, request_id,
                 connected, answer, effects, audits, report>>

ReadAnswer ==
  /\ stage = "answered"
  /\ report' = ReportOf(answer)
  /\ stage' = "over"
  /\ UNCHANGED <<peer, allow_unprivileged_reads, source, request, request_id,
                 connected, answer, effects, audits>>

Next ==
  \/ LibraryCalls \/ CliCalls \/ BrowserCalls
  \/ RefuseConnection \/ HandleRequest \/ Handle \/ HandlerPanics \/ Respond
  \/ GiveUp \/ DropCall \/ ReadAnswer

Spec == Init /\ [][Next]_vars

-----------------------------------------------------------------------------

Canonical(r) == "loose" \notin Range(r.path) /\ r.query # "loose"

\* What the library and kernmuxctl send with a well-formed identifier reaches
\* a handler that decodes the body, and the handler knows every field it
\* carries (`decode` passes over unknown fields, so a request meant for another
\* handler would lose them silently).
FrontEndsAreUnderstood ==
  /\ stage = "sent"
  /\ source \in {"library", "cli"}
  /\ Canonical(request)
  => /\ RouteFor(request.method, request.path) \notin {None, "Console"}
     /\ request.method # "GET" /\ ~OperationPath(request.path)
        => Decodes(request) /\ request.body \subseteq Fields(BodyType(request))

\* The gateway's list of routes and the daemon's are the same list, but for
\* the console, which has its own path.
GatewayOffersTheApi ==
  /\ source = "browser"
  /\ Canonical(request) /\ request.query = "none"
  => DaemonPath(request)
       <=> RouteFor(request.method, request.path) \notin {None, "Console"}

(***************************************************************************)
(* The tables of routes and bodies that library, kernmuxctl, gateway and   *)
(* daemon keep for themselves agree: no front end sends what the daemon    *)
(* would refuse or read in part, a page reaches everything the daemon      *)
(* offers, and nothing is forwarded only to be unknown there.              *)
(***************************************************************************)
TablesAgree == FrontEndsAreUnderstood /\ GatewayOffersTheApi

(***************************************************************************)
(* What the caller is told is true of what the daemon did.  Success means  *)
(* the task was set in motion; a refusal means nothing was, except that a  *)
(* cancelled operation may already have lost its record; an answer that    *)
(* arrives is never taken for a protocol error.  Only a lost answer leaves *)
(* the caller in doubt.                                                    *)
(***************************************************************************)
ReportsAreTruthful ==
  /\ stage = "over"
  /\ answer # None /\ connected
  => /\ report \in {"result", "accepted", "Success"} /\ request.method # "GET"
          => effects # {}
     /\ report \in {"Rejected", "error", "RequestRejected", "Authorization", "Service"}
          => effects \subseteq {"cancel"}
     /\ report # "Protocol"

(***************************************************************************)
(* A task is only set in motion for a peer whose role covers it: an import *)
(* for an administrator, any other mutation and a cancellation for an      *)
(* operator, whatever the route table calls the request.                   *)
(***************************************************************************)
EffectsAreAuthorized ==
  /\ "import" \in effects => Role(peer) = "Administrator"
  /\ effects # {} => Role(peer) \in {"Operator", "Administrator"}

(***************************************************************************)
(* Every call of a route the daemon has leaves one audit record, which     *)
(* says Allowed exactly when the handler returned; Denied and Failed calls *)
(* set nothing in motion.  The exception is a caller that gave up first:   *)
(* its task may run without a record.                                      *)
(***************************************************************************)
CallsAreAudited ==
  /\ stage = "over" /\ connected /\ answer # None
       => \/ audits = <<>> /\ RouteFor(request.method, request.path) = None
          \/ audits = <<"Allowed">>
          \/ audits \in {<<"Denied">>, <<"Failed">>} /\ effects = {}
  /\ effects # {} /\ stage = "over" /\ audits = <<>> => ~connected
=============================================================================
