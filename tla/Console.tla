------------------------------- MODULE Console -------------------------------
(***************************************************************************)
(* Console sessions: a browser's WebSocket, the gateway's bridge           *)
(* (browser_console.rs), the Unix socket between gateway and daemon, the   *)
(* daemon's connection and upgrade handling (transport.rs), its admission  *)
(* (host_api.rs `prepare_upgrade`, security.rs limits) and the exclusive   *)
(* session on the MKTTY device (console.rs).                               *)
(*                                                                         *)
(* The daemon's resources are RAII values: `held[c]` is the set of those   *)
(* that the connection of client c owns now, so each drop in the code is a *)
(* step that takes one of them out again, in the order the code drops      *)
(* them.  A step of the daemon ends where it takes or gives back shared    *)
(* state (limiter, lease set, device, socket).  Each direction of the      *)
(* socket is a queue of at most Capacity frames that blocks its writer     *)
(* when full, as the kernel's buffer does.                                 *)
(***************************************************************************)
EXTENDS Integers, Sequences, FiniteSets

CONSTANTS
  Clients,           \* browser tabs
  Instances,         \* kernel instances with a console
  ConnectionLimit,   \* `ServiceLimits.connections`
  ConsoleLimit,      \* `ServiceLimits.consoles`
  Capacity,          \* frames that one direction of the socket buffers
  Scripts,           \* what the browsers may do: see `script`
  None

Requests == {"input", "read", "detach", "resize", "bad"}
Reasons  == {"ClientDetached", "EndOfStream", "DeviceFailed"}
Frames   == {"attachment", "ack", "output", "closed", "error"}
Answers  == {"switching_protocols", "conflict", "refused"}

ASSUME ConsoleAssumption ==
  /\ IsFiniteSet(Clients)
  /\ ConnectionLimit \in Nat \ {0} /\ ConsoleLimit \in Nat \ {0}
  /\ Capacity \in Nat \ {0}
  /\ Scripts \subseteq [Clients -> [window : Nat, sends : SUBSET Requests] \cup {None}]
  /\ None \notin Requests \cup Reasons \cup Frames \cup Answers \cup Instances

VARIABLES
  script,     \* for each client None if it never opens a console, or the
              \* frames it sends and how many ahead of their replies; fixed
  phase,      \* the daemon: running, stopping (run() returned) or down
  limiter,    \* `LimitState`: permits in use
  attached,   \* `ConsoleProxy.attached`: leased instances
  stage,      \* where the daemon's handling of the client stands
  held,       \* RAII values the daemon holds for the client
  target,     \* the instance the client last asked for, or None
  closed,     \* `ConsoleSession.closed`
  reply,      \* the frame or answer being produced, or None
  ends,       \* ends of the client's gateway-daemon socket still open
  up,         \* bytes in the socket towards the daemon, as frames
  down,       \* bytes in the socket towards the gateway
  gate,       \* the gateway's task for the client
  carry,      \* the message the bridge is writing to the daemon, or None
  browser,    \* away, here, or left: its connection ended, the bridge has
              \* yet to see it; a browser that falls silent stays "here"
  asked,      \* requests sent by the browser and not answered yet
  unacked     \* inputs written to the device, ACK not yet at the browser

daemonVars  == <<limiter, attached, stage, held, target, closed, reply>>
socketVars  == <<ends, up, down>>
gatewayVars == <<gate, carry, browser, asked>>
world       == <<script, phase>>
vars == <<world, daemonVars, socketVars, gatewayVars, unacked>>

Resources == {"connection", "console", "lease", "device"}

\* The daemon's handling of one connection, from the listen backlog over the
\* blocking prepare_upgrade thread to the blocking thread that serves it.
Preparing == {"observing", "active", "permitted", "leased", "opened", "prepared"}
Serving   == {"reading", "closing", "replying"}
Stages    == {"none", "backlog", "request", "rejecting", "answered", "switching",
              "dropping"} \cup Preparing \cup Serving

Init ==
  /\ script \in Scripts
  /\ phase = "running"
  /\ limiter = [connection |-> 0, console |-> 0]
  /\ attached = {}
  /\ stage = [c \in Clients |-> "none"]
  /\ held = [c \in Clients |-> {}]
  /\ target = [c \in Clients |-> None]
  /\ closed = [c \in Clients |-> None]
  /\ reply = [c \in Clients |-> None]
  /\ ends = [c \in Clients |-> {}]
  /\ up = [c \in Clients |-> <<>>]
  /\ down = [c \in Clients |-> <<>>]
  /\ gate = [c \in Clients |-> "idle"]
  /\ carry = [c \in Clients |-> None]
  /\ browser = [c \in Clients |-> "away"]
  /\ asked = [c \in Clients |-> <<>>]
  /\ unacked = [c \in Clients |-> 0]

Goto(c, s) == stage' = [stage EXCEPT ![c] = s]

-----------------------------------------------------------------------------
(* Resources.  Each is taken and given back under its own mutex.           *)

Take(c, r) == held' = [held EXCEPT ![c] = @ \cup {r}]
Give(c, r) == held' = [held EXCEPT ![c] = @ \ {r}]

\* `Limiter::acquire` succeeded; the guard `Available` is its other branch.
Limit(kind) == IF kind = "connection" THEN ConnectionLimit ELSE ConsoleLimit
Available(kind) == limiter[kind] < Limit(kind)

Acquire(c, kind) ==
  /\ limiter' = [limiter EXCEPT ![kind] = @ + 1]
  /\ Take(c, kind)

SaturatingDecrement(n) == IF n = 0 THEN 0 ELSE n - 1

\* Mutant: the end of a connection gives no permit back.
Drop_KeepsConnection(c, r) ==
  /\ Give(c, r)
  /\ limiter' = IF r = "console" THEN [limiter EXCEPT ![r] = SaturatingDecrement(@)]
                               ELSE limiter
  /\ attached' = IF r = "lease" THEN attached \ {target[c]} ELSE attached

\* Dropping the value of resource r.
Drop(c, r) ==
  /\ Give(c, r)
  /\ limiter' = IF r \in {"connection", "console"}
                THEN [limiter EXCEPT ![r] = SaturatingDecrement(@)] ELSE limiter
  /\ attached' = IF r = "lease" THEN attached \ {target[c]} ELSE attached

\* The order in which values go out of scope: an error inside prepare_upgrade
\* drops the device and the lease (locals of `attach`) before the permit; a
\* LocalUpgrade, called or not, drops the permit first and then the fields of
\* its session, the device before the lease.
RejectOrder  == [device |-> 1, lease |-> 2, console |-> 3]

\* Mutant: the session's fields are declared the other way round.
UpgradeOrder_LeaseFirst == [console |-> 1, lease |-> 2, device |-> 3]

UpgradeOrder == [console |-> 1, device |-> 2, lease |-> 3]

Scoped(c) == held[c] \ {"connection"}

DropNext(c, order) ==
  \E r \in Scoped(c) :
    /\ \A s \in Scoped(c) : order[r] <= order[s]
    /\ Drop(c, r)

\* One end of the socket closes.  What it had not read is lost; what the
\* other end has not read stays readable.
CloseEnd(c, e) ==
  /\ ends' = [ends EXCEPT ![c] = @ \ {e}]
  /\ up' = IF e = "daemon" THEN [up EXCEPT ![c] = <<>>] ELSE up
  /\ down' = IF ends[c] \subseteq {e} THEN [down EXCEPT ![c] = <<>>] ELSE down

-----------------------------------------------------------------------------
(* The browser and the gateway.                                            *)

\* `Gateway::handle` and `upgrade` up to the request written to the daemon's
\* socket.  A tab opens one console at a time.
OpenConsole(c, i) ==
  /\ script[c] # None
  /\ browser[c] = "away" /\ stage[c] = "none" /\ phase = "running"
  /\ browser' = [browser EXCEPT ![c] = "here"]
  /\ gate' = [gate EXCEPT ![c] = "connecting"]
  /\ target' = [target EXCEPT ![c] = i]
  /\ ends' = [ends EXCEPT ![c] = {"gateway", "daemon"}]
  /\ Goto(c, "backlog")
  /\ UNCHANGED <<world, limiter, attached, held, closed, reply, up, down, carry,
                 asked, unacked>>

\* The tab closes, or sends something `bridge` answers by closing.
BrowserLeaves(c) ==
  /\ browser[c] = "here"
  /\ browser' = [browser EXCEPT ![c] = "left"]
  /\ UNCHANGED <<world, daemonVars, socketVars, gate, carry, asked, unacked>>

\* The gateway's task ends: its socket, its permit and the WebSocket go.
HangUp(c) ==
  /\ gate' = [gate EXCEPT ![c] = "idle"]
  /\ carry' = [carry EXCEPT ![c] = None]
  /\ browser' = [browser EXCEPT ![c] = "away"]
  /\ asked' = [asked EXCEPT ![c] = <<>>]
  /\ unacked' = [unacked EXCEPT ![c] = 0]
  /\ CloseEnd(c, "gateway")
  /\ UNCHANGED <<world, daemonVars>>

\* `connect_daemon` returns: 101 leads to the bridge, any other answer or an
\* end of stream to a rejection.
ReadAnswer(c) ==
  /\ gate[c] = "connecting"
  /\ \/ /\ down[c] # <<>> /\ Head(down[c]) = "switching_protocols"
        /\ gate' = [gate EXCEPT ![c] = "switched"]
        /\ down' = [down EXCEPT ![c] = Tail(@)]
        /\ UNCHANGED <<world, daemonVars, ends, up, carry, browser, asked, unacked>>
     \/ /\ down[c] # <<>> => Head(down[c]) # "switching_protocols"
        /\ down[c] = <<>> => "daemon" \notin ends[c]
        /\ HangUp(c)

\* DAEMON_HANDSHAKE_TIMEOUT, or the browser's request is gone.
HandshakeEnds(c) == gate[c] = "connecting" /\ HangUp(c)

\* The browser's side of the upgrade completes, or fails because it left.
StartBridge(c) ==
  /\ gate[c] = "switched"
  /\ \/ /\ browser[c] = "here"
        /\ gate' = [gate EXCEPT ![c] = "bridging"]
        /\ UNCHANGED <<world, daemonVars, socketVars, carry, browser, asked, unacked>>
     \/ browser[c] = "left" /\ HangUp(c)

\* `bridge`, first arm: a message of the browser; the arm then awaits
\* write_all and nothing else.
BridgeTakes(c, m) ==
  /\ gate[c] = "bridging" /\ carry[c] = None /\ browser[c] = "here"
  /\ m \in script[c].sends /\ Len(asked[c]) < script[c].window
  /\ carry' = [carry EXCEPT ![c] = m]
  /\ asked' = [asked EXCEPT ![c] = Append(@, m)]
  /\ UNCHANGED <<world, daemonVars, socketVars, gate, browser, unacked>>

\* Mutant: a short write is followed by a second one of the whole message.
BridgeWrites_Again(c) ==
  /\ carry[c] # None
  /\ \/ /\ "daemon" \in ends[c] /\ Len(up[c]) < Capacity
        /\ up' = [up EXCEPT ![c] = Append(@, carry[c])]
        /\ UNCHANGED <<world, daemonVars, ends, down, gatewayVars, unacked>>
     \/ "daemon" \notin ends[c] /\ HangUp(c)

BridgeWrites(c) ==
  /\ carry[c] # None
  /\ \/ /\ "daemon" \in ends[c] /\ Len(up[c]) < Capacity
        /\ up' = [up EXCEPT ![c] = Append(@, carry[c])]
        /\ carry' = [carry EXCEPT ![c] = None]
        /\ UNCHANGED <<world, daemonVars, ends, down, gate, browser, asked, unacked>>
     \/ "daemon" \notin ends[c] /\ HangUp(c)

\* `bridge`, second arm: bytes of the daemon go to the browser.  The arm awaits
\* websocket.send, for as long as a browser that is there does not read.
BridgeReads(c) ==
  /\ gate[c] = "bridging" /\ carry[c] = None /\ down[c] # <<>>
  /\ down' = [down EXCEPT ![c] = Tail(@)]
  /\ IF Head(down[c]) = "attachment"
     THEN UNCHANGED <<asked, unacked>>
     ELSE /\ asked' = [asked EXCEPT ![c] = Tail(@)]
          /\ unacked' = IF Head(down[c]) = "ack" /\ Head(asked[c]) = "input"
                        THEN [unacked EXCEPT ![c] = @ - 1] ELSE unacked
  /\ UNCHANGED <<world, daemonVars, ends, up, gate, carry, browser>>

\* `bridge` leaves its loop: the browser is gone or the daemon hung up.
BridgeEnds(c) ==
  /\ gate[c] = "bridging" /\ carry[c] = None
  /\ browser[c] = "left" \/ (down[c] = <<>> /\ "daemon" \notin ends[c])
  /\ HangUp(c)

-----------------------------------------------------------------------------
(* The daemon: accepting and preparing.                                    *)

\* `LocalHttpServer::accept`: without a permit the stream is dropped.
Accept(c) ==
  /\ stage[c] = "backlog" /\ phase = "running"
  /\ IF Available("connection")
     THEN /\ Acquire(c, "connection") /\ Goto(c, "request")
          /\ UNCHANGED socketVars
     ELSE /\ Goto(c, "none") /\ CloseEnd(c, "daemon")
          /\ UNCHANGED <<limiter, held>>
  /\ UNCHANGED <<world, attached, target, closed, reply, gatewayVars, unacked>>

Reject(c, answer) ==
  /\ Goto(c, "rejecting")
  /\ reply' = [reply EXCEPT ![c] = answer]

\* `handle_request` and `handle_upgrade_request` up to spawn_blocking.
HandleRequest(c) ==
  /\ stage[c] = "request"
  /\ \/ Goto(c, "observing") /\ UNCHANGED reply
     \/ Reject(c, "refused")
  /\ UNCHANGED <<world, limiter, attached, held, target, closed, socketVars,
                 gatewayVars, unacked>>

\* `prepare_upgrade`: the snapshot (under the inventory's lock) ...
Observe(c) ==
  /\ stage[c] = "observing"
  /\ \/ Goto(c, "active") /\ UNCHANGED reply
     \/ \E answer \in {"conflict", "refused"} : Reject(c, answer)
  /\ UNCHANGED <<world, limiter, attached, held, target, closed, socketVars,
                 gatewayVars, unacked>>

\* ... the console permit ...
AcquireConsole(c) ==
  /\ stage[c] = "active"
  /\ IF Available("console")
     THEN Acquire(c, "console") /\ Goto(c, "permitted") /\ UNCHANGED reply
     ELSE Reject(c, "refused") /\ UNCHANGED <<limiter, held>>
  /\ UNCHANGED <<world, attached, target, closed, socketVars, gatewayVars, unacked>>

\* Mutant: the result of `insert` is not looked at.
AcquireLease_Unchecked(c) ==
  /\ stage[c] = "permitted"
  /\ attached' = attached \cup {target[c]}
  /\ Take(c, "lease") /\ Goto(c, "leased")
  /\ UNCHANGED <<world, limiter, target, closed, reply, socketVars, gatewayVars, unacked>>

\* ... `ConsoleLease::acquire` ...
AcquireLease(c) ==
  /\ stage[c] = "permitted"
  /\ IF target[c] \notin attached
     THEN /\ attached' = attached \cup {target[c]}
          /\ Take(c, "lease") /\ Goto(c, "leased") /\ UNCHANGED reply
     ELSE Reject(c, "conflict") /\ UNCHANGED <<attached, held>>
  /\ UNCHANGED <<world, limiter, target, closed, socketVars, gatewayVars, unacked>>

\* ... the device and the selector written to it.
OpenDevice(c) ==
  /\ stage[c] = "leased"
  /\ \/ Take(c, "device") /\ Goto(c, "opened") /\ UNCHANGED reply
     \/ Reject(c, "refused") /\ UNCHANGED held
  /\ UNCHANGED <<world, limiter, attached, target, closed, socketVars, gatewayVars,
                 unacked>>

WriteSelector(c) ==
  /\ stage[c] = "opened"
  /\ \/ Goto(c, "prepared") /\ UNCHANGED reply
     \/ Reject(c, "refused")
  /\ UNCHANGED <<world, limiter, attached, held, target, closed, socketVars,
                 gatewayVars, unacked>>

\* An error leaves prepare_upgrade: its values go out of scope, and then the
\* answer goes to the connection if that is still there.
Rejecting(c) ==
  /\ stage[c] = "rejecting"
  /\ IF Scoped(c) # {}
     THEN /\ DropNext(c, RejectOrder)
          /\ UNCHANGED <<stage, reply, down>>
     ELSE /\ reply' = [reply EXCEPT ![c] = None]
          /\ IF "connection" \in held[c]
             THEN /\ Goto(c, "answered")
                  /\ down' = [down EXCEPT ![c] = Append(@, reply[c])]
             ELSE Goto(c, "none") /\ UNCHANGED down
          /\ UNCHANGED <<limiter, attached, held>>
  /\ UNCHANGED <<world, target, closed, ends, up, gatewayVars, unacked>>

-----------------------------------------------------------------------------
(* The daemon: handing over and serving.                                   *)

\* The blocking thread's result reaches handle_upgrade_request, which sends
\* 101; if the connection's task is gone the LocalUpgrade is dropped.
AnswerUpgrade(c) ==
  /\ stage[c] = "prepared"
  /\ IF "connection" \in held[c]
     THEN /\ Goto(c, "switching")
          /\ down' = [down EXCEPT ![c] = Append(@, "switching_protocols")]
     ELSE Goto(c, "dropping") /\ UNCHANGED down
  /\ UNCHANGED <<world, limiter, attached, held, target, closed, reply, ends, up,
                 gatewayVars, unacked>>

\* hyper ends the connection's task and hands over its socket.  The upgrade
\* is dropped unserved when that fails (the gateway is gone) or when hyper
\* had already read frames into its own buffer.
HandOver(c) ==
  /\ stage[c] = "switching"
  /\ Drop(c, "connection")
  /\ \/ /\ Goto(c, "replying")
        /\ reply' = [reply EXCEPT ![c] = "attachment"]
        /\ UNCHANGED socketVars
     \/ /\ "gateway" \notin ends[c] \/ up[c] # <<>>
        /\ Goto(c, "dropping") /\ CloseEnd(c, "daemon")
        /\ UNCHANGED reply
  /\ UNCHANGED <<world, target, closed, gatewayVars, unacked>>

\* The connection's task ends without a hand-over: hyper sees that the
\* gateway hung up, or the runtime shuts down.  A blocking thread goes on.
ConnectionEnds(c) ==
  /\ "gateway" \notin ends[c] \/ phase = "stopping"
  /\ "connection" \in held[c]
  /\ CloseEnd(c, "daemon")
  /\ Drop(c, "connection")
  /\ Goto(c, CASE stage[c] \in {"request", "answered"} -> "none"
               [] stage[c] = "switching" -> "dropping"
               [] OTHER -> stage[c])
  /\ UNCHANGED <<world, target, closed, reply, gatewayVars, unacked>>

\* `ConsoleSession::close`: the device is taken here, the lease in CloseLease.
Close(c, reason, frame) ==
  /\ Drop(c, "device")
  /\ closed' = [closed EXCEPT ![c] = reason]
  /\ reply' = [reply EXCEPT ![c] = frame]
  /\ Goto(c, "closing")

Respond(c, frame) ==
  /\ reply' = [reply EXCEPT ![c] = frame]
  /\ Goto(c, "replying")
  /\ UNCHANGED <<limiter, attached, held, closed>>

\* Mutant: a failed write is acknowledged.
ServeInput_AcksFailure(c) ==
  \/ /\ Respond(c, "ack")
     /\ unacked' = IF gate[c] = "bridging" THEN [unacked EXCEPT ![c] = @ + 1]
                                           ELSE unacked
  \/ Close(c, "DeviceFailed", "ack") /\ UNCHANGED unacked

\* `write_frame`: a device error closes the session.
ServeInput(c) ==
  \/ /\ Respond(c, "ack")
     /\ unacked' = IF gate[c] = "bridging" THEN [unacked EXCEPT ![c] = @ + 1]
                                           ELSE unacked
  \/ Close(c, "DeviceFailed", "error") /\ UNCHANGED unacked

\* Mutant: a read that finds nothing is not answered.
ServeRead_SilentPending(c) ==
  /\ \/ Respond(c, "output")
     \/ Goto(c, "reading") /\ UNCHANGED <<limiter, attached, held, closed, reply>>
     \/ Close(c, "EndOfStream", "closed")
     \/ Close(c, "DeviceFailed", "error")
  /\ UNCHANGED unacked

\* `read_frame`: data, nothing yet, end of stream, or a device error.
ServeRead(c) ==
  /\ \/ \E frame \in {"output", "ack"} : Respond(c, frame)
     \/ Close(c, "EndOfStream", "closed")
     \/ Close(c, "DeviceFailed", "error")
  /\ UNCHANGED unacked

\* The loop of `serve_framed_console`.
ServeFrame(c) ==
  /\ stage[c] = "reading" /\ up[c] # <<>>
  /\ up' = [up EXCEPT ![c] = Tail(@)]
  /\ CASE Head(up[c]) = "input" -> ServeInput(c)
       [] Head(up[c]) = "read" -> ServeRead(c)
       [] Head(up[c]) = "detach" ->
            Close(c, "ClientDetached", "closed") /\ UNCHANGED unacked
       [] Head(up[c]) = "resize" -> Respond(c, "error") /\ UNCHANGED unacked
       [] OTHER -> /\ Goto(c, "dropping")
                   /\ UNCHANGED <<limiter, attached, held, closed, reply, unacked>>
  /\ UNCHANGED <<world, target, ends, down, gatewayVars>>

\* Mutant: the end of the stream reads as "nothing yet".
ServeEnd_Ignored(c) ==
  /\ stage[c] = "reading" /\ up[c] = <<>> /\ "gateway" \notin ends[c]
  /\ UNCHANGED vars

\* Mutant: a connection reset is taken for "nothing yet".
ServeEnd_WithoutReset(c) ==
  /\ stage[c] = "reading" /\ up[c] = <<>> /\ "gateway" \notin ends[c]
  /\ IF down[c] = <<>>
     THEN Close(c, "ClientDetached", None)
     ELSE UNCHANGED <<limiter, attached, held, stage, closed, reply>>
  /\ UNCHANGED <<world, target, socketVars, gatewayVars, unacked>>

\* The gateway hung up: a clean end of stream detaches; one with frames the
\* gateway never read is a connection reset, which returns at once.
ServeEnd(c) ==
  /\ stage[c] = "reading" /\ up[c] = <<>> /\ "gateway" \notin ends[c]
  /\ IF down[c] = <<>>
     THEN Close(c, "ClientDetached", None)
     ELSE Goto(c, "dropping") /\ UNCHANGED <<limiter, attached, held, closed, reply>>
  /\ UNCHANGED <<world, target, socketVars, gatewayVars, unacked>>

CloseLease(c) ==
  /\ stage[c] = "closing"
  /\ Drop(c, "lease")
  /\ Goto(c, IF reply[c] = None THEN "dropping" ELSE "replying")
  /\ UNCHANGED <<world, target, closed, reply, socketVars, gatewayVars, unacked>>

\* Mutant: the frame is queued whether or not the socket has room.
WriteFrame_Unbounded(c) ==
  /\ stage[c] = "replying"
  /\ \/ /\ "gateway" \in ends[c]
        /\ down' = [down EXCEPT ![c] = Append(@, reply[c])]
        /\ Goto(c, IF closed[c] = None THEN "reading" ELSE "dropping")
     \/ /\ "gateway" \notin ends[c]
        /\ Goto(c, "dropping") /\ UNCHANGED down
  /\ reply' = [reply EXCEPT ![c] = None]
  /\ UNCHANGED <<world, limiter, attached, held, target, closed, ends, up,
                 gatewayVars, unacked>>

\* `write_protocol_frame` blocks while the socket is full; the loop goes on
\* unless the session is closed or the write failed.
WriteFrame(c) ==
  /\ stage[c] = "replying"
  /\ \/ /\ "gateway" \in ends[c] /\ Len(down[c]) < Capacity
        /\ down' = [down EXCEPT ![c] = Append(@, reply[c])]
        /\ Goto(c, IF closed[c] = None THEN "reading" ELSE "dropping")
     \/ /\ "gateway" \notin ends[c]
        /\ Goto(c, "dropping") /\ UNCHANGED down
  /\ reply' = [reply EXCEPT ![c] = None]
  /\ UNCHANGED <<world, limiter, attached, held, target, closed, ends, up,
                 gatewayVars, unacked>>

\* The upgrade's closure ends or is dropped: permit, socket, device, lease.
Dropping(c) ==
  /\ stage[c] = "dropping"
  /\ IF "daemon" \in ends[c] THEN CloseEnd(c, "daemon") ELSE UNCHANGED socketVars
  /\ IF Scoped(c) # {}
     THEN DropNext(c, UpgradeOrder) /\ UNCHANGED <<stage, closed>>
     ELSE /\ Goto(c, "none")
          /\ closed' = [closed EXCEPT ![c] = None]
          /\ UNCHANGED <<limiter, attached, held>>
  /\ UNCHANGED <<world, target, reply, gatewayVars, unacked>>

-----------------------------------------------------------------------------
(* Shutdown: `LocalHttpServer::run` returns and the listener goes with its *)
(* backlog; dropping the runtime cancels every task (ConnectionEnds) and   *)
(* waits for the blocking threads.                                         *)

Shutdown ==
  /\ phase = "running" /\ phase' = "stopping"
  /\ UNCHANGED <<script, daemonVars, socketVars, gatewayVars, unacked>>

BacklogResets(c) ==
  /\ stage[c] = "backlog" /\ phase = "stopping"
  /\ Goto(c, "none") /\ CloseEnd(c, "daemon")
  /\ UNCHANGED <<world, limiter, attached, held, target, closed, reply, gatewayVars,
                 unacked>>

Exit ==
  /\ phase = "stopping" /\ \A c \in Clients : stage[c] = "none"
  /\ phase' = "down"
  /\ UNCHANGED <<script, daemonVars, socketVars, gatewayVars, unacked>>

Restart ==
  /\ phase = "down" /\ phase' = "running"
  /\ UNCHANGED <<script, daemonVars, socketVars, gatewayVars, unacked>>

GatewayStep(c) ==
  ReadAnswer(c) \/ StartBridge(c) \/ BridgeWrites(c) \/ BridgeReads(c) \/ BridgeEnds(c)

PrepareStep(c) ==
  \/ Accept(c) \/ HandleRequest(c) \/ Observe(c) \/ AcquireConsole(c)
  \/ AcquireLease(c) \/ OpenDevice(c) \/ WriteSelector(c) \/ Rejecting(c)

ServeStep(c) ==
  \/ AnswerUpgrade(c) \/ HandOver(c) \/ ServeFrame(c) \/ ServeEnd(c)
  \/ CloseLease(c) \/ WriteFrame(c) \/ Dropping(c)

Next ==
  \/ \E c \in Clients :
       \/ \E i \in Instances : OpenConsole(c, i)
       \/ \E m \in Requests : BridgeTakes(c, m)
       \/ BrowserLeaves(c) \/ HandshakeEnds(c) \/ GatewayStep(c)
       \/ PrepareStep(c) \/ ServeStep(c) \/ ConnectionEnds(c) \/ BacklogResets(c)
  \/ Shutdown \/ Exit \/ Restart

Safety == Init /\ [][Next]_vars

\* Fairness: a runnable thread or task runs and the handshake timer fires.
\* Nothing is assumed of browsers (BridgeReads is not fair: it needs one that
\* reads), of the device's answers or of SIGTERM.
Fairness ==
  /\ \A c \in Clients :
       /\ WF_vars(ReadAnswer(c) \/ StartBridge(c) \/ BridgeWrites(c) \/ BridgeEnds(c))
       /\ WF_vars(HandshakeEnds(c))
       /\ WF_vars(PrepareStep(c)) /\ WF_vars(ServeStep(c))
       /\ WF_vars(ConnectionEnds(c)) /\ WF_vars(BacklogResets(c))
  /\ WF_vars(Exit)

Spec == Safety /\ Fairness

-----------------------------------------------------------------------------
(* Properties.                                                             *)

Holders(r) == {c \in Clients : r \in held[c]}

\* Types of the daemon's state.
DaemonTypeOK ==
  /\ limiter \in [{"connection", "console"} -> Nat]
  /\ stage \in [Clients -> Stages]
  /\ held \in [Clients -> SUBSET Resources]
  /\ target \in [Clients -> Instances \cup {None}]
  /\ closed \in [Clients -> Reasons \cup {None}]

\* What the connection of a client owns follows from where it stands; on the
\* two paths that only give back, the lease still covers the device.
StageHolds(c) ==
  /\ stage[c] \in {"none", "backlog", "request", "observing", "active", "answered"} =>
       Scoped(c) = {}
  /\ stage[c] = "permitted" => Scoped(c) = {"console"}
  /\ stage[c] \in {"leased", "closing"} => Scoped(c) = {"console", "lease"}
  /\ stage[c] \in {"opened", "prepared", "switching", "reading"} =>
       Scoped(c) = {"console", "lease", "device"}
  /\ stage[c] = "replying" =>
       Scoped(c) = IF closed[c] = None THEN {"console", "lease", "device"} ELSE {"console"}
  /\ "device" \in held[c] => "lease" \in held[c]
  /\ "connection" \in held[c] =>
       stage[c] \in {"request", "answered", "switching", "rejecting"} \cup Preparing
  /\ stage[c] \in {"request", "answered", "switching"} => "connection" \in held[c]
  /\ closed[c] # None => stage[c] \in {"closing", "replying", "dropping"}
  /\ stage[c] = "closing" => closed[c] # None

\* `ServiceLimiter`: the counters are exactly the permits alive, whatever mix
\* of refusals, lost connections, failed hand-overs and shutdown ended their
\* sessions, and never exceed the configured limits.
PermitsMatchHolders ==
  \A kind \in {"connection", "console"} :
    limiter[kind] = Cardinality(Holders(kind)) /\ limiter[kind] <= Limit(kind)

\* console.rs:332 "Dropping it always releases the lease": an instance is in
\* the lease set exactly while one session holds its lease.
LeasesMatchSessions ==
  /\ attached = {target[c] : c \in Holders("lease")}
  /\ \A c, d \in Holders("lease") : target[c] = target[d] => c = d

\* Nothing the daemon lends is lost or lent twice: permits in use and leased
\* instances are exactly those that some session owns, and each session owns
\* what its stage says.
ResourcesMatchSessions ==
  /\ DaemonTypeOK
  /\ \A c \in Clients : StageHolds(c)
  /\ PermitsMatchHolders
  /\ LeasesMatchSessions

\* console.rs:263: the driver delivers output to one reader, so no two open
\* devices are ever selected to the same instance, not even while one session
\* closes and the next one opens.
OneReaderPerInstance ==
  \A c, d \in Holders("device") : target[c] = target[d] => c = d

\* Frames the daemon has written or is writing to the bridge, oldest first; the
\* first of a session is the attachment, and the others are replies.
Written(c) == IF reply[c] = None THEN down[c] ELSE Append(down[c], reply[c])

InFlight(c) ==
  IF Written(c) # <<>> /\ Head(Written(c)) = "attachment" THEN Tail(Written(c))
                                                          ELSE Written(c)

\* Requests on their way to the daemon.
Unserved(c) == IF carry[c] = None THEN up[c] ELSE Append(up[c], carry[c])

RepliesTo(request) ==
  CASE request = "input" -> {"ack", "error"}
    [] request = "read" -> {"output", "ack", "closed", "error"}
    [] request = "detach" -> {"closed"}
    [] request = "resize" -> {"error"}
    [] OTHER -> {}

\* Types of the sockets and of the gateway's tasks; no socket holds more than
\* its buffer.
StreamTypeOK ==
  /\ reply \in [Clients -> Frames \cup Answers \cup {None}]
  /\ ends \in [Clients -> SUBSET {"gateway", "daemon"}]
  /\ gate \in [Clients -> {"idle", "connecting", "switched", "bridging"}]
  /\ carry \in [Clients -> Requests \cup {None}]
  /\ browser \in [Clients -> {"away", "here", "left"}]
  /\ unacked \in [Clients -> Nat]
  /\ up \in [Clients -> Seq(Requests)]
  /\ down \in [Clients -> Seq(Frames \cup Answers)]
  /\ asked \in [Clients -> Seq(Requests)]
  /\ \A c \in Clients : Len(up[c]) <= Capacity /\ Len(down[c]) <= Capacity

\* Replies answer the first requests one by one ...
Answer(replies, requests) ==
  /\ Len(replies) <= Len(requests)
  /\ \A k \in 1..Len(replies) : replies[k] \in RepliesTo(requests[k])

\* ... the other requests are the waiting ones, in order ...
Await(waiting, replies, requests) ==
  /\ Len(requests) = Len(replies) + Len(waiting)
  /\ \A k \in 1..Len(waiting) : requests[Len(replies) + k] = waiting[k]

\* ... and these replies tell the browser that an input reached the device.
InputAcks(replies, requests) ==
  {k \in 1..Len(replies) : replies[k] = "ack" /\ requests[k] = "input"}

\* serve_framed_console and bridge keep request and reply streams aligned:
\* reply k in flight answers the k-th unanswered request of the browser, and
\* every other unanswered request is still on its way, in order.  An ACK for
\* input stands for exactly one completed write to the device: inputs written
\* and not yet acknowledged are those whose ACK is on its way.
RepliesMatchRequests ==
  /\ StreamTypeOK
  /\ \A c \in Clients : gate[c] = "bridging" =>
       /\ Answer(InFlight(c), asked[c])
       /\ ("daemon" \in ends[c] /\ stage[c] # "dropping") =>
            Await(Unserved(c), InFlight(c), asked[c])
       /\ unacked[c] = Cardinality(InputAcks(InFlight(c), asked[c]))

\* The bridge blocks writing to the daemon while the daemon blocks writing to
\* the bridge: each waits for the other to read.
MutualWait(c) ==
  /\ gate[c] = "bridging" /\ carry[c] # None /\ Len(up[c]) = Capacity
  /\ stage[c] = "replying" /\ Len(down[c]) = Capacity

\* Neither `bridge` nor `serve_framed_console` reads while it writes, and yet a
\* mutual wait takes a browser that has more requests open than both buffers
\* hold: one that stays within them is never caught, whatever else happens.
OnlyRunningAheadBlocks ==
  \A c \in Clients : MutualWait(c) => Len(asked[c]) > 2 * Capacity

\* Once a browser's connection has ended, the daemon gives back everything its
\* session held; the one exception is a session caught in a mutual wait of
\* bridge and daemon.
SessionsEnd ==
  \A c \in Clients : browser[c] = "left" ~> held[c] = {} \/ MutualWait(c)

\* service.rs `run` after a termination signal: the daemon exits provided no
\* bridge runs for ever, as one does for a browser that stays attached or for a
\* session caught in a mutual wait.
ShutdownCompletes ==
  (\A c \in Clients : []<>(gate[c] # "bridging"))
    => (phase = "stopping" ~> phase = "down")
=============================================================================
