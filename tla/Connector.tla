------------------------------ MODULE Connector ------------------------------
(***************************************************************************)
(* The outbound WebSocket lifecycle of src/src/connector.ts: one current   *)
(* socket, the timers that drive it, the close and refusal verdicts, and   *)
(* stop() suspended in the middle while the event loop goes on.            *)
(*                                                                         *)
(* A step is one turn of the Node event loop: a call of the owner, a       *)
(* socket event, a timer that fires, a promise that settles.  Sockets are  *)
(* identities from a finite pool; one whose close event was delivered and  *)
(* that no closure holds is taken again for a later connection.            *)
(***************************************************************************)
EXTENDS Naturals

CONSTANTS
  Sockets,            \* pool of socket identities
  NoSocket,           \* `undefined`
  MaxAuthFailures,    \* MAX_CONSECUTIVE_AUTH_FAILURES
  MissesAllowed,      \* HEARTBEAT_MISSES_ALLOWED
  FailureCap,         \* bound: failureCount from which the delay is maxDelayMs
  MaxDeferred,        \* bound: createReady promises outstanding per socket
  CallerAwaitsStop    \* whether the owner awaits stop() before it calls again

ASSUME NoSocketAssumption == NoSocket \notin Sockets
ASSUME BoundAssumption ==
  /\ MaxAuthFailures \in Nat
  /\ MissesAllowed \in Nat
  /\ FailureCap \in Nat \ {0}
  /\ MaxDeferred \in Nat
  /\ CallerAwaitsStop \in BOOLEAN

VARIABLES
  configured,     \* isConfigured(): a URL and a token were resolved
  instantReset,   \* the configuration has stableResetMs <= 0
  running,
  state,          \* currentState
  cur,            \* this.socket
  wire,           \* what each socket is: none, dialing, open or closing
  timers,         \* which of the four named timers are armed
  watched,        \* the socket the armed closeWatchdog captured, or NoSocket
  silence,        \* heartbeat ticks since lastPongAt
  failures,       \* failureCount
  authFailures,   \* authFailureCount
  authRefused, forbidden, fatal,   \* verdicts waiting for the close event
  stopWait,       \* sockets some stop() is awaiting in waitForClose
  deferred        \* createReady promises outstanding, per socket

config == <<configured, instantReset>>
vars == <<configured, instantReset, running, state, cur, wire, timers, watched, silence,
          failures, authFailures, authRefused, forbidden, fatal, stopWait,
          deferred>>

NodeState == {"unconfigured", "stopped", "connecting", "authenticating",
              "ready", "backoff", "auth_failed", "closing"}
ConnectionTimers == {"handshake", "heartbeat", "stable"}
TimerName == ConnectionTimers \cup {"reconnect"}

(***************************************************************************)
(* Every variable keeps its type.                                          *)
(***************************************************************************)
TypeOK ==
  /\ configured \in BOOLEAN
  /\ instantReset \in BOOLEAN
  /\ running \in BOOLEAN
  /\ state \in NodeState
  /\ cur \in Sockets \cup {NoSocket}
  /\ wire \in [Sockets -> {"none", "dialing", "open", "closing"}]
  /\ timers \in SUBSET TimerName
  /\ watched \in Sockets \cup {NoSocket}
  /\ silence \in 0..(MissesAllowed + 1)
  /\ failures \in 0..FailureCap
  /\ authFailures \in 0..(MaxAuthFailures + 1)
  /\ authRefused \in BOOLEAN
  /\ forbidden \in BOOLEAN
  /\ fatal \in BOOLEAN
  /\ stopWait \in SUBSET Sockets
  /\ deferred \in [Sockets -> 0..MaxDeferred]

Init ==
  /\ configured \in BOOLEAN
  /\ instantReset \in BOOLEAN
  /\ running = FALSE
  /\ state = IF configured THEN "stopped" ELSE "unconfigured"
  /\ cur = NoSocket
  /\ wire = [s \in Sockets |-> "none"]
  /\ timers = {}
  /\ watched = NoSocket
  /\ silence = 0
  /\ failures = 0
  /\ authFailures = 0
  /\ authRefused = FALSE /\ forbidden = FALSE /\ fatal = FALSE
  /\ stopWait = {}
  /\ deferred = [s \in Sockets |-> 0]

-----------------------------------------------------------------------------
(***************************************************************************)
(* The private methods the handlers share.                                 *)
(***************************************************************************)

CurrentOpen == cur # NoSocket /\ wire[cur] = "open"
Live(s) == wire[s] \in {"dialing", "open"}

\* terminate() and close() on a socket that still exists; its close event
\* comes in a later turn.
Hang_forgotten(s) == wire
Hang(s) == [x \in Sockets |-> IF x = s /\ wire[x] # "none" THEN "closing"
                                                           ELSE wire[x]]

\* The counter behind backoffDelay, which is maxDelayMs from FailureCap on.
OneMore(f) == IF f < FailureCap THEN f + 1 ELSE FailureCap

\* connect(), entered with the sockets at `w` and failureCount at `f`: either
\* createSocket succeeds, or it throws and scheduleReconnect arms the timer.
Connect(w, f) ==
  /\ watched' = NoSocket
  /\ \/ \E s \in Sockets :
          /\ w[s] = "none" /\ deferred[s] = 0
          /\ cur' = s
          /\ wire' = [w EXCEPT ![s] = "dialing"]
          /\ state' = "connecting"
          /\ timers' = {}
          /\ failures' = f
     \/ /\ cur' = NoSocket
        /\ wire' = w
        /\ state' = "backoff"
        /\ timers' = {"reconnect"}
        /\ failures' = OneMore(f)

ClearConnectionTimers_leak(ts) == ts \ {"handshake", "heartbeat"}
ClearConnectionTimers(ts) == ts \ ConnectionTimers

ClearAllTimers_leak(ts) == ts \ ConnectionTimers
ClearAllTimers(ts) == ts \ TimerName

\* closeSocket(): the connection timers go, the watchdog is armed, close() is
\* called; `state` stays as it is until the close event.  Its fallback for an
\* undefined socket is dead code: every caller is a handler of the current
\* socket or one of its timers (TimersOwned).
CloseSocket_unwatched(w) ==
  /\ timers' = ClearConnectionTimers(timers)
  /\ wire' = [w EXCEPT ![cur] = "closing"]
  /\ UNCHANGED watched
CloseSocket(w) ==
  /\ timers' = ClearConnectionTimers(timers)
  /\ watched' = cur
  /\ wire' = [w EXCEPT ![cur] = "closing"]

\* enterAuthFailed(): after refusal number n the slow retry is armed, or the
\* node gives up.
AuthRetry_early(n) == IF n >= MaxAuthFailures THEN {} ELSE {"reconnect"}
AuthRetry_endless(n) == {"reconnect"}
AuthRetry(n) == IF n > MaxAuthFailures THEN {} ELSE {"reconnect"}

\* handleClose() past its filter; `refused` is the close code's own verdict.
\* `running` holds there, since stop() always drops the socket (StopIsFinal).
HandleClose(refused) ==
  /\ cur' = NoSocket
  /\ watched' = NoSocket
  /\ authRefused' = FALSE
  /\ forbidden' = FALSE
  /\ fatal' = FALSE
  /\ \/ /\ fatal
        /\ state' = "stopped"
        /\ timers' = ClearConnectionTimers(timers)
        /\ UNCHANGED <<failures, authFailures>>
     \/ /\ ~fatal /\ (authRefused \/ refused)
        /\ state' = "auth_failed"
        /\ authFailures' = authFailures + 1
        /\ timers' = ClearConnectionTimers(timers) \cup AuthRetry(authFailures + 1)
        /\ UNCHANGED failures
     \/ /\ ~fatal /\ ~authRefused /\ ~refused /\ forbidden
        /\ state' = "stopped"
        /\ timers' = ClearConnectionTimers(timers)
        /\ UNCHANGED <<failures, authFailures>>
     \/ /\ ~fatal /\ ~authRefused /\ ~refused /\ ~forbidden
        /\ state' = "backoff"
        /\ failures' = OneMore(failures)
        /\ timers' = ClearConnectionTimers(timers) \cup {"reconnect"}
        /\ UNCHANGED authFailures

\* armStableReset(), with the timers at `armed`: the counter is reset once the
\* link has held, or at once when stableResetMs is zero.
ArmStableReset_early(armed) ==
  /\ failures' = 0
  /\ timers' = IF instantReset THEN armed \ {"stable"} ELSE armed \cup {"stable"}
ArmStableReset(armed) ==
  \/ /\ ~instantReset
     /\ timers' = armed \cup {"stable"}
     /\ UNCHANGED failures
  \/ /\ instantReset
     /\ timers' = armed \ {"stable"}
     /\ failures' = 0

\* completeHandshake() on the current socket: `ready` is sent and the link is
\* up, or send() is refused and the connection is torn down.
CompleteHandshake(armed) ==
  \/ /\ wire[cur] = "open"
     /\ authFailures' = 0
     /\ state' = "ready"
     /\ silence' = 0
     /\ ArmStableReset(armed \cup {"heartbeat"})
     /\ UNCHANGED <<wire, watched>>
  \/ /\ CloseSocket(wire)
     /\ UNCHANGED <<authFailures, state, silence, failures>>

-----------------------------------------------------------------------------
(***************************************************************************)
(* Calls of the owner.                                                     *)
(***************************************************************************)

\* The owner calls start() and reconnectNow() while no stop() of its own is
\* pending.  With CallerAwaitsStop FALSE it does not wait, as the manual
\* connect and disconnect endpoints do not.
CallerReady == CallerAwaitsStop => stopWait = {}

\* start(), when a Coordinator is configured.
Start ==
  /\ CallerReady /\ ~running /\ configured
  /\ running' = TRUE
  /\ authFailures' = 0
  /\ fatal' = FALSE
  /\ forbidden' = FALSE
  /\ Connect(wire, 0)
  /\ UNCHANGED <<config, silence, authRefused, stopWait, deferred>>

\* start() without a Coordinator only says so.
StartUnconfigured ==
  /\ CallerReady /\ ~running /\ ~configured
  /\ state' = "unconfigured"
  /\ UNCHANGED <<config, running, cur, wire, timers, watched, silence,
                 failures, authFailures, authRefused, forbidden, fatal,
                 stopWait, deferred>>

\* reconnectNow() while running; otherwise it is start().
ReconnectNow ==
  /\ CallerReady /\ running
  /\ authFailures' = 0
  /\ fatal' = FALSE
  /\ forbidden' = FALSE
  /\ Connect(Hang(cur), 0)
  /\ UNCHANGED <<config, running, silence, authRefused, stopWait, deferred>>

\* stop() up to its first await.  An open socket gets the close frame and
\* stop() waits; any other socket is closed at once.
Stop ==
  /\ running' = FALSE
  /\ timers' = ClearAllTimers(timers)
  /\ watched' = NoSocket
  /\ cur' = NoSocket
  /\ \/ /\ CurrentOpen
        /\ state' = "closing"
        /\ stopWait' = stopWait \cup {cur}
        /\ UNCHANGED wire
     \/ /\ ~CurrentOpen
        /\ state' = "stopped"
        /\ wire' = Hang(cur)
        /\ UNCHANGED stopWait
  /\ UNCHANGED <<config, silence, failures, authFailures, authRefused,
                 forbidden, fatal, deferred>>

\* The grace timer of waitForClose fires: the rest of stop() runs.
StopGrace_never(s) == s \in stopWait /\ wire[s] = "none" /\ UNCHANGED vars
StopGrace(s) ==
  /\ s \in stopWait
  /\ stopWait' = stopWait \ {s}
  /\ wire' = Hang(s)
  /\ state' = "stopped"
  /\ UNCHANGED <<config, running, cur, timers, watched, silence, failures,
                 authFailures, authRefused, forbidden, fatal, deferred>>

-----------------------------------------------------------------------------
(***************************************************************************)
(* Socket events.  Those of a socket that is not current are filtered by   *)
(* the handlers and change nothing but the socket.                         *)
(***************************************************************************)

\* handleOpen(): `hello` is sent and the handshake timer armed, or building
\* `hello` throws and the connection is torn down.
OpenEvent ==
  /\ cur # NoSocket /\ wire[cur] = "dialing" /\ running
  /\ state' = "authenticating"
  /\ \/ /\ timers' = timers \cup {"handshake"}
        /\ wire' = [wire EXCEPT ![cur] = "open"]
        /\ UNCHANGED watched
     \/ CloseSocket(wire)
  /\ UNCHANGED <<config, running, cur, silence, failures, authFailures,
                 authRefused, forbidden, fatal, stopWait, deferred>>

\* The peer starts to close: send() is refused from here on, the close event
\* is still to come.
PeerCloses(s) ==
  /\ wire[s] = "open"
  /\ wire' = [wire EXCEPT ![s] = "closing"]
  /\ UNCHANGED <<config, running, state, cur, timers, watched, silence,
                 failures, authFailures, authRefused, forbidden, fatal,
                 stopWait, deferred>>

\* The close event of the current socket; a code of 4401 or 4403 refuses the
\* credentials.
CloseEvent(refused) ==
  /\ cur # NoSocket
  /\ refused => wire[cur] # "dialing"
  /\ wire' = [wire EXCEPT ![cur] = "none"]
  /\ HandleClose(refused)
  /\ UNCHANGED <<config, running, silence, stopWait, deferred>>

\* The close event of any other socket: it resumes the stop() that waits for
\* it, if one does.
StaleCloseEvent(s) ==
  /\ s # cur /\ wire[s] # "none"
  /\ wire' = [wire EXCEPT ![s] = "none"]
  /\ stopWait' = stopWait \ {s}
  /\ state' = IF s \in stopWait THEN "stopped" ELSE state
  /\ UNCHANGED <<config, running, cur, timers, watched, silence, failures,
                 authFailures, authRefused, forbidden, fatal, deferred>>

\* A message reaches the current socket; `ws` still delivers while it closes.
Receiving == cur # NoSocket /\ wire[cur] \in {"open", "closing"}

\* `ping` or `pong`, legal in every state.
RecvHeartbeat ==
  /\ Receiving
  /\ silence' = 0
  /\ UNCHANGED <<config, running, state, cur, wire, timers, watched,
                 failures, authFailures, authRefused, forbidden, fatal,
                 stopWait, deferred>>

\* A frame of another protocol version: failFatal().
RecvOtherVersion ==
  /\ Receiving
  /\ fatal' = TRUE
  /\ CloseSocket(wire)
  /\ UNCHANGED <<config, running, state, cur, silence, failures,
                 authFailures, authRefused, forbidden, stopWait, deferred>>

\* An unusable frame tears down a handshake; in any other state, as a frame
\* of the wrong direction or node always, it is only logged.
RecvBadFrame ==
  /\ Receiving /\ state = "authenticating"
  /\ CloseSocket(wire)
  /\ UNCHANGED <<config, running, state, cur, silence, failures,
                 authFailures, authRefused, forbidden, fatal, stopWait, deferred>>

\* handleCloseFrame(): remember the verdict, close the socket.
RecvClose(refused, noReconnect) ==
  /\ Receiving
  /\ authRefused' = (authRefused \/ refused)
  /\ forbidden' = (forbidden \/ (noReconnect /\ ~refused))
  /\ CloseSocket(wire)
  /\ UNCHANGED <<config, running, state, cur, silence, failures,
                 authFailures, fatal, stopWait, deferred>>

\* acceptHandshake(): createReady answers at once, returns a promise, or
\* throws.
RecvHelloOk ==
  /\ Receiving /\ state = "authenticating" /\ running
  /\ \/ /\ CompleteHandshake(timers \ {"handshake"})
        /\ UNCHANGED deferred
     \/ /\ deferred[cur] < MaxDeferred
        /\ deferred' = [deferred EXCEPT ![cur] = @ + 1]
        /\ timers' = timers \ {"handshake"}
        /\ UNCHANGED <<state, wire, watched, silence, failures, authFailures>>
     \/ /\ CloseSocket(wire)
        /\ UNCHANGED <<state, silence, failures, authFailures, deferred>>
  /\ UNCHANGED <<config, running, cur, authRefused, forbidden, fatal,
                 stopWait>>

\* The promise of createReady resolves: completeHandshake(), which re-checks
\* the socket and the state.
ReadyResolved(s) ==
  /\ deferred[s] > 0
  /\ deferred' = [deferred EXCEPT ![s] = @ - 1]
  /\ IF s = cur /\ running /\ state = "authenticating"
     THEN CompleteHandshake(timers)
     ELSE UNCHANGED <<state, wire, timers, watched, silence, failures, authFailures>>
  /\ UNCHANGED <<config, running, cur, authRefused, forbidden, fatal,
                 stopWait>>

\* The promise of createReady rejects: rejectHandshake(), which re-checks the
\* socket only.
ReadyRejected(s) ==
  /\ deferred[s] > 0
  /\ deferred' = [deferred EXCEPT ![s] = @ - 1]
  /\ IF s = cur /\ running
     THEN CloseSocket(wire)
     ELSE UNCHANGED <<timers, watched, wire>>
  /\ UNCHANGED <<config, running, state, cur, silence, failures,
                 authFailures, authRefused, forbidden, fatal, stopWait>>

-----------------------------------------------------------------------------
(***************************************************************************)
(* Timers.                                                                 *)
(***************************************************************************)

\* No hello.ok within handshakeTimeoutMs.
HandshakeTimeout ==
  /\ "handshake" \in timers
  /\ IF state = "authenticating"
     THEN CloseSocket(wire)
     ELSE /\ timers' = timers \ {"handshake"}
          /\ UNCHANGED <<watched, wire>>
  /\ UNCHANGED <<config, running, state, cur, silence, failures,
                 authFailures, authRefused, forbidden, fatal, stopWait, deferred>>

\* What tick number n without a pong may conclude.  The clock decides: ticks
\* can be late, so that any of them may exceed the limit, but the one after
\* MissesAllowed ticks always does.
HalfOpen_never(n) == {FALSE}
HalfOpen(n) == IF n > MissesAllowed THEN {TRUE} ELSE BOOLEAN

\* One heartbeat tick.
HeartbeatTick ==
  /\ "heartbeat" \in timers
  /\ IF state = "ready" /\ running
     THEN /\ silence' = IF silence > MissesAllowed THEN silence ELSE silence + 1
          /\ \E dead \in HalfOpen(silence') :
               IF dead THEN CloseSocket(wire) ELSE UNCHANGED <<timers, watched, wire>>
     ELSE /\ timers' = timers \ {"heartbeat"}
          /\ UNCHANGED <<silence, watched, wire>>
  /\ UNCHANGED <<config, running, state, cur, failures, authFailures,
                 authRefused, forbidden, fatal, stopWait, deferred>>

\* The link held for stableResetMs.
StableReset ==
  /\ "stable" \in timers
  /\ timers' = timers \ {"stable"}
  /\ failures' = IF state = "ready" THEN 0 ELSE failures
  /\ UNCHANGED <<config, running, state, cur, wire, watched, silence,
                 authFailures, authRefused, forbidden, fatal, stopWait, deferred>>

\* The backoff is over.  `running` holds whenever it is armed (StopIsFinal).
ReconnectTimer ==
  /\ "reconnect" \in timers /\ running
  /\ Connect(wire, failures)
  /\ UNCHANGED <<config, running, silence, authFailures, authRefused,
                 forbidden, fatal, stopWait, deferred>>

\* CLOSE_GRACE_MS after closeSocket(): the close event is not awaited longer.
Watchdog ==
  /\ watched # NoSocket
  /\ wire' = Hang(watched)
  /\ IF watched = cur
     THEN HandleClose(FALSE)
     ELSE /\ watched' = NoSocket
          /\ UNCHANGED <<state, cur, timers, failures, authFailures,
                         authRefused, forbidden, fatal>>
  /\ UNCHANGED <<config, running, silence, stopWait, deferred>>

Owner == Start \/ StartUnconfigured \/ ReconnectNow \/ Stop
Peer ==
  \/ OpenEvent
  \/ \E s \in Sockets : PeerCloses(s) \/ StaleCloseEvent(s)
  \/ \E refused \in BOOLEAN : CloseEvent(refused)
  \/ RecvHeartbeat \/ RecvOtherVersion \/ RecvBadFrame \/ RecvHelloOk
  \/ \E refused, noReconnect \in BOOLEAN : RecvClose(refused, noReconnect)
Node ==
  \/ \E s \in Sockets : StopGrace(s) \/ ReadyResolved(s) \/ ReadyRejected(s)
  \/ HandshakeTimeout \/ HeartbeatTick \/ StableReset \/ ReconnectTimer
  \/ Watchdog

Next == Owner \/ Peer \/ Node

Spec == Init /\ [][Next]_vars

\* The event loop fires armed timers and createReady settles; a socket the
\* node closed gets its close event (`ws` destroys it after its own timeout).
\* Nothing is assumed of the peer, nor that a dial ever ends.
Fairness ==
  /\ WF_vars(HandshakeTimeout) /\ WF_vars(HeartbeatTick)
  /\ WF_vars(StableReset) /\ WF_vars(ReconnectTimer) /\ WF_vars(Watchdog)
  /\ \A s \in Sockets :
       /\ WF_vars(StopGrace(s))
       /\ WF_vars(ReadyResolved(s) \/ ReadyRejected(s))
       /\ WF_vars(wire[s] = "closing" /\ StaleCloseEvent(s))

FairSpec == Spec /\ Fairness

-----------------------------------------------------------------------------
(***************************************************************************)
(* Safety.                                                                 *)
(***************************************************************************)

(***************************************************************************)
(* "At most one live socket exists": whatever is dialing or open is the    *)
(* current socket, or one a pending stop() is saying goodbye to.  A socket *)
(* dropped without being closed would stay connected for ever, since all   *)
(* its events are filtered.                                                *)
(***************************************************************************)
OneLiveSocket ==
  \A s \in Sockets : Live(s) => s = cur \/ s \in stopWait

(***************************************************************************)
(* No timer outlives its socket: a connection timer or a watchdog belongs  *)
(* to the current socket, a link being torn down has no timer but the      *)
(* watchdog, and the reconnect timer is armed only when there is no        *)
(* socket.  This is what makes the last branches of closeSocket dead code. *)
(***************************************************************************)
TimersOwned ==
  /\ timers \cap ConnectionTimers # {} => cur # NoSocket /\ watched = NoSocket
  /\ watched # NoSocket => watched = cur
  /\ "reconnect" \in timers => cur = NoSocket

(***************************************************************************)
(* Disposal is final: once stop() was called nothing is armed and no       *)
(* socket is current, so no late event can bring the link back, and once   *)
(* its await is over the node says `stopped`.                              *)
(***************************************************************************)
StopIsFinal ==
  ~running =>
    /\ cur = NoSocket /\ timers = {} /\ watched = NoSocket
    /\ stopWait = {} => state \in {"stopped", "unconfigured"}

(***************************************************************************)
(* A running connector always has its next step under way: a dial, a       *)
(* handshake or a heartbeat that a timer watches, a teardown the watchdog  *)
(* ends, a reconnect that is armed; or it was told, by a verdict, to wait  *)
(* for its operator.                                                       *)
(***************************************************************************)
Dialing == state = "connecting" /\ wire[cur] = "dialing"
Handshaking ==
  /\ state = "authenticating" /\ wire[cur] # "dialing"
  /\ "handshake" \in timers \/ deferred[cur] > 0
Serving == state = "ready" /\ "heartbeat" \in timers
TearingDown == state \in {"authenticating", "ready"} /\ watched = cur
Retrying == state \in {"backoff", "auth_failed"} /\ "reconnect" \in timers
GivenUp ==
  /\ timers = {}
  /\ state = "stopped" \/ (state = "auth_failed" /\ authFailures > MaxAuthFailures)

NeverStranded ==
  running =>
    IF cur = NoSocket THEN Retrying \/ GivenUp
    ELSE Dialing \/ Handshaking \/ Serving \/ TearingDown

(***************************************************************************)
(* A link that flaps keeps backing off: the failure counter goes down only *)
(* when an established link has held, or by the operator's call.           *)
(***************************************************************************)
BackoffSurvivesFlapping ==
  [][ failures' < failures =>
        \/ state' = "ready" /\ (state = "ready" \/ instantReset)
        \/ Start \/ ReconnectNow ]_vars

(***************************************************************************)
(* `stopped` means what the status surface shows for it, nothing is        *)
(* happening: no socket is current.                                        *)
(***************************************************************************)
StoppedIsQuiet == state = "stopped" => cur = NoSocket

(***************************************************************************)
(* A refusal verdict routes the close of the socket it arrived on: while   *)
(* it is pending, the current socket is that one, already being closed.    *)
(***************************************************************************)
VerdictOfThisSocket ==
  authRefused /\ cur # NoSocket => wire[cur] = "closing"

-----------------------------------------------------------------------------
(***************************************************************************)
(* Liveness.                                                               *)
(***************************************************************************)

(***************************************************************************)
(* A handshake ends, whatever the peer does: it succeeds, times out, or is *)
(* torn down by the watchdog.                                              *)
(***************************************************************************)
AuthenticatingEnds == state = "authenticating" ~> state # "authenticating"

(***************************************************************************)
(* A half-open link is found out: a link that has missed a pong hears      *)
(* again or is left.                                                       *)
(***************************************************************************)
HalfOpenDetected ==
  (state = "ready" /\ silence > 0) ~> (state # "ready" \/ silence = 0)

(***************************************************************************)
(* stop() returns, also when the peer never answers the close frame.       *)
(***************************************************************************)
StopCompletes == \A s \in Sockets : s \in stopWait ~> s \notin stopWait

=============================================================================
