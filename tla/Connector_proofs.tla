--------------------------- MODULE Connector_proofs --------------------------
(***************************************************************************)
(* Proofs about Connector, for every pool of sockets and every bound.      *)
(***************************************************************************)
EXTENDS Connector, TLAPS

(***************************************************************************)
(* What the safety invariants need beside themselves to be inductive: who  *)
(* holds which socket, and the refusals still allowed while anything can   *)
(* still bring another one.                                                *)
(***************************************************************************)
Ownership ==
  /\ cur # NoSocket => running /\ wire[cur] # "none" /\ cur \notin stopWait
  /\ \A s \in stopWait : wire[s] \in {"open", "closing"}
  /\ cur # NoSocket \/ "reconnect" \in timers => authFailures <= MaxAuthFailures
  /\ "reconnect" \in timers => running
  /\ watched # NoSocket => wire[watched] = "closing"

IndInv == TypeOK /\ Ownership /\ OneLiveSocket /\ TimersOwned /\ StopIsFinal

LEMMA InitIndInv == Init => IndInv
<1> SUFFICES ASSUME Init PROVE IndInv
  OBVIOUS
<1> USE NoSocketAssumption, BoundAssumption DEF Init
<1>1. TypeOK
  <2>1. state \in NodeState
    BY DEF NodeState
  <2>2. /\ failures \in 0..FailureCap
        /\ authFailures \in 0..(MaxAuthFailures + 1)
        /\ silence \in 0..(MissesAllowed + 1)
        /\ deferred \in [Sockets -> 0..MaxDeferred]
    OBVIOUS
  <2>3. wire \in [Sockets -> {"none", "dialing", "open", "closing"}]
    OBVIOUS
  <2>4. QED
    BY <2>1, <2>2, <2>3 DEF TypeOK
<1>2. Ownership /\ OneLiveSocket /\ TimersOwned
  BY DEF Ownership, OneLiveSocket, TimersOwned, Live
<1>3. StopIsFinal
  BY DEF StopIsFinal
<1>4. QED
  BY <1>1, <1>2, <1>3 DEF IndInv

(***************************************************************************)
(* A dial keeps the invariant, from any sockets `w` that orphan nothing:   *)
(* the only place where the current socket is replaced.                    *)
(***************************************************************************)
LEMMA ConnectKeeps ==
  ASSUME NEW w \in [Sockets -> {"none", "dialing", "open", "closing"}],
         NEW f \in 0..FailureCap,
         IndInv, Connect(w, f), running' = TRUE,
         authFailures' \in 0..MaxAuthFailures, stopWait' = stopWait,
         UNCHANGED <<configured, instantReset, silence, deferred>>,
         authRefused' \in BOOLEAN, forbidden' \in BOOLEAN, fatal' \in BOOLEAN,
         \A s \in stopWait : w[s] \in {"open", "closing"},
         \A s \in Sockets : w[s] \in {"dialing", "open"} => s \in stopWait
  PROVE  IndInv'
<1> USE NoSocketAssumption, BoundAssumption DEF IndInv, Connect
<1>1. TypeOK'
  BY DEF TypeOK, OneMore, NodeState, TimerName
<1>2. Ownership' /\ OneLiveSocket' /\ TimersOwned'
  BY DEF TypeOK, Ownership, OneLiveSocket, Live, TimersOwned, ConnectionTimers
<1>3. StopIsFinal'
  BY DEF StopIsFinal
<1>4. QED
  BY <1>1, <1>2, <1>3

(***************************************************************************)
(* Tearing the current connection down keeps the invariant.                *)
(***************************************************************************)
LEMMA CloseSocketKeeps ==
  ASSUME IndInv, cur # NoSocket, CloseSocket(wire), state' \in NodeState,
         UNCHANGED <<configured, instantReset, running, cur, stopWait, authFailures>>,
         silence' \in 0..(MissesAllowed + 1), failures' \in 0..FailureCap,
         deferred' \in [Sockets -> 0..MaxDeferred],
         authRefused' \in BOOLEAN, forbidden' \in BOOLEAN, fatal' \in BOOLEAN
  PROVE  IndInv'
<1> USE NoSocketAssumption, BoundAssumption
    DEF IndInv, CloseSocket, ClearConnectionTimers
<1>1. TypeOK'
  BY DEF TypeOK
<1>2. Ownership' /\ OneLiveSocket' /\ TimersOwned'
  BY DEF TypeOK, Ownership, OneLiveSocket, Live, TimersOwned
<1>3. StopIsFinal'
  BY DEF StopIsFinal, Ownership
<1>4. QED
  BY <1>1, <1>2, <1>3

(***************************************************************************)
(* The end of the current connection keeps the invariant, whether its      *)
(* socket is gone or still closing.                                        *)
(***************************************************************************)
LEMMA HandleCloseKeeps ==
  ASSUME NEW refused \in BOOLEAN, NEW left \in {"none", "closing"},
         IndInv, cur # NoSocket, HandleClose(refused),
         wire' = [wire EXCEPT ![cur] = left],
         UNCHANGED <<configured, instantReset, running, silence, stopWait, deferred>>
  PROVE  IndInv'
<1> USE NoSocketAssumption, BoundAssumption
    DEF IndInv, HandleClose, ClearConnectionTimers
<1>1. authFailures \in 0..MaxAuthFailures /\ running = TRUE
  BY DEF TypeOK, Ownership
<1>2. TypeOK'
  <2>1. /\ authFailures' \in 0..(MaxAuthFailures + 1)
        /\ failures' \in 0..FailureCap
        /\ state' \in NodeState
    BY <1>1 DEF TypeOK, OneMore, NodeState
  <2>2. timers' \in SUBSET TimerName
    BY DEF TypeOK, TimerName, AuthRetry
  <2>3. QED
    BY <2>1, <2>2 DEF TypeOK
<1>3. TimersOwned'
  BY DEF TimersOwned, AuthRetry, ConnectionTimers
<1>4. OneLiveSocket'
  BY DEF TypeOK, OneLiveSocket, Live
<1>5. Ownership'
  <2>1. "reconnect" \in timers' => authFailures' <= MaxAuthFailures
    BY <1>1 DEF AuthRetry, TimersOwned, TypeOK
  <2>2. QED
    BY <2>1, <1>1 DEF TypeOK, Ownership
<1>6. StopIsFinal'
  BY <1>1 DEF StopIsFinal
<1>7. QED
  BY <1>2, <1>3, <1>4, <1>5, <1>6

(***************************************************************************)
(* So does the outcome of a handshake.                                     *)
(***************************************************************************)
LEMMA CompleteHandshakeKeeps ==
  ASSUME NEW armed \in SUBSET timers,
         IndInv, cur # NoSocket, CompleteHandshake(armed),
         deferred' \in [Sockets -> 0..MaxDeferred],
         UNCHANGED <<configured, instantReset, running, cur, stopWait,
                     authRefused, forbidden, fatal>>
  PROVE  IndInv'
<1> USE NoSocketAssumption, BoundAssumption DEF IndInv
<1>1. CASE CloseSocket(wire) /\ UNCHANGED <<authFailures, state, silence, failures>>
  BY <1>1, CloseSocketKeeps DEF TypeOK
<1>2. CASE ~(CloseSocket(wire) /\ UNCHANGED <<authFailures, state, silence, failures>>)
  <2>1. /\ wire[cur] = "open" /\ authFailures' = 0 /\ state' = "ready"
        /\ silence' = 0 /\ UNCHANGED <<wire, watched>>
        /\ ArmStableReset(armed \cup {"heartbeat"})
    BY <1>2 DEF CompleteHandshake
  <2>2. timers' \in SUBSET TimerName /\ failures' \in 0..FailureCap
    <3>1. timers' \in SUBSET (armed \cup {"heartbeat", "stable"})
      BY <2>1 DEF ArmStableReset
    <3>2. failures' \in {failures, 0}
      BY <2>1 DEF ArmStableReset
    <3>3. QED
      BY <3>1, <3>2 DEF TypeOK, TimerName, ConnectionTimers
  <2>3. "reconnect" \notin timers' /\ watched = NoSocket
    BY <2>1 DEF ArmStableReset, TimersOwned, Ownership, TypeOK
  <2>4. TypeOK'
    BY <2>1, <2>2 DEF TypeOK, NodeState
  <2>5. Ownership' /\ OneLiveSocket' /\ TimersOwned'
    BY <2>1, <2>3 DEF TypeOK, Ownership, OneLiveSocket, Live, TimersOwned
  <2>6. StopIsFinal'
    BY <2>1 DEF StopIsFinal, Ownership
  <2>7. QED
    BY <2>4, <2>5, <2>6
<1>3. QED
  BY <1>1, <1>2

(***************************************************************************)
(* Every step keeps the invariant.                                         *)
(***************************************************************************)
LEMMA NextIndInv == IndInv /\ [Next]_vars => IndInv'
<1> SUFFICES ASSUME IndInv, [Next]_vars PROVE IndInv'
  OBVIOUS
<1> USE NoSocketAssumption, BoundAssumption
    DEF IndInv, TypeOK, Ownership, OneLiveSocket, TimersOwned, StopIsFinal, Live,
        config, NodeState, TimerName, ConnectionTimers
<1>1. CASE Start
  <2>1. /\ \A s \in stopWait : wire[s] \in {"open", "closing"}
        /\ \A s \in Sockets : wire[s] \in {"dialing", "open"} => s \in stopWait
        /\ Connect(wire, 0) /\ running' = TRUE /\ authFailures' = 0
    BY <1>1 DEF Start
  <2>2. /\ UNCHANGED <<configured, instantReset, silence, deferred, stopWait>>
        /\ authRefused' \in BOOLEAN /\ forbidden' \in BOOLEAN /\ fatal' \in BOOLEAN
    BY <1>1 DEF Start
  <2>3. QED
    BY <2>1, <2>2, ConnectKeeps
<1>2. CASE StartUnconfigured
  BY <1>2 DEF StartUnconfigured
<1>3. CASE ReconnectNow
  <2> DEFINE w == Hang(cur)
  <2>1. w \in [Sockets -> {"none", "dialing", "open", "closing"}]
    BY DEF Hang
  <2>2. /\ \A s \in stopWait : w[s] \in {"open", "closing"}
        /\ \A s \in Sockets : w[s] \in {"dialing", "open"} => s \in stopWait
    BY DEF Hang
  <2>3. Connect(w, 0) /\ running' = TRUE /\ authFailures' = 0
    BY <1>3 DEF ReconnectNow
  <2>4. /\ UNCHANGED <<configured, instantReset, silence, deferred, stopWait>>
        /\ authRefused' \in BOOLEAN /\ forbidden' \in BOOLEAN /\ fatal' \in BOOLEAN
    BY <1>3 DEF ReconnectNow
  <2> HIDE DEF w
  <2>5. QED
    BY <2>1, <2>2, <2>3, <2>4, ConnectKeeps
<1>4. CASE Stop
  BY <1>4 DEF Stop, Hang, CurrentOpen, ClearAllTimers
<1>5. ASSUME NEW s \in Sockets, StopGrace(s)
      PROVE  IndInv'
  BY <1>5 DEF StopGrace, Hang
<1>6. CASE OpenEvent
  <2>1. CASE CloseSocket(wire)
    BY <1>6, <2>1, CloseSocketKeeps DEF OpenEvent
  <2>2. CASE ~CloseSocket(wire)
    BY <1>6, <2>2 DEF OpenEvent
  <2>3. QED
    BY <2>1, <2>2
<1>7. ASSUME NEW s \in Sockets, PeerCloses(s)
      PROVE  IndInv'
  BY <1>7 DEF PeerCloses
<1>8. ASSUME NEW refused \in BOOLEAN, CloseEvent(refused)
      PROVE  IndInv'
  BY <1>8, HandleCloseKeeps DEF CloseEvent
<1>9. ASSUME NEW s \in Sockets, StaleCloseEvent(s)
      PROVE  IndInv'
  BY <1>9 DEF StaleCloseEvent
<1>10. CASE RecvHeartbeat
  BY <1>10 DEF RecvHeartbeat, Receiving
<1>11. CASE RecvOtherVersion
  BY <1>11, CloseSocketKeeps DEF RecvOtherVersion, Receiving
<1>12. CASE RecvBadFrame
  BY <1>12, CloseSocketKeeps DEF RecvBadFrame, Receiving
<1>13. CASE RecvHelloOk
  <2>1. CASE CompleteHandshake(timers \ {"handshake"}) /\ UNCHANGED deferred
    BY <1>13, <2>1, CompleteHandshakeKeeps DEF RecvHelloOk, Receiving
  <2>2. CASE /\ deferred[cur] < MaxDeferred
             /\ deferred' = [deferred EXCEPT ![cur] = @ + 1]
             /\ timers' = timers \ {"handshake"}
             /\ UNCHANGED <<state, wire, watched, silence, failures, authFailures>>
    BY <1>13, <2>2 DEF RecvHelloOk, Receiving
  <2>3. CASE /\ CloseSocket(wire)
             /\ UNCHANGED <<state, silence, failures, authFailures, deferred>>
    BY <1>13, <2>3, CloseSocketKeeps DEF RecvHelloOk, Receiving
  <2>4. QED
    BY <1>13, <2>1, <2>2, <2>3 DEF RecvHelloOk
<1>14. ASSUME NEW refused \in BOOLEAN, NEW noReconnect \in BOOLEAN,
              RecvClose(refused, noReconnect)
       PROVE  IndInv'
  BY <1>14, CloseSocketKeeps DEF RecvClose, Receiving
<1>15. ASSUME NEW s \in Sockets, ReadyResolved(s)
       PROVE  IndInv'
  <2>1. deferred' \in [Sockets -> 0..MaxDeferred]
    BY <1>15 DEF ReadyResolved
  <2>2. CASE s = cur /\ running /\ state = "authenticating"
    BY <1>15, <2>1, <2>2, CompleteHandshakeKeeps DEF ReadyResolved
  <2>3. CASE ~(s = cur /\ running /\ state = "authenticating")
    <3>1. UNCHANGED <<configured, instantReset, running, state, cur, wire, timers,
                      watched, silence, failures, authFailures, authRefused,
                      forbidden, fatal, stopWait>>
      BY <1>15, <2>3 DEF ReadyResolved
    <3>2. QED
      BY <2>1, <3>1
  <2>4. QED
    BY <2>2, <2>3
<1>16. ASSUME NEW s \in Sockets, ReadyRejected(s)
       PROVE  IndInv'
  <2>1. deferred' \in [Sockets -> 0..MaxDeferred]
    BY <1>16 DEF ReadyRejected
  <2>2. CASE s = cur /\ running
    BY <1>16, <2>1, <2>2, CloseSocketKeeps DEF ReadyRejected
  <2>3. CASE ~(s = cur /\ running)
    <3>1. UNCHANGED <<configured, instantReset, running, state, cur, wire, timers,
                      watched, silence, failures, authFailures, authRefused,
                      forbidden, fatal, stopWait>>
      BY <1>16, <2>3 DEF ReadyRejected
    <3>2. QED
      BY <2>1, <3>1
  <2>4. QED
    BY <2>2, <2>3
<1>17. CASE HandshakeTimeout
  <2>1. CASE state = "authenticating"
    BY <1>17, <2>1, CloseSocketKeeps DEF HandshakeTimeout
  <2>2. CASE state # "authenticating"
    BY <1>17, <2>2 DEF HandshakeTimeout
  <2>3. QED
    BY <2>1, <2>2
<1>18. CASE HeartbeatTick
  <2>1. silence' \in 0..(MissesAllowed + 1)
    BY <1>18 DEF HeartbeatTick
  <2>2. CASE CloseSocket(wire)
    BY <1>18, <2>1, <2>2, CloseSocketKeeps DEF HeartbeatTick
  <2>3. CASE ~CloseSocket(wire)
    <3>1. timers' \in {timers, timers \ {"heartbeat"}} /\ UNCHANGED <<watched, wire>>
      BY <1>18, <2>3 DEF HeartbeatTick
    <3>2. QED
      BY <1>18, <2>1, <3>1 DEF HeartbeatTick
  <2>4. QED
    BY <2>2, <2>3
<1>19. CASE StableReset
  BY <1>19 DEF StableReset
<1>20. CASE ReconnectTimer
  BY <1>20, ConnectKeeps DEF ReconnectTimer
<1>21. CASE Watchdog
  <2>1. watched = cur /\ cur \in Sockets /\ wire' = [wire EXCEPT ![cur] = "closing"]
    BY <1>21 DEF Watchdog, Hang
  <2>2. QED
    BY <1>21, <2>1, HandleCloseKeeps DEF Watchdog
<1>22. CASE UNCHANGED vars
  BY <1>22 DEF vars
<1>23. QED
  BY <1>1, <1>2, <1>3, <1>4, <1>5, <1>6, <1>7, <1>8, <1>9, <1>10, <1>11, <1>12,
     <1>13, <1>14, <1>15, <1>16, <1>17, <1>18, <1>19, <1>20, <1>21, <1>22
     DEF Next, Owner, Peer, Node

LEMMA SpecIndInv == Spec => []IndInv
<1>1. Init => IndInv
  BY InitIndInv
<1>2. IndInv /\ [Next]_vars => IndInv'
  BY NextIndInv
<1>3. QED
  BY <1>1, <1>2, PTL DEF Spec

(***************************************************************************)
(* The connector's state keeps its type; in particular the refusal counter *)
(* stays within the budget, for every budget.                              *)
(***************************************************************************)
THEOREM TypeCorrect == Spec => []TypeOK
<1>1. IndInv => TypeOK
  BY DEF IndInv
<1>2. QED
  BY <1>1, SpecIndInv, PTL

(***************************************************************************)
(* At most one socket is live beside those a pending stop() is closing:    *)
(* connect() never orphans one, in any interleaving of the owner's calls,  *)
(* socket events and timers, serialised or not.                            *)
(***************************************************************************)
THEOREM SingleSocket == Spec => []OneLiveSocket
<1>1. IndInv => OneLiveSocket
  BY DEF IndInv
<1>2. QED
  BY <1>1, SpecIndInv, PTL

(***************************************************************************)
(* No timer outlives its socket.                                           *)
(***************************************************************************)
THEOREM TimersHaveOwners == Spec => []TimersOwned
<1>1. IndInv => TimersOwned
  BY DEF IndInv
<1>2. QED
  BY <1>1, SpecIndInv, PTL

(***************************************************************************)
(* After stop() nothing is armed and nothing reconnects.                   *)
(***************************************************************************)
THEOREM Disposal == Spec => []StopIsFinal
<1>1. IndInv => StopIsFinal
  BY DEF IndInv
<1>2. QED
  BY <1>1, SpecIndInv, PTL

-----------------------------------------------------------------------------
(***************************************************************************)
(* With an owner that awaits stop(), a running connector is not being      *)
(* stopped, and has its next step under way.                               *)
(***************************************************************************)
Undisturbed == running => stopWait = {}
FreshDial == cur # NoSocket /\ wire[cur] = "dialing" => deferred[cur] = 0
ProgressInv == IndInv /\ Undisturbed /\ FreshDial /\ NeverStranded

LEMMA CloseSocketProgress ==
  ASSUME ProgressInv, cur # NoSocket, CloseSocket(wire),
         UNCHANGED <<running, cur>>, state' \in {"authenticating", "ready"}
  PROVE  NeverStranded'
BY DEF NeverStranded, TearingDown, CloseSocket

LEMMA ConnectProgress ==
  ASSUME NEW w \in [Sockets -> {"none", "dialing", "open", "closing"}],
         NEW f \in 0..FailureCap, Connect(w, f)
  PROVE  NeverStranded'
<1>1. CASE cur' = NoSocket
  BY <1>1, NoSocketAssumption DEF Connect, NeverStranded, Retrying
<1>2. CASE cur' # NoSocket
  BY <1>2 DEF Connect, NeverStranded, Dialing
<1>3. QED
  BY <1>1, <1>2

LEMMA HandleCloseProgress ==
  ASSUME NEW refused \in BOOLEAN, IndInv, cur # NoSocket, HandleClose(refused)
  PROVE  NeverStranded'
<1>1. ClearConnectionTimers(timers) = {}
  BY DEF ClearConnectionTimers, IndInv, TimersOwned, TypeOK, TimerName
<1>2. cur' = NoSocket
  BY DEF HandleClose
<1>3. CASE state' = "backoff"
  BY <1>2, <1>3 DEF HandleClose, NeverStranded, Retrying
<1>4. CASE state' = "stopped"
  BY <1>1, <1>2, <1>4 DEF HandleClose, NeverStranded, GivenUp
<1>5. CASE state' = "auth_failed"
  <2>1. authFailures' = authFailures + 1 /\ timers' = AuthRetry(authFailures + 1)
    BY <1>1, <1>5 DEF HandleClose
  <2>2. CASE authFailures + 1 > MaxAuthFailures
    BY <1>2, <1>5, <2>1, <2>2 DEF NeverStranded, GivenUp, AuthRetry
  <2>3. CASE ~(authFailures + 1 > MaxAuthFailures)
    BY <1>2, <1>5, <2>1, <2>3 DEF NeverStranded, Retrying, AuthRetry
  <2>4. QED
    BY <2>2, <2>3
<1>6. QED
  BY <1>3, <1>4, <1>5 DEF HandleClose

LEMMA CompleteHandshakeProgress ==
  ASSUME NEW armed, ProgressInv, cur # NoSocket, state = "authenticating",
         CompleteHandshake(armed), UNCHANGED <<running, cur>>
  PROVE  NeverStranded'
<1>1. CASE CloseSocket(wire) /\ UNCHANGED state
  BY <1>1, CloseSocketProgress
<1>2. CASE ~(CloseSocket(wire) /\ UNCHANGED state)
  BY <1>2 DEF CompleteHandshake, ArmStableReset, NeverStranded, Serving
<1>3. QED
  BY <1>1, <1>2

LEMMA NextUndisturbed ==
  CallerAwaitsStop /\ Undisturbed /\ [Next]_vars => Undisturbed'
BY DEF Undisturbed, Next, Owner, Peer, Node, vars, config, Start, StartUnconfigured,
       ReconnectNow, CallerReady, Stop, StopGrace, OpenEvent, PeerCloses, CloseEvent,
       StaleCloseEvent, RecvHeartbeat, RecvOtherVersion, RecvBadFrame, RecvClose,
       RecvHelloOk, ReadyResolved, ReadyRejected, HandshakeTimeout, HeartbeatTick,
       StableReset, ReconnectTimer, Watchdog

(***************************************************************************)
(* A socket is dialed with no createReady promise left over from a former  *)
(* connection.                                                             *)
(***************************************************************************)
LEMMA NextFreshDial == IndInv /\ FreshDial /\ [Next]_vars => FreshDial'
<1> SUFFICES ASSUME IndInv, FreshDial, [Next]_vars PROVE FreshDial'
  OBVIOUS
<1>1. /\ wire \in [Sockets -> {"none", "dialing", "open", "closing"}]
      /\ deferred \in [Sockets -> 0..MaxDeferred]
      /\ cur # NoSocket => cur \in Sockets
  BY DEF IndInv, TypeOK
<1> DEFINE Untouched == /\ cur' # NoSocket => cur' = cur
                        /\ wire'[cur] = "dialing" => wire[cur] = "dialing"
                        /\ deferred'[cur] # 0 => deferred[cur] # 0
           Answered == cur' = cur /\ wire[cur] # "dialing" /\ wire'[cur] # "dialing"
<1>2. SUFFICES ASSUME cur # NoSocket => Untouched \/ Answered,
                      cur = NoSocket => cur' = NoSocket
               PROVE  FreshDial'
  <2>1. CASE Start \/ ReconnectNow \/ ReconnectTimer
    <3>1. cur' # NoSocket => deferred[cur'] = 0
      BY <2>1 DEF Start, ReconnectNow, ReconnectTimer, Connect
    <3>2. deferred' = deferred
      BY <2>1 DEF Start, ReconnectNow, ReconnectTimer
    <3>3. QED
      BY <3>1, <3>2 DEF FreshDial
  <2>2. CASE ~(Start \/ ReconnectNow \/ ReconnectTimer)
    <3>1. cur = NoSocket => cur' = NoSocket
      BY <2>2 DEF Next, Owner, Peer, Node, vars, StartUnconfigured, Stop, StopGrace,
         OpenEvent, PeerCloses, CloseEvent, HandleClose, StaleCloseEvent, Receiving,
         RecvHeartbeat, RecvOtherVersion, RecvBadFrame, RecvClose, RecvHelloOk,
         ReadyResolved, ReadyRejected, HandshakeTimeout, HeartbeatTick, StableReset,
         Watchdog
    <3>2. cur # NoSocket => Untouched \/ Answered
      <4> SUFFICES ASSUME cur # NoSocket PROVE Untouched \/ Answered
        OBVIOUS
      <4>1. cur \in Sockets
        BY <1>1
      <4>2. CASE Stop
        BY <1>1, <4>1, <4>2 DEF Stop, Hang
      <4>3. CASE StartUnconfigured \/ UNCHANGED vars
        BY <4>3 DEF StartUnconfigured, vars
      <4>4. CASE \E s \in Sockets : StopGrace(s)
        BY <1>1, <4>1, <4>4 DEF StopGrace, Hang
      <4>5. CASE OpenEvent
        BY <1>1, <4>1, <4>5 DEF OpenEvent, CloseSocket
      <4>6. CASE \E s \in Sockets : PeerCloses(s) \/ StaleCloseEvent(s)
        BY <1>1, <4>1, <4>6 DEF PeerCloses, StaleCloseEvent
      <4>7. CASE \E refused \in BOOLEAN : CloseEvent(refused)
        BY <1>1, <4>1, <4>7 DEF CloseEvent, HandleClose
      <4>8. CASE RecvHeartbeat \/ StableReset
        BY <4>8 DEF RecvHeartbeat, StableReset
      <4>9. CASE RecvOtherVersion \/ RecvBadFrame
        BY <1>1, <4>1, <4>9 DEF RecvOtherVersion, RecvBadFrame, CloseSocket
      <4>10. CASE \E refused, noReconnect \in BOOLEAN : RecvClose(refused, noReconnect)
        BY <1>1, <4>1, <4>10 DEF RecvClose, CloseSocket
      <4>11. CASE RecvHelloOk
        <5>1. wire[cur] # "dialing" /\ cur' = cur
          BY <4>11 DEF RecvHelloOk, Receiving
        <5>2. wire' = wire \/ wire' = [wire EXCEPT ![cur] = "closing"]
          BY <4>11 DEF RecvHelloOk, CompleteHandshake, CloseSocket
        <5>3. QED
          BY <1>1, <4>1, <5>1, <5>2
      <4>12. CASE \E s \in Sockets : ReadyResolved(s) \/ ReadyRejected(s)
        <5>1. PICK s \in Sockets : ReadyResolved(s) \/ ReadyRejected(s)
          BY <4>12
        <5>2. cur' = cur /\ deferred' = [deferred EXCEPT ![s] = @ - 1] /\ deferred[s] > 0
          BY <5>1 DEF ReadyResolved, ReadyRejected
        <5>3. wire' = wire \/ wire' = [wire EXCEPT ![cur] = "closing"]
          BY <5>1 DEF ReadyResolved, ReadyRejected, CompleteHandshake, CloseSocket
        <5>4. QED
          BY <1>1, <4>1, <5>2, <5>3
      <4>13. CASE HandshakeTimeout \/ HeartbeatTick
        <5>1. cur' = cur /\ deferred' = deferred
          BY <4>13 DEF HandshakeTimeout, HeartbeatTick
        <5>2. wire' = wire \/ wire' = [wire EXCEPT ![cur] = "closing"]
          BY <4>13 DEF HandshakeTimeout, HeartbeatTick, CloseSocket
        <5>3. QED
          BY <1>1, <4>1, <5>1, <5>2
      <4>14. CASE Watchdog
        BY <1>1, <4>1, <4>14 DEF Watchdog, HandleClose, Hang
      <4>15. QED
        BY <2>2, <4>2, <4>3, <4>4, <4>5, <4>6, <4>7, <4>8, <4>9, <4>10, <4>11, <4>12, <4>13,
           <4>14 DEF Next, Owner, Peer, Node
    <3>3. QED
      BY <3>1, <3>2
  <2>3. QED
    BY <2>1, <2>2
<1>3. QED
  BY <1>1, <1>2 DEF FreshDial

(***************************************************************************)
(* While it runs undisturbed, a connector past its dial is in a handshake  *)
(* or serving.                                                             *)
(***************************************************************************)
LEMMA ReceivingStates ==
  ASSUME ProgressInv, cur # NoSocket, wire[cur] # "dialing"
  PROVE  state \in {"authenticating", "ready"}
BY DEF ProgressInv, IndInv, Ownership, NeverStranded, Dialing, Handshaking, Serving,
       TearingDown

LEMMA NextProgress ==
  CallerAwaitsStop /\ ProgressInv /\ [Next]_vars => NeverStranded'
<1> SUFFICES ASSUME CallerAwaitsStop, ProgressInv, [Next]_vars
             PROVE  NeverStranded'
  OBVIOUS
<1>1. \A s \in stopWait : ~running
  BY DEF ProgressInv, Undisturbed
<1>2. cur # NoSocket => cur \in Sockets /\ running
  BY DEF ProgressInv, IndInv, TypeOK, Ownership
<1>3. NeverStranded
  BY DEF ProgressInv
<1>4. wire \in [Sockets -> {"none", "dialing", "open", "closing"}]
  BY DEF ProgressInv, IndInv, TypeOK
<1>5. CASE Start
  BY <1>4, <1>5, BoundAssumption, ConnectProgress DEF Start
<1>6. CASE StartUnconfigured
  BY <1>6 DEF StartUnconfigured, NeverStranded
<1>7. CASE ReconnectNow
  <2>1. Hang(cur) \in [Sockets -> {"none", "dialing", "open", "closing"}]
    BY <1>4 DEF Hang
  <2>2. Connect(Hang(cur), 0)
    BY <1>7 DEF ReconnectNow
  <2>3. QED
    BY <2>1, <2>2, BoundAssumption, ConnectProgress
<1>8. CASE Stop
  BY <1>8 DEF Stop, NeverStranded
<1>9. ASSUME NEW s \in Sockets, StopGrace(s)
      PROVE  NeverStranded'
  BY <1>1, <1>9 DEF StopGrace, NeverStranded
<1>10. CASE OpenEvent
  <2>1. CASE CloseSocket(wire)
    BY <1>10, <2>1, CloseSocketProgress DEF OpenEvent
  <2>2. CASE ~CloseSocket(wire)
    BY <1>2, <1>4, <1>10, <2>2 DEF OpenEvent, NeverStranded, Handshaking
  <2>3. QED
    BY <2>1, <2>2
<1>11. ASSUME NEW s \in Sockets, PeerCloses(s)
       PROVE  NeverStranded'
  BY <1>2, <1>3, <1>4, <1>11
     DEF PeerCloses, NeverStranded, Retrying, GivenUp, Dialing, Handshaking, Serving,
         TearingDown
<1>12. ASSUME NEW refused \in BOOLEAN, CloseEvent(refused)
       PROVE  NeverStranded'
  BY <1>12, HandleCloseProgress DEF CloseEvent, ProgressInv
<1>13. ASSUME NEW s \in Sockets, StaleCloseEvent(s)
       PROVE  NeverStranded'
  BY <1>1, <1>2, <1>3, <1>4, <1>13
     DEF StaleCloseEvent, NeverStranded, Retrying, GivenUp, Dialing, Handshaking,
         Serving, TearingDown
<1>14. CASE RecvHeartbeat
  BY <1>3, <1>14 DEF RecvHeartbeat, config, NeverStranded, Retrying, GivenUp, Dialing,
                    Handshaking, Serving, TearingDown
<1>15. CASE RecvOtherVersion
  BY <1>15, CloseSocketProgress, ReceivingStates DEF RecvOtherVersion, Receiving
<1>16. CASE RecvBadFrame
  BY <1>16, CloseSocketProgress, ReceivingStates DEF RecvBadFrame, Receiving
<1>17. CASE RecvHelloOk
  <2>1. CASE CompleteHandshake(timers \ {"handshake"})
    BY <1>17, <2>1, CompleteHandshakeProgress DEF RecvHelloOk, Receiving
  <2>2. CASE /\ deferred[cur] < MaxDeferred
             /\ deferred' = [deferred EXCEPT ![cur] = @ + 1]
             /\ UNCHANGED <<state, wire>>
    <3>1. deferred'[cur] > 0
      BY <1>2, <1>17, <2>2 DEF RecvHelloOk, Receiving, ProgressInv, IndInv, TypeOK
    <3>2. QED
      BY <1>17, <2>2, <3>1 DEF RecvHelloOk, Receiving, NeverStranded, Handshaking
  <2>3. CASE CloseSocket(wire) /\ UNCHANGED state
    BY <1>17, <2>3, CloseSocketProgress DEF RecvHelloOk, Receiving
  <2>4. QED
    BY <1>17, <2>1, <2>2, <2>3 DEF RecvHelloOk
<1>18. ASSUME NEW refused \in BOOLEAN, NEW noReconnect \in BOOLEAN,
              RecvClose(refused, noReconnect)
       PROVE  NeverStranded'
  BY <1>18, CloseSocketProgress, ReceivingStates DEF RecvClose, Receiving
<1>19. ASSUME NEW s \in Sockets, ReadyResolved(s)
       PROVE  NeverStranded'
  <2>1. CASE s = cur /\ running /\ state = "authenticating"
    BY <1>19, <2>1, NoSocketAssumption, CompleteHandshakeProgress DEF ReadyResolved
  <2>2. CASE ~(s = cur /\ running /\ state = "authenticating")
    <3>1. UNCHANGED <<running, cur, state, wire, timers, watched, authFailures>>
      BY <1>19, <2>2 DEF ReadyResolved
    <3>2. cur # NoSocket /\ state = "authenticating" => deferred'[cur] = deferred[cur]
      BY <1>2, <1>19, <2>2 DEF ReadyResolved, ProgressInv, IndInv, TypeOK
    <3>3. QED
      BY <1>3, <3>1, <3>2 DEF NeverStranded, Retrying, GivenUp, Dialing, Handshaking,
                              Serving, TearingDown
  <2>3. QED
    BY <2>1, <2>2
<1>20. ASSUME NEW s \in Sockets, ReadyRejected(s)
       PROVE  NeverStranded'
  <2>1. CASE s = cur /\ running
    <3>1. wire[cur] # "dialing"
      BY <1>20, <2>1, NoSocketAssumption DEF ReadyRejected, ProgressInv, FreshDial
    <3>2. QED
      BY <1>20, <2>1, <3>1, NoSocketAssumption, CloseSocketProgress, ReceivingStates
         DEF ReadyRejected
  <2>2. CASE ~(s = cur /\ running)
    <3>1. UNCHANGED <<running, cur, state, wire, timers, watched, authFailures>>
      BY <1>20, <2>2 DEF ReadyRejected
    <3>2. cur # NoSocket => deferred'[cur] = deferred[cur]
      BY <1>2, <1>20, <2>2 DEF ReadyRejected, ProgressInv, IndInv, TypeOK
    <3>3. QED
      BY <1>3, <3>1, <3>2 DEF NeverStranded, Retrying, GivenUp, Dialing, Handshaking,
                              Serving, TearingDown
  <2>3. QED
    BY <2>1, <2>2
<1>21. CASE HandshakeTimeout
  <2>1. "handshake" \in timers
    BY <1>21 DEF HandshakeTimeout
  <2>2. cur # NoSocket
    BY <2>1 DEF ProgressInv, IndInv, TimersOwned, ConnectionTimers
  <2>3. CASE state = "authenticating"
    BY <1>21, <2>2, <2>3, CloseSocketProgress DEF HandshakeTimeout
  <2>4. CASE state # "authenticating"
    BY <1>2, <1>3, <1>21, <2>2, <2>4
       DEF HandshakeTimeout, NeverStranded, Dialing, Handshaking, Serving, TearingDown
  <2>5. QED
    BY <2>3, <2>4
<1>22. CASE HeartbeatTick
  <2>1. cur # NoSocket
    BY <1>22 DEF HeartbeatTick, ProgressInv, IndInv, TimersOwned, ConnectionTimers
  <2>2. CASE CloseSocket(wire) /\ state = "ready"
    BY <1>22, <2>1, <2>2, CloseSocketProgress DEF HeartbeatTick
  <2>3. CASE ~(CloseSocket(wire) /\ state = "ready")
    <3>1. /\ timers' = timers \/ (state # "ready" /\ timers' = timers \ {"heartbeat"})
          /\ UNCHANGED <<running, cur, state, wire, watched, deferred, authFailures>>
      BY <1>2, <1>22, <2>1, <2>3 DEF HeartbeatTick
    <3>2. QED
      BY <1>2, <1>3, <2>1, <3>1
         DEF NeverStranded, Dialing, Handshaking, Serving, TearingDown
  <2>4. QED
    BY <2>2, <2>3
<1>23. CASE StableReset
  <2>1. cur # NoSocket
    BY <1>23 DEF StableReset, ProgressInv, IndInv, TimersOwned, ConnectionTimers
  <2>2. QED
    BY <1>3, <1>23, <2>1
       DEF StableReset, NeverStranded, Dialing, Handshaking, Serving, TearingDown
<1>24. CASE ReconnectTimer
  BY <1>4, <1>24, ConnectProgress DEF ReconnectTimer, ProgressInv, IndInv, TypeOK
<1>25. CASE Watchdog
  <2>1. watched = cur /\ cur # NoSocket
    BY <1>25 DEF Watchdog, ProgressInv, IndInv, TimersOwned
  <2>2. QED
    BY <1>25, <2>1, HandleCloseProgress DEF Watchdog, ProgressInv
<1>26. CASE UNCHANGED vars
  BY <1>3, <1>26 DEF vars, NeverStranded, Retrying, GivenUp, Dialing, Handshaking,
                    Serving, TearingDown
<1>27. QED
  BY <1>5, <1>6, <1>7, <1>8, <1>9, <1>10, <1>11, <1>12, <1>13, <1>14, <1>15, <1>16,
     <1>17, <1>18, <1>19, <1>20, <1>21, <1>22, <1>23, <1>24, <1>25, <1>26
     DEF Next, Owner, Peer, Node

(***************************************************************************)
(* With an owner that awaits stop(), a running connector is never          *)
(* stranded: a dial, a watched handshake, a heartbeat, a watched teardown  *)
(* or a reconnect is always under way, unless a verdict handed the next    *)
(* step to the operator.                                                   *)
(***************************************************************************)
THEOREM Progress ==
  ASSUME CallerAwaitsStop
  PROVE  Spec => []NeverStranded
<1>1. Init => Undisturbed /\ FreshDial /\ NeverStranded
  BY DEF Init, Undisturbed, FreshDial, NeverStranded
<1>2. ProgressInv /\ [Next]_vars => ProgressInv'
  BY NextIndInv, NextUndisturbed, NextFreshDial, NextProgress DEF ProgressInv
<1>3. ProgressInv => NeverStranded
  BY DEF ProgressInv
<1>4. Init => ProgressInv
  BY <1>1, InitIndInv DEF ProgressInv
<1>5. QED
  BY <1>2, <1>3, <1>4, PTL DEF Spec

-----------------------------------------------------------------------------
(***************************************************************************)
(* A step that lowers the failure counter is one of the three that may.    *)
(***************************************************************************)
Lowers == failures' < failures
Excused ==
  \/ state' = "ready" /\ (state = "ready" \/ instantReset)
  \/ Start \/ ReconnectNow

LEMMA CountsUp ==
  ASSUME NEW f \in 0..FailureCap
  PROVE  OneMore(f) \in Nat /\ f \in Nat /\ f <= OneMore(f)
BY BoundAssumption DEF OneMore

LEMMA CompleteHandshakeLowers ==
  ASSUME TypeOK, NEW armed, CompleteHandshake(armed), Lowers
  PROVE  state' = "ready" /\ instantReset
BY CountsUp DEF CompleteHandshake, ArmStableReset, TypeOK, Lowers

LEMMA StepLowers ==
  ASSUME TypeOK, [Next]_vars, Lowers
  PROVE  Excused
<1> USE DEF Lowers, Excused
<1>1. OneMore(failures) \in Nat /\ failures \in Nat /\ failures <= OneMore(failures)
  BY CountsUp DEF TypeOK
<1>2. CASE Owner
  BY <1>1, <1>2 DEF Owner, StartUnconfigured, Stop
<1>3. CASE RecvHelloOk \/ \E s \in Sockets : ReadyResolved(s)
  <2>1. PICK armed : CompleteHandshake(armed)
    BY <1>1, <1>3 DEF RecvHelloOk, ReadyResolved
  <2> QED BY <2>1, CompleteHandshakeLowers
<1>4. CASE StableReset
  BY <1>1, <1>4 DEF StableReset
<1>5. CASE Watchdog \/ \E refused \in BOOLEAN : CloseEvent(refused)
  <2>1. failures' = failures \/ \E refused \in BOOLEAN : HandleClose(refused)
    BY <1>5 DEF Watchdog, CloseEvent
  <2>2. failures' = failures \/ failures' = OneMore(failures)
    BY <2>1, Zenon DEF HandleClose
  <2> QED BY <1>1, <2>2
<1>6. CASE ReconnectTimer
  <2>1. failures' = failures \/ failures' = OneMore(failures)
    BY <1>6, Zenon DEF ReconnectTimer, Connect
  <2> QED BY <1>1, <2>1
<1>7. CASE \/ OpenEvent \/ \E s \in Sockets : PeerCloses(s) \/ StaleCloseEvent(s)
           \/ RecvHeartbeat \/ RecvOtherVersion \/ RecvBadFrame
           \/ \E refused, noReconnect \in BOOLEAN : RecvClose(refused, noReconnect)
           \/ \E s \in Sockets : StopGrace(s) \/ ReadyRejected(s)
           \/ HandshakeTimeout \/ HeartbeatTick \/ UNCHANGED vars
  <2>1. failures' = failures
    BY <1>7 DEF OpenEvent, PeerCloses, StaleCloseEvent, RecvHeartbeat, RecvOtherVersion,
       RecvBadFrame, RecvClose, StopGrace, ReadyRejected, HandshakeTimeout, HeartbeatTick, vars
  <2> QED BY <1>1, <2>1
<1> QED BY <1>2, <1>3, <1>4, <1>5, <1>6, <1>7 DEF Next, Peer, Node

(***************************************************************************)
(* BackoffSurvivesFlapping: a link that fails again and again never starts *)
(* over by itself, however its sockets, handshakes and timers interleave.  *)
(***************************************************************************)
THEOREM Backoff == Spec => BackoffSurvivesFlapping
<1>1. TypeOK /\ [Next]_vars =>
        [ failures' < failures =>
            \/ state' = "ready" /\ (state = "ready" \/ instantReset)
            \/ Start \/ ReconnectNow ]_vars
  BY StepLowers DEF Lowers, Excused
<1> QED BY <1>1, TypeCorrect, PTL DEF Spec, BackoffSurvivesFlapping

-----------------------------------------------------------------------------
(***************************************************************************)
(* The link that Requests and Streams start from is this connector's: what *)
(* isReady() and send() make of its state and its current socket.          *)
(***************************************************************************)
Link ==
  IF state # "ready" \/ cur = NoSocket THEN "down"
  ELSE IF wire[cur] = "open" THEN "open" ELSE "closing"

\* The steps in which those modules bring it down: onDisconnected() is called,
\* or the owner's own call drops it.
Reported ==
  \/ \E refused \in BOOLEAN : CloseEvent(refused)
  \/ Watchdog /\ watched = cur
  \/ Stop \/ ReconnectNow

\* LinkUp, LinkCloses, and what LinkLost, Stop and ReconnectNow do to it there.
LinkStep ==
  IF Reported THEN Link' = "down"
  ELSE Link' = Link \/ <<Link, Link'>> \in {<<"down", "open">>, <<"open", "closing">>}

LinkContract == [][LinkStep]_vars

\* An established link was opened.
Opened == state = "ready" /\ cur # NoSocket => wire[cur] \in {"open", "closing"}

LEMMA NextOpened == IndInv /\ Opened /\ [Next]_vars => Opened'
<1> SUFFICES ASSUME IndInv, Opened, [Next]_vars PROVE Opened'
  OBVIOUS
<1>1. /\ cur # NoSocket => cur \in Sockets
      /\ wire \in [Sockets -> {"none", "dialing", "open", "closing"}]
  BY DEF IndInv, TypeOK
<1>2. CASE Owner
  BY <1>2 DEF Owner, Start, StartUnconfigured, ReconnectNow, Stop, Connect, Opened
<1>3. CASE \/ OpenEvent \/ RecvHelloOk \/ RecvOtherVersion \/ RecvBadFrame
           \/ \E refused, noReconnect \in BOOLEAN : RecvClose(refused, noReconnect)
           \/ \E s \in Sockets : ReadyResolved(s) \/ ReadyRejected(s)
           \/ HandshakeTimeout \/ HeartbeatTick
  <2>1. cur' = cur
    BY <1>3 DEF OpenEvent, RecvHelloOk, RecvOtherVersion, RecvBadFrame, RecvClose,
       ReadyResolved, ReadyRejected, HandshakeTimeout, HeartbeatTick
  <2>2. \/ wire' = [wire EXCEPT ![cur] = "closing"]
        \/ wire' = wire /\ (state' = state \/ wire[cur] = "open")
        \/ state' = "authenticating"
    BY <1>3 DEF OpenEvent, RecvHelloOk, RecvOtherVersion, RecvBadFrame, RecvClose,
       ReadyResolved, ReadyRejected, HandshakeTimeout, HeartbeatTick, CloseSocket,
       CompleteHandshake
  <2> QED BY <1>1, <2>1, <2>2 DEF Opened
<1>4. CASE \E s \in Sockets : PeerCloses(s) \/ StaleCloseEvent(s) \/ StopGrace(s)
  BY <1>1, <1>4 DEF PeerCloses, StaleCloseEvent, StopGrace, Hang, Opened, IndInv, Ownership
<1>5. CASE Watchdog \/ \E refused \in BOOLEAN : CloseEvent(refused)
  <2>1. PICK refused : HandleClose(refused)
    BY <1>5 DEF Watchdog, CloseEvent, IndInv, TimersOwned
  <2> QED BY <2>1 DEF HandleClose, Opened
<1>6. CASE ReconnectTimer
  BY <1>6 DEF ReconnectTimer, Connect, Opened
<1>7. CASE RecvHeartbeat \/ StableReset \/ UNCHANGED vars
  BY <1>7 DEF RecvHeartbeat, StableReset, vars, Opened
<1> QED BY <1>2, <1>3, <1>4, <1>5, <1>6, <1>7 DEF Next, Peer, Node

\* What becomes of the link when its socket starts to close.
LEMMA ClosingLink ==
  ASSUME IndInv, cur # NoSocket, Opened, cur' = cur, state' = state,
         wire' = [wire EXCEPT ![cur] = "closing"]
  PROVE  Link' = Link \/ (Link = "open" /\ Link' = "closing")
<1>1. cur \in Sockets /\ wire \in [Sockets -> {"none", "dialing", "open", "closing"}]
  BY DEF IndInv, TypeOK
<1> QED BY <1>1 DEF Link, Opened

LEMMA LinkSteps == IndInv /\ Undisturbed /\ Opened /\ [Next]_vars => LinkStep
<1> SUFFICES ASSUME IndInv, Undisturbed, Opened, [Next]_vars, ~Reported
             PROVE  Link' = Link \/ <<Link, Link'>> \in {<<"down", "open">>, <<"open", "closing">>}
  <2>1. CASE ~Reported
    BY <2>1 DEF LinkStep
  <2>2. CASE Reported
    BY <2>2 DEF LinkStep, Reported, CloseEvent, Watchdog, HandleClose, Stop, ReconnectNow,
       Connect, Link
  <2> QED BY <2>1, <2>2
<1>1. /\ cur # NoSocket => cur \in Sockets /\ running
      /\ wire \in [Sockets -> {"none", "dialing", "open", "closing"}]
      /\ running => stopWait = {}
      /\ ~running => cur = NoSocket
      /\ cur \notin stopWait
  BY NoSocketAssumption DEF IndInv, TypeOK, Ownership, Undisturbed, StopIsFinal
<1>2. CASE Start \/ StartUnconfigured
  BY <1>1, <1>2 DEF Start, StartUnconfigured, Connect, Link
<1>3. CASE Stop \/ ReconnectNow \/ \E refused \in BOOLEAN : CloseEvent(refused)
  BY <1>3 DEF Reported
<1>4. CASE OpenEvent
  BY <1>4 DEF OpenEvent, Opened, Link
<1>5. CASE \E s \in Sockets : PeerCloses(s) \/ StaleCloseEvent(s) \/ StopGrace(s)
  BY <1>1, <1>5 DEF PeerCloses, StaleCloseEvent, StopGrace, Hang, Link
<1>6. CASE RecvHelloOk \/ \E s \in Sockets : ReadyResolved(s) /\ state = "authenticating"
  <2>1. cur' = cur /\ state = "authenticating"
    BY <1>6 DEF RecvHelloOk, ReadyResolved
  <2>2. state' = state \/ (state' = "ready" /\ wire[cur] = "open" /\ wire' = wire)
    BY <1>6 DEF RecvHelloOk, ReadyResolved, CompleteHandshake, CloseSocket
  <2> QED BY <2>1, <2>2 DEF Link
<1>7. CASE \/ RecvOtherVersion \/ RecvBadFrame \/ HandshakeTimeout \/ HeartbeatTick
           \/ \E refused, noReconnect \in BOOLEAN : RecvClose(refused, noReconnect)
           \/ \E s \in Sockets : ReadyRejected(s)
  <2>1. /\ cur' = cur /\ state' = state
        /\ wire' = wire \/ (cur # NoSocket /\ wire' = [wire EXCEPT ![cur] = "closing"])
    BY <1>7, NoSocketAssumption DEF RecvOtherVersion, RecvBadFrame, HandshakeTimeout,
       HeartbeatTick, RecvClose, ReadyRejected, CloseSocket, Receiving, IndInv, TimersOwned,
       ConnectionTimers
  <2>2. CASE wire' = wire
    BY <2>1, <2>2 DEF Link
  <2> QED BY <2>1, <2>2, ClosingLink
<1>8. CASE ReconnectTimer
  BY <1>8 DEF ReconnectTimer, Connect, Link, IndInv, TimersOwned
<1>9. CASE Watchdog
  BY <1>9 DEF Watchdog, Reported, IndInv, TimersOwned
<1>10. CASE \/ RecvHeartbeat \/ StableReset \/ UNCHANGED vars
            \/ \E s \in Sockets : ReadyResolved(s) /\ state # "authenticating"
  <2>1. UNCHANGED <<state, cur, wire>>
    BY <1>10 DEF RecvHeartbeat, StableReset, vars, ReadyResolved
  <2> QED BY <2>1 DEF Link
<1> QED BY <1>2, <1>3, <1>4, <1>5, <1>6, <1>7, <1>8, <1>9, <1>10 DEF Next, Owner, Peer, Node

(***************************************************************************)
(* The connector keeps the contract by which Requests and Streams are      *)
(* modelled apart from it, for an owner that awaits stop(): an established *)
(* link is never lost without onDisconnected() or the owner's own call,    *)
(* and a link that has begun to close does not carry frames again.         *)
(* Without that owner it does not: the end of a stop() takes a new link    *)
(* from its requests and streams unreported (finding 1).                   *)
(***************************************************************************)
THEOREM Contract ==
  ASSUME CallerAwaitsStop
  PROVE  Spec => LinkContract
<1>1. Init => Undisturbed /\ Opened
  BY DEF Init, Undisturbed, Opened
<1>2. IndInv /\ Undisturbed /\ Opened /\ [Next]_vars => Undisturbed' /\ Opened'
  BY NextUndisturbed, NextOpened
<1>3. IndInv /\ Undisturbed /\ Opened /\ [Next]_vars => [LinkStep]_vars
  BY LinkSteps
<1> QED BY <1>1, <1>2, <1>3, SpecIndInv, PTL DEF Spec, LinkContract

=============================================================================
