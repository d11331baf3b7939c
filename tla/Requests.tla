------------------------------- MODULE Requests -------------------------------
(***************************************************************************)
(* Unary requests: the registry of src/src/request-manager.ts and the      *)
(* dispatch of src/src/index.ts that drives it.                            *)
(*                                                                         *)
(* A run is one call of runRequest() with the record that begin() gave it; *)
(* everything else finds the record by its requestId, so that a run left   *)
(* over from an earlier request could meet the record of a later one.      *)
(* A run suspends on a race of the Gateway's answer and the abort of its   *)
(* signal.  A race that is decided goes on in a microtask: frames of the   *)
(* same turn may come first, a timer or a socket event may not (Drained).  *)
(***************************************************************************)
EXTENDS FiniteSets, Naturals

CONSTANTS
  Ids,            \* requestIds the Coordinator uses
  Runs,           \* pool of runs
  NoRun,          \* no record
  MaxInFlight     \* maxInFlightRequests

ASSUME PoolAssumption ==
  MaxInFlight \in Nat /\ IsFiniteSet(Ids) /\ NoRun \notin Runs

VARIABLES
  link,       \* the connector: isReady ("open"), ready but closing, or neither
  live,       \* RequestManager.live: the record under each id
  timed,      \* records whose timeout timer is armed
  serving,    \* the id of the request each run executes, for those suspended
  settled,    \* runs whose invocation the Gateway has settled
  reason      \* the abort reason of each record's signal

vars == <<link, live, timed, serving, settled, reason>>

AbortReason == {"cancelled", "timeout", "lost", "shutdown"}
Live == {id \in Ids : live[id] # NoRun}
Records == {live[id] : id \in Live}
Running == DOMAIN serving

(***************************************************************************)
(* Every variable keeps its type; the registry holds at most MaxInFlight   *)
(* records.                                                                *)
(***************************************************************************)
TypeOK ==
  /\ link \in {"down", "open", "closing"}
  /\ live \in [Ids -> Runs \cup {NoRun}]
  /\ Cardinality(Live) <= MaxInFlight
  /\ timed \in SUBSET Runs
  /\ Running \in SUBSET Runs
  /\ serving \in [Running -> Ids]
  /\ settled \in SUBSET Runs
  /\ reason \in [Runs -> {"none"} \cup AbortReason]

Init ==
  /\ link = "down"
  /\ live = [id \in Ids |-> NoRun]
  /\ timed = {}
  /\ serving = [r \in {} |-> NoRun]
  /\ settled = {}
  /\ reason = [r \in Runs |-> "none"]

-----------------------------------------------------------------------------

\* The races whose continuation is queued, and a turn that has none left.
Decided == {r \in Running : r \in settled \/ reason[r] # "none"}
Drained == Decided = {}

\* abort(): the first reason stays.
Abort_never(rs, why) == reason
Abort(rs, why) ==
  [r \in Runs |-> IF r \in rs /\ reason[r] = "none" THEN why ELSE reason[r]]

\* The record under an id, as a set.
Record(id) == {live[id]} \ {NoRun}

\* begin() admits an id that is free while there is room, and arms a timer.
Admissible_overfull(id) == live[id] = NoRun
Admissible(id) == live[id] = NoRun /\ Cardinality(Live) < MaxInFlight
Armed_never(r) == timed
Armed(r) == timed \cup {r}

\* complete() and failAll() cancel the timers of the records they remove.
Disarmed_leak(rs) == timed
Disarmed(rs) == timed \ rs

FailAll(why) ==
  /\ reason' = Abort(Records, why)
  /\ live' = [id \in Ids |-> NoRun]
  /\ timed' = Disarmed(Records)
  /\ UNCHANGED <<serving, settled>>

-----------------------------------------------------------------------------
(***************************************************************************)
(* The link.                                                               *)
(***************************************************************************)

\* A handshake completes; several turns lie between this and the last link.
LinkUp ==
  /\ link = "down" /\ Drained
  /\ link' = "open"
  /\ UNCHANGED <<live, timed, serving, settled, reason>>

\* A close begins, at either end: send() is refused, the state is still ready.
LinkCloses ==
  /\ link = "open"
  /\ link' = "closing"
  /\ UNCHANGED <<live, timed, serving, settled, reason>>

\* onDisconnected(): the close event of the current socket, ready or not.
LinkLost ==
  /\ Drained
  /\ link' = "down"
  /\ FailAll("lost")

\* stop() and disconnect(): fail everything, then stop the connector, whose
\* own onDisconnected() finds nothing left.
Stop ==
  /\ link' = "down"
  /\ FailAll("shutdown")

\* reconnectNow() drops the socket and reports no disconnection.
ReconnectNow ==
  /\ link' = "down"
  /\ UNCHANGED <<live, timed, serving, settled, reason>>

-----------------------------------------------------------------------------
(***************************************************************************)
(* Frames, timers and continuations.                                       *)
(***************************************************************************)

\* handleRequest(), admitted.  A refusal (endpoint, arguments, capability, an
\* id in flight, the limit) is answered at once and changes nothing here.
Request(id, r) ==
  /\ link # "down" /\ Admissible(id) /\ r \notin Running
  /\ live' = [live EXCEPT ![id] = r]
  /\ timed' = Armed(r)
  /\ serving' = [q \in Running \cup {r} |-> IF q = r THEN id ELSE serving[q]]
  /\ UNCHANGED <<link, settled, reason>>

\* handleCancel(); the request stays live.
Cancel(id) ==
  /\ link # "down"
  /\ reason' = Abort(Record(id), "cancelled")
  /\ UNCHANGED <<link, live, timed, serving, settled>>

\* A timeout timer; it aborts whatever is live under the id.
Timeout(r) ==
  /\ r \in timed /\ Drained
  /\ timed' = timed \ {r}
  /\ reason' = IF r \in Running THEN Abort(Record(serving[r]), "timeout") ELSE reason
  /\ UNCHANGED <<link, live, serving, settled>>

\* The Gateway answers, rejects or was never there; it need not heed an abort.
GatewaySettles(r) ==
  /\ r \in Running \ settled
  /\ settled' = settled \cup {r}
  /\ UNCHANGED <<link, live, timed, serving, reason>>

\* runRequest() goes on: complete() by id, and one attempt at an answer if there was
\* a record to complete.  Whether the frame leaves is left out: send() refuses it
\* unless the link is open, or when it is too large or cannot be encoded, and
\* sendResult() does not look.
Resume(r) ==
  /\ r \in Decided
  /\ serving' = [q \in Running \ {r} |-> serving[q]]
  /\ live' = [live EXCEPT ![serving[r]] = NoRun]
  /\ timed' = Disarmed(Record(serving[r]))
  /\ settled' = settled \ {r}
  /\ reason' = [reason EXCEPT ![r] = "none"]
  /\ UNCHANGED link

Next ==
  \/ LinkUp \/ LinkCloses \/ LinkLost \/ Stop \/ ReconnectNow
  \/ \E id \in Ids : Cancel(id) \/ \E r \in Runs : Request(id, r)
  \/ \E r \in Runs : Timeout(r) \/ GatewaySettles(r) \/ Resume(r)

Spec == Init /\ [][Next]_vars

\* Microtasks run, and a timer that is due fires between them however busy the
\* node is.  Nothing is assumed of the Gateway.
Fairness == \A r \in Runs : WF_vars(Resume(r)) /\ SF_vars(Timeout(r))
FairSpec == Spec /\ Fairness

-----------------------------------------------------------------------------
(***************************************************************************)
(* One run per record and one record per run: the record under an id is    *)
(* that of a run suspended for the id, and a run that has lost its record  *)
(* (to a lost link or a shutdown) is already on its way out, so that no    *)
(* late answer of the Gateway can complete the next request of that id.    *)
(***************************************************************************)
OneRunPerRecord ==
  /\ \A id \in Live : live[id] \in Running /\ serving[live[id]] = id
  /\ \A r \in Running : live[serving[r]] = r \/ (live[serving[r]] = NoRun /\ r \in Decided)

(***************************************************************************)
(* A timer belongs to a record that is live (one that survived would abort *)
(* the next request of its id), and a live record that has lost its timer  *)
(* was aborted.                                                            *)
(***************************************************************************)
TimersOwned ==
  /\ timed \subseteq Records
  /\ \A r \in Records : r \in timed \/ reason[r] # "none"

\* The run that holds the record under an id completes it in this step, and only
\* then tries to send an answer.
ItsRunEnds(id) == live[id] \in Decided /\ live[id] \notin DOMAIN serving'

(***************************************************************************)
(* "Settles exactly once", in the registry: while the link stays up, a     *)
(* record leaves it only when its own run completes it, so it is neither   *)
(* forgotten nor given the outcome of another run.  That the answer's      *)
(* frame leaves is not said.                                               *)
(***************************************************************************)
SettledByItsRun ==
  [][ \A id \in Live :
        live'[id] # live[id] /\ link' # "down" => ItsRunEnds(id) ]_vars

(***************************************************************************)
(* Dropping the connection fails every live request.                       *)
(***************************************************************************)
DroppedLinkFailsAll == [][ link = "open" /\ link' = "down" => Live' = {} ]_vars

(***************************************************************************)
(* A node that stops in an orderly way answers what it was executing: a    *)
(* stop drops no record while the link could carry its answer.             *)
(***************************************************************************)
StopAnswersAll ==
  [][ Stop /\ link = "open" => \A id \in Live : ItsRunEnds(id) ]_vars

(***************************************************************************)
(* Every request ends, also when the Gateway never answers.                *)
(***************************************************************************)
RequestsEnd == \A r \in Runs : r \in Running ~> r \notin Running

=============================================================================
