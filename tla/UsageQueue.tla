------------------------------ MODULE UsageQueue ------------------------------
(***************************************************************************)
(* The durable usage queue of src/src/usage/store.ts, the collector of     *)
(* src/src/usage/collector.ts that feeds it and the Coordinator that       *)
(* drains it.                                                              *)
(*                                                                         *)
(* A call of the store is synchronous, but it makes several durable        *)
(* writes: the process can die between any two of them, and each can fail. *)
(* Events are their sequence numbers; coverage_state, which only counts    *)
(* for status(), is left out.                                              *)
(***************************************************************************)
EXTENDS FiniteSets, Integers

CONSTANTS
  Attempts,      \* model calls the collector observes
  MaxSeq,        \* bound: sequence numbers
  CursorsAhead,  \* whether a read may ask after an event not issued yet
  FinishOnce     \* whether a stream has one finish chunk at most, as the protocol
                 \* of the runtime has it

ASSUME QueueAssumption ==
  /\ IsFiniteSet(Attempts) /\ MaxSeq \in Nat
  /\ CursorsAhead \in BOOLEAN /\ FinishOnce \in BOOLEAN

VARIABLES
  up,            \* the store: "closed", "opening" (interruptRunning) or "open"
  call,          \* the durable write appendAttempt() makes next, and its snapshot
  stream,        \* each model call, as its generator stands: "finished" once it has
                 \* seen a finish chunk, "ended" without one, "lost" with its store
  \* usage.sqlite
  latest,        \* latest_issued_seq, and next_seq, which is never another
  outbox,        \* events retained
  rows,          \* attempts: state and latest_seq of each
  degraded,      \* degraded_since is set
  delivered, acked,
  \* the rest
  cursor,        \* nextSeq of the pages the Coordinator has stored
  stored,        \* events it has stored
  said,          \* history: the last state issued for each attempt
  untold         \* history: a refusal was noted, and no gap issued since

disk == <<latest, outbox, rows, degraded, delivered, acked>>
coordinator == <<cursor, stored>>
history == <<said, untold>>
vars == <<up, call, stream, disk, coordinator, history>>

Idle == [at |-> "idle"]
Calls == [at : {"gap", "clear", "event"}, attempt : Attempts,
          state : {"running", "ended"}]
\* "ended" is completed, failed or cancelled.
Final == {"ended", "interrupted"}
Running == {a \in Attempts : rows[a].state = "running"}

(***************************************************************************)
(* Every variable keeps its type.                                          *)
(***************************************************************************)
TypeOK ==
  /\ up \in {"closed", "opening", "open"}
  /\ call \in {Idle} \cup Calls
  /\ stream \in [Attempts -> {"new", "running", "finished", "ended", "lost"}]
  /\ latest \in 0..MaxSeq /\ outbox \in SUBSET (1..latest)
  /\ rows \in [Attempts -> [state : {"none", "running"} \cup Final, seq : 0..MaxSeq]]
  /\ degraded \in BOOLEAN /\ untold \in BOOLEAN
  /\ delivered \in 0..MaxSeq /\ acked \in 0..delivered
  /\ cursor \in 0..MaxSeq /\ stored \in SUBSET (1..latest)
  /\ said \in [Attempts -> {"none", "running"} \cup Final]

Init ==
  /\ up = "closed" /\ call = Idle
  /\ stream = [a \in Attempts |-> "new"]
  /\ latest = 0 /\ outbox = {}
  /\ rows = [a \in Attempts |-> [state |-> "none", seq |-> 0]]
  /\ degraded = FALSE /\ delivered = 0 /\ acked = 0
  /\ cursor = 0 /\ stored = {}
  /\ said = [a \in Attempts |-> "none"] /\ untold = FALSE

-----------------------------------------------------------------------------
(***************************************************************************)
(* Durable writes.                                                         *)
(***************************************************************************)

\* #appendEvent(): the next number, its event and the watermark in one
\* transaction.
Issue ==
  /\ latest < MaxSeq
  /\ latest' = latest + 1
  /\ outbox' = outbox \cup {latest + 1}

\* ... with the newest snapshot of its attempt.
IssueAttempt(a, state) ==
  /\ Issue
  /\ rows' = [rows EXCEPT ![a] = [state |-> state, seq |-> latest + 1]]
  /\ said' = [said EXCEPT ![a] = state]

\* #enterDegraded(): unless the mark is set already, and the write may fail.
EnterDegraded == degraded' \in {degraded, TRUE}

-----------------------------------------------------------------------------
(***************************************************************************)
(* The process.                                                            *)
(***************************************************************************)

\* open(): the schema and the lock, then what a dead process left running.
Open ==
  /\ up = "closed"
  /\ up' = "opening"
  /\ UNCHANGED <<call, stream, disk, coordinator, history>>

LeftRunning == Running

\* interruptRunning(), one attempt.
Interrupt(a) ==
  /\ up = "opening" /\ a \in LeftRunning
  /\ IssueAttempt(a, "interrupted")
  /\ UNCHANGED <<up, call, stream, degraded, delivered, acked, coordinator, untold>>

OpenDone ==
  /\ up = "opening" /\ Running = {}
  /\ up' = "open"
  /\ UNCHANGED <<call, stream, disk, coordinator, history>>

\* The process dies, open() throws, or the plugin closes the store: a generator
\* that goes on holds a closed store, whose writes fail.
Down ==
  /\ up # "closed"
  /\ up' = "closed" /\ call' = Idle
  /\ stream' = [a \in Attempts |-> IF stream[a] = "new" THEN "new" ELSE "lost"]
  /\ UNCHANGED <<disk, coordinator, history>>

-----------------------------------------------------------------------------
(***************************************************************************)
(* The collector: running, a revision per usage chunk until terminal, one  *)
(* per finish chunk, and one for an end without any.                       *)
(***************************************************************************)

\* appendAttempt() at the capacity limit: the revision is refused.
Refuse ==
  /\ EnterDegraded
  /\ untold' = (untold \/ degraded')
  /\ call' = Idle

\* Otherwise an interval that ends here is told before the event.
Submit_straight(a, state) == call' = [at |-> "event", attempt |-> a, state |-> state]
Submit(a, state) ==
  call' = [at |-> IF degraded THEN "gap" ELSE "event", attempt |-> a, state |-> state]

\* MaxSeq leaves room for a gap, the event and the interruption of what runs then.
Room(a, state) ==
  LET after == Cardinality(Running \cup {a})
  IN  latest + 1 + after + (IF state = "running" THEN 1 ELSE 0) <= MaxSeq

\* A generator reaches the next revision.
Observe(a, from, to, state) ==
  /\ up = "open" /\ call = Idle
  /\ stream[a] \in from
  /\ Room(a, state)
  /\ stream' = [stream EXCEPT ![a] = to]
  /\ Refuse \/ (Submit(a, state) /\ UNCHANGED <<degraded, untold>>)
  /\ UNCHANGED <<up, latest, outbox, rows, delivered, acked, coordinator, said>>

\* Before its first revision, or not terminal.
Unfinished_always == {"new", "running", "finished"}
Unfinished == {"new", "running"}

Revise(a) == Observe(a, Unfinished, "running", "running")

\* The finish branch does not ask whether the stream is terminal already: each
\* finish chunk has its revision.
Finish(a) ==
  Observe(a, IF FinishOnce THEN {"running"} ELSE {"running", "finished"},
          "finished", "ended")

\* The stream is done without a finish chunk, throws, or is left early; after a
\* finish chunk that leaves no trace.
End(a) == Observe(a, {"running"}, "ended", "ended")

\* #recoverIfDegraded(): the gap, then the mark.
TellGap ==
  /\ call # Idle /\ call.at = "gap"
  /\ Issue
  /\ call' = [call EXCEPT !.at = "clear"]
  /\ untold' = FALSE
  /\ UNCHANGED <<up, stream, rows, degraded, delivered, acked, coordinator, said>>

ClearMark ==
  /\ call # Idle /\ call.at = "clear"
  /\ call' = [call EXCEPT !.at = "event"]
  /\ degraded' = FALSE
  /\ UNCHANGED <<up, stream, latest, outbox, rows, delivered, acked,
                 coordinator, history>>

Record ==
  /\ call # Idle /\ call.at = "event"
  /\ IssueAttempt(call.attempt, call.state)
  /\ call' = Idle
  /\ UNCHANGED <<up, stream, degraded, delivered, acked, coordinator, untold>>

\* A write fails: persist() swallows the error and the stream goes on.
WriteFails ==
  /\ call # Idle
  /\ call' = Idle
  /\ UNCHANGED <<up, stream, disk, coordinator, history>>

-----------------------------------------------------------------------------
(***************************************************************************)
(* The Coordinator.  It reads from any cursor it had and acknowledges what *)
(* it stored; any answer can be lost, any call late or repeated.           *)
(***************************************************************************)
Earliest ==
  IF outbox = {} THEN latest + 1 ELSE CHOOSE s \in outbox : \A t \in outbox : s <= t

\* Where the page starts: past the pruned events, which are named as a gap.
From(after) == IF after + 1 < Earliest THEN Earliest - 1 ELSE after
Pruned(after) == (after + 1)..From(after)

\* A page is cut anywhere by its limits, but not before its first event.
Pages_short(after) ==
  LET rest == {s \in outbox : s > From(after)}
  IN  {From(after)} \cup {s \in rest : \E t \in rest : s < t}
Pages(after) ==
  LET rest == {s \in outbox : s > From(after)}
  IN  IF rest = {} THEN {From(after)} ELSE rest
Events(after, upto) == {s \in outbox : From(after) < s /\ s <= upto}

\* A watermark only grows.
Greater(m, n) == IF m > n THEN m ELSE n

\* What was delivered, for the bound of ack().
Delivered_last(upto) == upto
Delivered(upto) == Greater(delivered, upto)

Cursors == IF CursorsAhead THEN 0..MaxSeq ELSE 0..cursor

\* read(), with nextSeq = upto.
Read(after, upto, arrives) ==
  /\ up = "open" /\ call = Idle
  /\ delivered' = Delivered(upto)
  /\ IF arrives
     THEN /\ cursor' = Greater(cursor, upto)
          /\ stored' = stored \cup Events(after, upto)
     ELSE UNCHANGED coordinator
  /\ UNCHANGED <<up, call, stream, latest, outbox, rows, degraded, acked, history>>

\* The first event does not fit the page: refused, and the queue is degraded.
ReadTooLarge(after) ==
  /\ up = "open" /\ call = Idle
  /\ \E s \in outbox : s > From(after)
  /\ EnterDegraded
  /\ UNCHANGED <<up, call, stream, latest, outbox, rows, delivered, acked,
                 coordinator, history>>

\* ack(): cumulative, never lowered, never beyond what was delivered.
Watermark_last(through) == through
Watermark(through) == Greater(acked, through)
Ack(through) ==
  /\ up = "open" /\ call = Idle
  /\ through <= delivered
  /\ acked' = Watermark(through)
  /\ UNCHANGED <<up, call, stream, latest, outbox, rows, degraded, delivered,
                 coordinator, history>>

-----------------------------------------------------------------------------
\* #cleanup(): acknowledged and recorded before the retention window, whose start
\* is anywhere in the order of recording.  An attempt goes with its last event,
\* unless it is running.  ack() schedules it; one that is repeated schedules it
\* anew, so that it can run at any time.
Expired_unacked(seq, cutoff) == seq <= cutoff
Expired(seq, cutoff) == seq <= acked /\ seq <= cutoff
Spent_running(a, cutoff) == rows[a].state # "none" /\ Expired(rows[a].seq, cutoff)
Spent(a, cutoff) == rows[a].state \in Final /\ Expired(rows[a].seq, cutoff)

Cleanup(cutoff) ==
  /\ up = "open" /\ call = Idle
  /\ outbox' = {s \in outbox : ~Expired(s, cutoff)}
  /\ rows' = [a \in Attempts |-> IF Spent(a, cutoff) THEN [state |-> "none", seq |-> 0]
                                 ELSE rows[a]]
  /\ UNCHANGED <<up, call, stream, latest, degraded, delivered, acked, coordinator,
                 history>>

-----------------------------------------------------------------------------
AnyRead ==
  \E after \in Cursors : \E upto \in Pages(after), arrives \in BOOLEAN :
    Read(after, upto, arrives)

\* NodeUsageOwner: read() and ack() as the Gateway calls them.
Polled ==
  \/ AnyRead \/ \E after \in Cursors : ReadTooLarge(after)
  \/ \E through \in 0..cursor : Ack(through)

Next ==
  \/ Open \/ OpenDone \/ Down
  \/ TellGap \/ ClearMark \/ Record \/ WriteFails
  \/ \E a \in Attempts : Interrupt(a) \/ Revise(a) \/ Finish(a) \/ End(a)
  \/ Polled \/ \E cutoff \in 0..latest : Cleanup(cutoff)

Spec == Init /\ [][Next]_vars

\* A page from the cursor of the Coordinator that arrives.
ReadOn == \E upto \in Pages(cursor) : Read(cursor, upto, TRUE)

\* The store is opened again, and what is tried again and again succeeds:
\* opening, interrupting and polling.
FairSpec ==
  /\ Spec
  /\ WF_vars(Open) /\ SF_vars(OpenDone \/ \E a \in Attempts : Interrupt(a))
  /\ WF_vars(TellGap \/ ClearMark \/ Record \/ WriteFails)
  /\ SF_vars(ReadOn)

-----------------------------------------------------------------------------
(***************************************************************************)
(* "Never delete unacknowledged data": an event is in the outbox until the *)
(* Coordinator has stored it, whatever is lost, repeated or interrupted,   *)
(* and no number is consumed without its event.                            *)
(***************************************************************************)
NothingLost == \A s \in 1..latest : s \in outbox \/ s \in stored

(***************************************************************************)
(* What the queue promises: every durable write and every page that        *)
(* arrives is a step of UsageLog or none.  No number is consumed without   *)
(* its event, what the Coordinator stores has no holes, and only a prefix  *)
(* it has stored goes.                                                     *)
(***************************************************************************)
Log == INSTANCE UsageLog WITH issued <- latest, kept <- outbox, got <- stored
LogSpec == Log!Spec

(***************************************************************************)
(* No silent skip: the page that any earlier cursor would get now accounts *)
(* for every number up to nextSeq, and names as pruned only what was       *)
(* acknowledged.                                                           *)
(***************************************************************************)
NoSilentSkip ==
  \A after \in 0..cursor : \A upto \in Pages(after) :
    /\ Events(after, upto) \cup Pruned(after) = (after + 1)..upto
    /\ Pruned(after) \subseteq 1..acked

(***************************************************************************)
(* The gap comes before the next attempt: a refusal that was noted is told *)
(* before the collector issues anything else, also across a crash or a     *)
(* failed write in the middle of the recovery.                             *)
(***************************************************************************)
GapFirst == [][Record => ~untold]_vars

(***************************************************************************)
(* The final revision of an attempt stands: neither a late chunk, nor the  *)
(* end of the stream, nor the next start of the store says anything more   *)
(* of it.  Another finish chunk alone does, while its own generator goes   *)
(* on, and with another final state; the protocol of the runtime, which    *)
(* the collector does not enforce, excludes it.                            *)
(***************************************************************************)
Speaks(a) == latest' # latest /\ rows'[a].seq = latest'

FinalIsFinal ==
  [][\A a \in Attempts : said[a] \in Final /\ Speaks(a) =>
       ~FinishOnce /\ stream[a] = "finished" /\ said'[a] = "ended"]_vars

(***************************************************************************)
(* Once the store is open, no attempt that an earlier one has recorded is  *)
(* left running in what the Coordinator can read, whether its generator    *)
(* was cut off or the write of its final revision failed.                  *)
(***************************************************************************)
NoneLeftRunning ==
  up = "open" => \A a \in Attempts : stream[a] = "lost" => said[a] # "running"

(***************************************************************************)
(* Every event reaches a Coordinator that keeps reading.                   *)
(***************************************************************************)
CatchesUp == \A n \in 1..MaxSeq : latest >= n ~> cursor >= n
=============================================================================
