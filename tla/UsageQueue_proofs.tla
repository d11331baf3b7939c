--------------------------- MODULE UsageQueue_proofs ---------------------------
(***************************************************************************)
(* Theorems about UsageQueue, for any number of model calls and of events. *)
(*                                                                         *)
(* The state falls into three parts, each with an invariant of its own:    *)
(* the log (what is retained, delivered, acknowledged and stored), the     *)
(* attempts (generators, rows and the process) and the interval (a refusal *)
(* and the gap that tells it).  A step touches the log in one of five      *)
(* ways, which is how the first part is laid out.                          *)
(***************************************************************************)
EXTENDS UsageQueue, TLAPS

LogType ==
  /\ latest \in 0..MaxSeq /\ outbox \in SUBSET (1..latest)
  /\ delivered \in 0..MaxSeq /\ acked \in 0..delivered
  /\ cursor \in 0..MaxSeq /\ stored \in SUBSET (1..latest)

\* What is retained is the end of the log.
Suffix == \E k \in 1..(latest + 1) : outbox = k..latest

\* Each watermark stays behind the one it rests on.
Watermarks == acked <= cursor /\ cursor <= delivered /\ delivered <= latest

\* What is gone was acknowledged, and what is behind the cursor is stored.
Kept == \A s \in 1..latest : (s \in outbox \/ s <= acked) /\ (s <= cursor => s \in stored)

LogInv == LogType /\ Suffix /\ Watermarks /\ Kept

log == <<latest, outbox, delivered, acked, coordinator>>

-----------------------------------------------------------------------------
(***************************************************************************)
(* Earliest is where the retained end of the log begins, also when nothing *)
(* is retained.                                                            *)
(***************************************************************************)
LEMMA EarliestBegins ==
  ASSUME latest \in Nat, Suffix
  PROVE  Earliest \in 1..(latest + 1) /\ outbox = Earliest..latest
<1>1. PICK k \in 1..(latest + 1) : outbox = k..latest
  BY DEF Suffix
<1>2. CASE outbox = {}
  <2>1. k = latest + 1
    BY <1>1, <1>2
  <2>2. QED
    BY <1>1, <1>2, <2>1 DEF Earliest
<1>3. CASE outbox # {}
  <2>1. k \in outbox /\ \A t \in outbox : k <= t
    BY <1>1, <1>3
  <2>2. Earliest = CHOOSE s \in outbox : \A t \in outbox : s <= t
    BY <1>3 DEF Earliest
  <2>3. Earliest \in outbox /\ \A t \in outbox : Earliest <= t
    BY <2>1, <2>2
  <2>4. Earliest = k
    BY <1>1, <2>1, <2>3
  <2>5. QED
    BY <1>1, <2>4
<1>4. QED
  BY <1>2, <1>3

(***************************************************************************)
(* A page from a cursor the Coordinator has had: where it starts, where it *)
(* ends, and that it accounts for everything in between.                   *)
(***************************************************************************)
LEMMA PageAccounts ==
  ASSUME LogInv, MaxSeq \in Nat, NEW after \in 0..cursor, NEW upto \in Pages(after)
  PROVE  /\ upto \in after..latest
         /\ Events(after, upto) \cup Pruned(after) = (after + 1)..upto
         /\ Pruned(after) \subseteq 1..acked
<1> DEFINE e == Earliest
           f == From(after)
<1>1. /\ latest \in Nat /\ cursor \in Nat /\ acked \in Nat /\ after \in Nat
      /\ after <= latest
  BY DEF LogInv, LogType, Watermarks
<1>2. e \in 1..(latest + 1) /\ outbox = e..latest
  BY <1>1, EarliestBegins DEF LogInv
<1>3. f = IF after + 1 < e THEN e - 1 ELSE after
  BY DEF From
<1>4. f \in after..latest /\ e <= f + 1
  BY <1>1, <1>2, <1>3
<1>5. upto \in f..latest
  <2>1. upto = f \/ upto \in {s \in outbox : s > f}
    BY DEF Pages
  <2>2. QED
    BY <1>1, <1>2, <1>4, <2>1
<1> HIDE DEF e, f
<1>6. Events(after, upto) = (f + 1)..upto
  <2>1. Events(after, upto) = {s \in outbox : f < s /\ s <= upto}
    BY DEF Events, f
  <2>2. QED
    BY <1>1, <1>2, <1>4, <1>5, <2>1
<1>7. Pruned(after) = (after + 1)..f
  BY DEF Pruned, f
<1>8. Pruned(after) \subseteq 1..acked
  <2>1. SUFFICES ASSUME NEW s \in (after + 1)..f PROVE s \in 1..acked
    BY <1>7
  <2>2. s \in 1..latest /\ s \notin outbox
    BY <1>1, <1>2, <1>3, <1>4
  <2>3. QED
    BY <1>1, <2>2 DEF LogInv, Kept
<1>9. QED
  BY <1>1, <1>4, <1>5, <1>6, <1>7, <1>8

-----------------------------------------------------------------------------
(***************************************************************************)
(* Issuing extends the retained end of the log by one event.               *)
(***************************************************************************)
LEMMA IssueKeepsLog ==
  ASSUME LogInv, MaxSeq \in Nat, Issue, UNCHANGED <<delivered, acked, coordinator>>
  PROVE  LogInv'
<1>1. /\ latest \in Nat /\ latest' = latest + 1 /\ latest < MaxSeq
      /\ outbox' = outbox \cup {latest + 1}
      /\ UNCHANGED <<delivered, acked, cursor, stored>>
  BY DEF LogInv, LogType, Issue, coordinator
<1>2. LogType'
  BY <1>1 DEF LogInv, LogType
<1>3. Suffix'
  <2>1. PICK k \in 1..(latest + 1) : outbox = k..latest
    BY DEF LogInv, Suffix
  <2>2. k \in 1..(latest' + 1) /\ outbox' = k..latest'
    BY <1>1, <2>1
  <2>3. QED
    BY <2>2 DEF Suffix
<1>4. Watermarks'
  BY <1>1 DEF LogInv, LogType, Watermarks
<1>5. Kept'
  BY <1>1 DEF LogInv, LogType, Watermarks, Kept
<1>6. QED
  BY <1>2, <1>3, <1>4, <1>5 DEF LogInv

(***************************************************************************)
(* A step that leaves the log alone.                                       *)
(***************************************************************************)
LEMMA StutterKeepsLog == ASSUME LogInv, UNCHANGED log PROVE LogInv'
BY DEF log, coordinator, LogInv, LogType, Suffix, Watermarks, Kept

(***************************************************************************)
(* A page that arrives stores all that lies between the cursor and its     *)
(* end: what is not retained there was acknowledged, and so lies behind    *)
(* the cursor.                                                             *)
(***************************************************************************)
LEMMA ReadKeepsLog ==
  ASSUME LogInv, MaxSeq \in Nat, NEW after \in 0..cursor, NEW upto \in Pages(after),
         NEW arrives \in BOOLEAN, Read(after, upto, arrives)
  PROVE  LogInv'
<1>1. /\ latest \in Nat /\ delivered \in Nat /\ cursor \in Nat /\ acked \in Nat
      /\ UNCHANGED <<latest, outbox, acked>>
      /\ delivered' = IF delivered > upto THEN delivered ELSE upto
  BY DEF LogInv, LogType, Read, Delivered, Greater
<1>2. upto \in after..latest
  BY PageAccounts
<1>3. Suffix'
  BY <1>1 DEF LogInv, Suffix
<1>4. CASE arrives
  <2>1. /\ cursor' = IF cursor > upto THEN cursor ELSE upto
        /\ stored' = stored \cup Events(after, upto)
    BY <1>4 DEF Read, Greater
  <2>2. Events(after, upto) \subseteq outbox
    BY DEF Events
  <2>3. LogType'
    <3>1. upto \in 0..MaxSeq
      BY <1>1, <1>2 DEF LogInv, LogType
    <3>2. delivered' \in 0..MaxSeq /\ cursor' \in 0..MaxSeq /\ delivered <= delivered'
      BY <1>1, <2>1, <3>1 DEF LogInv, LogType
    <3>3. stored' \in SUBSET (1..latest)
      BY <2>1, <2>2 DEF LogInv, LogType
    <3>4. QED
      BY <1>1, <3>2, <3>3 DEF LogInv, LogType
  <2>4. Watermarks'
    BY <1>1, <1>2, <2>1 DEF LogInv, LogType, Watermarks
  <2>5. ASSUME NEW s \in 1..latest, s <= cursor' PROVE s \in stored'
    <3>1. CASE s <= cursor
      BY <2>1, <3>1 DEF LogInv, Kept
    <3>2. CASE cursor < s
      <4>1. s \in (after + 1)..upto /\ s > acked
        BY <1>1, <1>2, <2>1, <2>5, <3>2 DEF LogInv, Watermarks
      <4>2. s \in Events(after, upto)
        BY <1>1, <4>1, PageAccounts
      <4>3. QED
        BY <2>1, <4>2
    <3>3. QED
      BY <1>1, <3>1, <3>2
  <2>6. Kept'
    BY <1>1, <2>5 DEF LogInv, Kept
  <2>7. QED
    BY <1>3, <2>3, <2>4, <2>6 DEF LogInv
<1>5. CASE ~arrives
  <2>1. UNCHANGED <<cursor, stored>>
    BY <1>5 DEF Read, coordinator
  <2>2. LogType' /\ Watermarks' /\ Kept'
    BY <1>1, <1>2, <2>1 DEF LogInv, LogType, Watermarks, Kept
  <2>3. QED
    BY <1>3, <2>2 DEF LogInv
<1>6. QED
  BY <1>4, <1>5

(***************************************************************************)
(* An acknowledgement moves within what the Coordinator has stored.        *)
(***************************************************************************)
LEMMA AckKeepsLog ==
  ASSUME LogInv, NEW through \in 0..cursor, Ack(through)
  PROVE  LogInv'
<1>1. /\ UNCHANGED <<latest, outbox, delivered, cursor, stored>>
      /\ acked' = IF acked > through THEN acked ELSE through
      /\ through <= delivered
  BY DEF Ack, Watermark, Greater, coordinator
<1>2. LogType' /\ Watermarks' /\ Kept'
  BY <1>1 DEF LogInv, LogType, Watermarks, Kept
<1>3. Suffix'
  BY <1>1 DEF LogInv, Suffix
<1>4. QED
  BY <1>2, <1>3 DEF LogInv

(***************************************************************************)
(* Cleanup cuts the log at the lower of acknowledgement and retention      *)
(* window.                                                                 *)
(***************************************************************************)
LEMMA CleanupKeepsLog ==
  ASSUME LogInv, NEW cutoff \in 0..latest, Cleanup(cutoff)
  PROVE  LogInv'
<1>1. /\ UNCHANGED <<latest, delivered, acked, cursor, stored>>
      /\ outbox' = {s \in outbox : ~(s <= acked /\ s <= cutoff)}
  BY DEF Cleanup, Expired, coordinator
<1>2. LogType' /\ Watermarks' /\ Kept'
  BY <1>1 DEF LogInv, LogType, Watermarks, Kept
<1>3. Suffix'
  <2> DEFINE low == IF acked < cutoff THEN acked ELSE cutoff
  <2>1. latest \in Nat /\ low \in 0..latest
    BY DEF LogInv, LogType, Watermarks
  <2>2. outbox' = {s \in outbox : s > low}
    <3>1. \A s \in outbox : ~(s <= acked /\ s <= cutoff) <=> s > low
      BY <2>1 DEF LogInv, LogType
    <3>2. QED
      BY <1>1, <3>1, Zenon
  <2> HIDE DEF low
  <2>3. PICK k \in 1..(latest + 1) : outbox = k..latest
    BY DEF LogInv, Suffix
  <2>4. CASE k > low
    <3>1. outbox' = outbox
      BY <2>1, <2>2, <2>3, <2>4
    <3>2. QED
      BY <1>1, <2>3, <3>1 DEF Suffix
  <2>5. CASE k <= low
    <3>1. low + 1 \in 1..(latest' + 1) /\ outbox' = (low + 1)..latest'
      BY <1>1, <2>1, <2>2, <2>3, <2>5
    <3>2. QED
      BY <3>1 DEF Suffix
  <2>6. QED
    BY <2>1, <2>4, <2>5
<1>4. QED
  BY <1>2, <1>3 DEF LogInv

(***************************************************************************)
(* Every step touches the log in one of these five ways.                   *)
(***************************************************************************)
Issues == Issue /\ UNCHANGED <<delivered, acked, coordinator>>
Reads ==
  \E after \in 0..cursor : \E upto \in Pages(after), arrives \in BOOLEAN :
    Read(after, upto, arrives)
Acks == \E through \in 0..cursor : Ack(through)
Cleans == \E cutoff \in 0..latest : Cleanup(cutoff)

LEMMA FiveWays ==
  ASSUME ~CursorsAhead, [Next]_vars
  PROVE  Issues \/ Reads \/ Acks \/ Cleans \/ UNCHANGED log
<1>1. CASE Open \/ OpenDone \/ Down \/ ClearMark \/ WriteFails
  BY <1>1 DEF Open, OpenDone, Down, ClearMark, WriteFails, disk, log
<1>2. CASE TellGap \/ Record
  BY <1>2 DEF TellGap, Record, IssueAttempt, Issues
<1>3. CASE \E a \in Attempts : Interrupt(a)
  BY <1>3 DEF Interrupt, IssueAttempt, Issues
<1>4. CASE \E a \in Attempts : Revise(a) \/ Finish(a) \/ End(a)
  BY <1>4 DEF Revise, Finish, End, Observe, log
<1>5. CASE AnyRead
  BY <1>5 DEF AnyRead, Cursors, Reads
<1>6. CASE \E after \in Cursors : ReadTooLarge(after)
  BY <1>6 DEF ReadTooLarge, log
<1>7. CASE (\E through \in 0..cursor : Ack(through)) \/ \E cutoff \in 0..latest : Cleanup(cutoff)
  BY <1>7 DEF Acks, Cleans
<1>8. CASE UNCHANGED vars
  BY <1>8 DEF vars, disk, log
<1>9. QED
  BY <1>1, <1>2, <1>3, <1>4, <1>5, <1>6, <1>7, <1>8 DEF Next, Polled

LEMMA NextKeepsLog ==
  ASSUME LogInv, ~CursorsAhead, [Next]_vars
  PROVE  LogInv'
<1> USE QueueAssumption
<1>1. CASE Issues
  BY <1>1, IssueKeepsLog DEF Issues
<1>2. CASE Reads
  BY <1>2, ReadKeepsLog DEF Reads
<1>3. CASE Acks
  BY <1>3, AckKeepsLog DEF Acks
<1>4. CASE Cleans
  BY <1>4, CleanupKeepsLog DEF Cleans
<1>5. CASE UNCHANGED log
  BY <1>5, StutterKeepsLog
<1>6. QED
  BY <1>1, <1>2, <1>3, <1>4, <1>5, FiveWays

(***************************************************************************)
(* The log keeps its invariant when no read is ahead of it.                *)
(***************************************************************************)
THEOREM LogSound == ASSUME ~CursorsAhead PROVE Spec => []LogInv
<1>1. Init => LogInv
  <2>1. SUFFICES ASSUME Init PROVE LogInv
    OBVIOUS
  <2>2. 1 \in 1..(latest + 1) /\ outbox = 1..latest
    BY <2>1 DEF Init
  <2>3. Suffix
    BY <2>2 DEF Suffix
  <2>4. QED
    BY <2>1, <2>3, QueueAssumption DEF Init, LogInv, LogType, Watermarks, Kept
<1>2. LogInv /\ [Next]_vars => LogInv'
  BY NextKeepsLog
<1>3. QED
  BY <1>1, <1>2, PTL DEF Spec

(***************************************************************************)
(* "Never delete unacknowledged data": every event issued is retained or   *)
(* stored by the Coordinator, for a Coordinator that does not ask ahead of *)
(* the queue.  (Without the assumption it is false: run usage_ack.)        *)
(***************************************************************************)
THEOREM Durable == ASSUME ~CursorsAhead PROVE Spec => []NothingLost
<1>1. LogInv => NothingLost
  BY DEF LogInv, LogType, Watermarks, Kept, NothingLost
<1>2. QED
  BY <1>1, LogSound, PTL

(***************************************************************************)
(* The page for any cursor the Coordinator has had accounts for every      *)
(* number up to its nextSeq, and calls pruned only what was acknowledged.  *)
(***************************************************************************)
THEOREM Accountable == ASSUME ~CursorsAhead PROVE Spec => []NoSilentSkip
<1>1. LogInv => NoSilentSkip
  BY PageAccounts, QueueAssumption DEF NoSilentSkip
<1>2. QED
  BY <1>1, LogSound, PTL

-----------------------------------------------------------------------------
(***************************************************************************)
(* The refinement.  A page that arrives hands over everything up to its    *)
(* end: what lies behind its cursor and what it calls pruned were stored   *)
(* before.                                                                 *)
(***************************************************************************)
LEMMA ReadDelivers ==
  ASSUME LogInv, NEW after \in 0..cursor, NEW upto \in Pages(after),
         NEW arrives \in BOOLEAN, Read(after, upto, arrives)
  PROVE  (\E n \in 1..latest : Log!Deliver(n)) \/ UNCHANGED <<latest, outbox, stored>>
<1> USE QueueAssumption
<1>1. /\ latest \in Nat /\ cursor \in Nat /\ acked \in Nat /\ after \in Nat
      /\ after <= cursor /\ acked <= cursor /\ cursor <= latest
      /\ UNCHANGED <<latest, outbox>>
  BY DEF LogInv, LogType, Watermarks, Read
<1>2. CASE ~arrives
  BY <1>1, <1>2 DEF Read, coordinator
<1>3. CASE arrives
  <2>1. stored' = stored \cup Events(after, upto)
    BY <1>3 DEF Read
  <2>2. /\ upto \in after..latest
        /\ Events(after, upto) \cup Pruned(after) = (after + 1)..upto
        /\ Pruned(after) \subseteq 1..acked
    BY PageAccounts
  <2>3. 1..cursor \subseteq stored
    BY <1>1 DEF LogInv, Kept
  <2>4. 1..after \subseteq stored /\ Pruned(after) \subseteq stored
    BY <1>1, <2>2, <2>3
  <2>5. 1..upto = (1..after) \cup (after + 1)..upto
    BY <1>1, <2>2
  <2>6. stored' = stored \cup 1..upto
    BY <2>1, <2>2, <2>4, <2>5, Zenon
  <2>7. CASE upto = 0
    BY <1>1, <2>6, <2>7
  <2>8. CASE upto # 0
    <3>1. upto \in 1..latest
      BY <1>1, <2>2, <2>8
    <3>2. Log!Deliver(upto)
      BY <1>1, <2>6 DEF Log!Deliver
    <3>3. QED
      BY <3>1, <3>2
  <2>9. QED
    BY <2>7, <2>8
<1>4. QED
  BY <1>2, <1>3

(***************************************************************************)
(* Cleanup prunes up to the lower of acknowledgement and retention window, *)
(* and what was acknowledged is stored.                                    *)
(***************************************************************************)
LEMMA CleanupPrunes ==
  ASSUME LogInv, NEW cutoff \in 0..latest, Cleanup(cutoff)
  PROVE  (\E n \in 1..latest : Log!Prune(n)) \/ UNCHANGED <<latest, outbox, stored>>
<1> DEFINE low == IF acked < cutoff THEN acked ELSE cutoff
<1>1. /\ latest \in Nat /\ cursor \in Nat /\ acked \in Nat /\ cutoff \in Nat
      /\ acked <= cursor /\ outbox \in SUBSET (1..latest)
      /\ UNCHANGED <<latest, stored>>
      /\ outbox' = {s \in outbox : ~(s <= acked /\ s <= cutoff)}
  BY QueueAssumption DEF LogInv, LogType, Watermarks, Cleanup, Expired, coordinator
<1>2. low \in 0..latest /\ low <= acked
  BY <1>1
<1>3. outbox' = outbox \ 1..low
  <2>1. \A s \in outbox : (s <= acked /\ s <= cutoff) <=> s \in 1..low
    BY <1>1
  <2>2. QED
    BY <1>1, <2>1, Zenon
<1>4. 1..low \subseteq stored
  BY <1>1, <1>2 DEF LogInv, Kept
<1> HIDE DEF low
<1>5. CASE low = 0
  BY <1>1, <1>3, <1>5
<1>6. CASE low # 0
  <2>1. low \in 1..latest
    BY <1>1, <1>2, <1>6
  <2>2. Log!Prune(low)
    BY <1>1, <1>3, <1>4 DEF Log!Prune
  <2>3. QED
    BY <2>1, <2>2
<1>7. QED
  BY <1>5, <1>6

(***************************************************************************)
(* Every step of the queue is a step of UsageLog, or none.                 *)
(***************************************************************************)
LEMMA NextIsLogStep ==
  ASSUME LogInv, ~CursorsAhead, [Next]_vars
  PROVE  [Log!Next]_<<latest, outbox, stored>>
<1>1. CASE Issues
  BY <1>1 DEF Issues, Issue, coordinator, Log!Next, Log!Issue
<1>2. CASE Reads
  BY <1>2, ReadDelivers DEF Reads, Log!Next
<1>3. CASE Cleans
  BY <1>3, CleanupPrunes DEF Cleans, Log!Next
<1>4. CASE Acks
  BY <1>4 DEF Acks, Ack, coordinator
<1>5. CASE UNCHANGED log
  BY <1>5 DEF log, coordinator
<1>6. QED
  BY <1>1, <1>2, <1>3, <1>4, <1>5, FiveWays

(***************************************************************************)
(* The queue implements UsageLog for a Coordinator that does not ask ahead *)
(* of it: numbers without a hole, pages in their order, and no event gone  *)
(* before it was stored, whatever write fails and whenever the process     *)
(* dies.                                                                   *)
(***************************************************************************)
THEOREM Refinement == ASSUME ~CursorsAhead PROVE Spec => LogSpec
<1>1. Init => Log!Init
  BY DEF Init, Log!Init
<1>2. LogInv /\ [Next]_vars => [Log!Next]_<<latest, outbox, stored>>
  BY NextIsLogStep
<1>3. QED
  BY <1>1, <1>2, LogSound, PTL DEF Spec, LogSpec, Log!Spec

-----------------------------------------------------------------------------
(***************************************************************************)
(* The interval.  While a refusal is untold the mark is set, and the call  *)
(* under way, if any, has its gap still before it.                         *)
(***************************************************************************)
CallType == call \in {Idle} \cup Calls
Owed == untold => degraded /\ call.at \in {"idle", "gap"}
GapInv == degraded \in BOOLEAN /\ untold \in BOOLEAN /\ CallType /\ Owed

interval == <<degraded, untold, call>>

(***************************************************************************)
(* A call is idle or at one of its three writes.                           *)
(***************************************************************************)
LEMMA CallShape ==
  ASSUME CallType
  PROVE  /\ call = Idle => call.at = "idle"
         /\ call # Idle => call \in Calls /\ call.at \in {"gap", "clear", "event"}
BY DEF CallType, Calls, Idle

(***************************************************************************)
(* A revision is refused, which sets the mark, or starts with the gap it   *)
(* owes.                                                                   *)
(***************************************************************************)
LEMMA ObserveKeepsGap ==
  ASSUME GapInv, NEW a \in Attempts, NEW from, NEW to, NEW state \in {"running", "ended"},
         Observe(a, from, to, state)
  PROVE  GapInv'
<1>1. call = Idle /\ (Refuse \/ (Submit(a, state) /\ UNCHANGED <<degraded, untold>>))
  BY DEF Observe
<1>2. CASE Refuse
  <2>1. call' = Idle /\ degraded' \in BOOLEAN /\ (degraded => degraded')
    BY <1>2 DEF Refuse, EnterDegraded, GapInv
  <2>2. untold' \in BOOLEAN /\ (untold' => untold \/ degraded')
    BY <1>2, <2>1 DEF Refuse, GapInv
  <2>3. QED
    BY <2>1, <2>2 DEF GapInv, CallType, Owed, Idle
<1>3. CASE Submit(a, state) /\ UNCHANGED <<degraded, untold>>
  <2>1. call' \in Calls
    BY <1>3 DEF Submit, Calls
  <2>2. degraded => call'.at = "gap"
    BY <1>3 DEF Submit
  <2>3. QED
    BY <1>3, <2>1, <2>2 DEF GapInv, CallType, Owed
<1>4. QED
  BY <1>1, <1>2, <1>3

(***************************************************************************)
(* No step clears the mark or passes the gap while a refusal is untold.    *)
(***************************************************************************)
LEMMA NextKeepsGap ==
  ASSUME GapInv, [Next]_vars
  PROVE  GapInv'
<1>1. CASE UNCHANGED interval
  BY <1>1 DEF interval, GapInv, CallType, Owed
<1>2. CASE Open \/ OpenDone \/ AnyRead
  BY <1>1, <1>2 DEF Open, OpenDone, AnyRead, Read, disk, history, interval
<1>3. CASE Down \/ WriteFails
  <2>1. call' = Idle /\ UNCHANGED <<degraded, untold>>
    BY <1>3 DEF Down, WriteFails, disk, history
  <2>2. QED
    BY <2>1 DEF GapInv, CallType, Owed, Idle
<1>4. CASE TellGap
  <2>1. call' \in Calls /\ ~untold' /\ untold' \in BOOLEAN /\ degraded' = degraded
    BY <1>4, CallShape DEF TellGap, GapInv, Calls
  <2>2. QED
    BY <2>1 DEF GapInv, CallType, Owed
<1>5. CASE ClearMark
  <2>1. call' \in Calls /\ degraded' = FALSE /\ untold' = untold /\ ~untold
    BY <1>5, CallShape DEF ClearMark, GapInv, Calls, Owed, history
  <2>2. QED
    BY <2>1 DEF GapInv, CallType, Owed
<1>6. CASE Record
  <2>1. call' = Idle /\ UNCHANGED <<degraded, untold>>
    BY <1>6 DEF Record
  <2>2. QED
    BY <2>1 DEF GapInv, CallType, Owed, Idle
<1>7. CASE \E a \in Attempts : Interrupt(a)
  BY <1>1, <1>7 DEF Interrupt, interval
<1>8. CASE \E a \in Attempts : Revise(a) \/ Finish(a) \/ End(a)
  BY <1>8, ObserveKeepsGap DEF Revise, Finish, End
<1>9. CASE \E cutoff \in 0..latest : Cleanup(cutoff)
  BY <1>1, <1>9 DEF Cleanup, history, interval
<1>10. CASE \E after \in Cursors : ReadTooLarge(after)
  <2>1. call = Idle /\ UNCHANGED <<call, untold>> /\ degraded' \in BOOLEAN
        /\ (degraded => degraded')
    <3>1. call = Idle /\ UNCHANGED <<call, untold>> /\ EnterDegraded
      BY <1>10 DEF ReadTooLarge, history
    <3>2. QED
      BY <3>1 DEF EnterDegraded, GapInv
  <2>2. QED
    BY <2>1 DEF GapInv, CallType, Owed
<1>11. CASE \E through \in 0..cursor : Ack(through)
  BY <1>1, <1>11 DEF Ack, history, interval
<1>12. CASE UNCHANGED vars
  BY <1>1, <1>12 DEF vars, disk, history, interval
<1>13. QED
  BY <1>2, <1>3, <1>4, <1>5, <1>6, <1>7, <1>8, <1>9, <1>10, <1>11, <1>12 DEF Next, Polled

(***************************************************************************)
(* The mark outlives every refusal that has not been told as a gap.        *)
(***************************************************************************)
THEOREM GapSound == Spec => []GapInv
<1>1. Init => GapInv
  BY DEF Init, GapInv, CallType, Owed
<1>2. GapInv /\ [Next]_vars => GapInv'
  BY NextKeepsGap
<1>3. QED
  BY <1>1, <1>2, PTL DEF Spec

(***************************************************************************)
(* A refusal that was noted is told before the next revision is issued,    *)
(* whatever crashes or fails in the middle of the recovery.                *)
(***************************************************************************)
THEOREM ToldFirst == Spec => GapFirst
<1>1. GapInv /\ [Next]_vars => [Record => ~untold]_vars
  BY CallShape DEF GapInv, Owed, Record
<1>2. QED
  BY <1>1, GapSound, PTL DEF Spec, GapFirst

-----------------------------------------------------------------------------
(***************************************************************************)
(* The attempts.  A row holds the last state said or is gone, and is not   *)
(* gone while that is "running"; only an open store has generators and a   *)
(* call; and what a generator has still to say comes before its last word, *)
(* or is another finish chunk.                                             *)
(***************************************************************************)
AttemptsType ==
  /\ up \in {"closed", "opening", "open"}
  /\ CallType
  /\ stream \in [Attempts -> {"new", "running", "finished", "ended", "lost"}]
  /\ rows \in [Attempts -> [state : {"none", "running"} \cup Final, seq : 0..MaxSeq]]
  /\ said \in [Attempts -> {"none", "running"} \cup Final]

RowsMatch ==
  \A a \in Attempts : /\ rows[a].state \in {"none", said[a]}
                      /\ said[a] = "running" => rows[a].state = "running"

OnlyWhenOpen ==
  up # "open" => call = Idle /\ \A a \in Attempts : stream[a] \in {"new", "lost"}

\* Only another finish chunk comes after a last word.
Again(a) == ~FinishOnce /\ stream[a] = "finished"

BeforeTheEnd ==
  /\ \A a \in Attempts : /\ stream[a] = "new" => said[a] = "none"
                         /\ stream[a] = "running" => said[a] \notin Final
  /\ call # Idle =>
       /\ said[call.attempt] \in Final => Again(call.attempt)
       /\ IF call.state = "running" THEN stream[call.attempt] = "running"
          ELSE stream[call.attempt] \in {"finished", "ended"}

AttemptsInv ==
  AttemptsType /\ RowsMatch /\ OnlyWhenOpen /\ BeforeTheEnd /\ NoneLeftRunning

attempts == <<up, call, stream, rows, said>>

\* A row holds the number of an event that was issued.
Rows == [Attempts -> [state : {"none", "running"} \cup Final, seq : 0..latest]]
LatestType == latest \in Nat /\ rows \in Rows

(***************************************************************************)
(* The log has a length, and no row is ahead of it.                        *)
(***************************************************************************)
LEMMA LatestIsNat == Spec => []LatestType
<1>1. Init => LatestType
  BY DEF Init, LatestType, Rows
<1>2. LatestType /\ GapInv /\ [Next]_vars => LatestType'
  <2> SUFFICES ASSUME LatestType, GapInv, Next \/ UNCHANGED vars PROVE LatestType'
    OBVIOUS
  <2>1. ASSUME latest' = latest, rows' = rows PROVE LatestType'
    BY <2>1 DEF LatestType, Rows
  <2>2. CASE \/ Open \/ OpenDone \/ Down \/ ClearMark \/ WriteFails \/ UNCHANGED vars \/ AnyRead
             \/ (\E after \in Cursors : ReadTooLarge(after))
             \/ (\E through \in 0..cursor : Ack(through))
             \/ (\E a \in Attempts : Revise(a) \/ Finish(a) \/ End(a))
    BY <2>1, <2>2
    DEF Open, OpenDone, Down, ClearMark, WriteFails, vars, disk, AnyRead, Read, ReadTooLarge,
        Ack, Revise, Finish, End, Observe
  <2>3. ASSUME NEW a \in Attempts, NEW state \in {"running"} \cup Final, IssueAttempt(a, state)
        PROVE  LatestType'
    <3>1. latest' = latest + 1 /\ latest' \in Nat
          /\ rows' = [rows EXCEPT ![a] = [state |-> state, seq |-> latest + 1]]
      BY <2>3 DEF IssueAttempt, Issue, LatestType
    <3>2. rows \in [Attempts -> [state : {"none", "running"} \cup Final, seq : 0..latest']]
      BY <3>1 DEF LatestType, Rows
    <3>3. QED
      BY <3>1, <3>2 DEF LatestType, Rows
  <2>4. CASE \E a \in Attempts : Interrupt(a)
    BY <2>3, <2>4 DEF Interrupt, Final
  <2>5. CASE Record
    <3>1. call \in Calls
      BY <2>5, CallShape DEF Record, GapInv
    <3>2. QED
      BY <2>3, <2>5, <3>1 DEF Record, Calls, Final
  <2>6. CASE TellGap
    BY <2>6 DEF TellGap, Issue, LatestType, Rows
  <2>7. CASE \E cutoff \in 0..latest : Cleanup(cutoff)
    BY <2>7 DEF Cleanup, LatestType, Rows
  <2>8. QED
    BY <2>2, <2>4, <2>5, <2>6, <2>7 DEF Next, Polled
<1>3. QED
  BY <1>1, <1>2, GapSound, PTL DEF Spec

\* No event for an attempt that has had its last word, but of a finish chunk.
LastWordStays ==
  \A a \in Attempts : said[a] \in Final /\ Speaks(a) => Again(a) /\ said'[a] = "ended"

(***************************************************************************)
(* A step without an event, or with one that touches no row, says nothing  *)
(* of any attempt.                                                         *)
(***************************************************************************)
LEMMA Silent ==
  ASSUME LatestType, latest' = latest \/ (latest' = latest + 1 /\ rows' = rows)
  PROVE  LastWordStays
BY DEF LatestType, Rows, LastWordStays, Speaks

LEMMA OthersSilent ==
  ASSUME LatestType, latest' = latest + 1, NEW b \in Attempts, rows'[b] = rows[b]
  PROVE  ~Speaks(b)
BY DEF LatestType, Rows, Speaks

(***************************************************************************)
(* A revision leaves its state in the row and in what was said, and no     *)
(* other attempt is touched.                                               *)
(***************************************************************************)
LEMMA IssueAttemptKeeps ==
  ASSUME AttemptsInv, latest \in Nat, MaxSeq \in Nat, NEW a \in Attempts,
         NEW state \in {"running"} \cup Final, IssueAttempt(a, state)
  PROVE  /\ rows' \in [Attempts -> [state : {"none", "running"} \cup Final, seq : 0..MaxSeq]]
         /\ said' \in [Attempts -> {"none", "running"} \cup Final]
         /\ RowsMatch'
         /\ said'[a] = state /\ rows'[a].state = state
         /\ \A b \in Attempts \ {a} : said'[b] = said[b] /\ rows'[b] = rows[b]
<1>1. latest + 1 \in 0..MaxSeq
  BY DEF IssueAttempt, Issue
<1>2. /\ rows' = [rows EXCEPT ![a] = [state |-> state, seq |-> latest + 1]]
      /\ said' = [said EXCEPT ![a] = state]
  BY DEF IssueAttempt
<1>3. /\ rows \in [Attempts -> [state : {"none", "running"} \cup Final, seq : 0..MaxSeq]]
      /\ said \in [Attempts -> {"none", "running"} \cup Final]
  BY DEF AttemptsInv, AttemptsType
<1>4. /\ said'[a] = state /\ rows'[a].state = state
      /\ \A b \in Attempts \ {a} : said'[b] = said[b] /\ rows'[b] = rows[b]
  BY <1>2, <1>3
<1>5. [state |-> state, seq |-> latest + 1]
        \in [state : {"none", "running"} \cup Final, seq : 0..MaxSeq]
  BY <1>1
<1>6. /\ rows' \in [Attempts -> [state : {"none", "running"} \cup Final, seq : 0..MaxSeq]]
      /\ said' \in [Attempts -> {"none", "running"} \cup Final]
  BY <1>2, <1>3, <1>5
<1>7. RowsMatch'
  BY <1>4 DEF AttemptsInv, RowsMatch
<1>8. QED
  BY <1>4, <1>6, <1>7

(***************************************************************************)
(* The next revision of a generator that has not ended.                    *)
(***************************************************************************)
LEMMA ObserveKeepsAttempts ==
  ASSUME AttemptsInv, NEW a \in Attempts,
         Revise(a) \/ Finish(a) \/ End(a)
  PROVE  AttemptsInv' /\ said' = said
<1> PICK from \in SUBSET {"new", "running", "finished"},
         to \in {"running", "finished", "ended"}, state \in {"running", "ended"} :
           /\ Observe(a, from, to, state)
           /\ state = "running" <=> to = "running"
           /\ "finished" \in from => to = "finished" /\ ~FinishOnce
  <2>1. CASE Revise(a)
    BY <2>1 DEF Revise, Unfinished
  <2>2. CASE Finish(a)
    BY <2>2 DEF Finish
  <2>3. CASE End(a)
    BY <2>3 DEF End
  <2>4. QED
    BY <2>1, <2>2, <2>3
<1>1. /\ up = "open" /\ call = Idle /\ stream[a] \in from
      /\ stream' = [stream EXCEPT ![a] = to]
      /\ UNCHANGED <<up, rows, said>>
  BY DEF Observe
<1>2. call' = Idle \/ (/\ call' \in Calls /\ call' # Idle
                       /\ call'.attempt = a /\ call'.state = state)
  BY DEF Observe, Refuse, Submit, Calls, Idle
<1>3. AttemptsType'
  BY <1>1, <1>2 DEF AttemptsInv, AttemptsType, CallType
<1>4. RowsMatch' /\ OnlyWhenOpen'
  BY <1>1 DEF AttemptsInv, RowsMatch, OnlyWhenOpen
<1>5. said[a] \in Final => "finished" \in from
  BY <1>1 DEF AttemptsInv, BeforeTheEnd, Final
<1>6. stream'[a] = to /\ \A b \in Attempts \ {a} : stream'[b] = stream[b]
  BY <1>1 DEF AttemptsInv, AttemptsType
<1>7. BeforeTheEnd'
  BY <1>1, <1>2, <1>5, <1>6 DEF AttemptsInv, BeforeTheEnd, Again
<1>8. NoneLeftRunning'
  BY <1>1, <1>6 DEF AttemptsInv, NoneLeftRunning
<1>9. QED
  BY <1>1, <1>3, <1>4, <1>7, <1>8 DEF AttemptsInv

(***************************************************************************)
(* The event of a call: the attempt had not had its last word, or sees     *)
(* another finish chunk; an event belongs to one attempt.                  *)
(***************************************************************************)
LEMMA RecordKeepsAttempts ==
  ASSUME AttemptsInv, LatestType, MaxSeq \in Nat, Record
  PROVE  AttemptsInv' /\ LastWordStays
<1> DEFINE a == call.attempt
<1>1. /\ call \in Calls /\ call # Idle /\ a \in Attempts /\ call.state \in {"running", "ended"}
      /\ said[a] \in Final => Again(a)
      /\ IF call.state = "running" THEN stream[a] = "running"
         ELSE stream[a] \in {"finished", "ended"}
  BY DEF AttemptsInv, AttemptsType, CallType, Calls, BeforeTheEnd, Record
<1>2. IssueAttempt(a, call.state) /\ call' = Idle /\ UNCHANGED <<up, stream>> /\ up = "open"
  BY <1>1 DEF Record, AttemptsInv, AttemptsType, OnlyWhenOpen
<1> HIDE DEF a
<1>3. /\ rows' \in [Attempts -> [state : {"none", "running"} \cup Final, seq : 0..MaxSeq]]
      /\ said' \in [Attempts -> {"none", "running"} \cup Final]
      /\ RowsMatch'
      /\ said'[a] = call.state
      /\ \A b \in Attempts \ {a} : said'[b] = said[b] /\ rows'[b] = rows[b]
  BY <1>1, <1>2, IssueAttemptKeeps DEF Final, LatestType
<1>4. AttemptsType'
  BY <1>2, <1>3 DEF AttemptsInv, AttemptsType, CallType
<1>5. OnlyWhenOpen' /\ NoneLeftRunning'
  BY <1>1, <1>2, <1>3 DEF AttemptsInv, OnlyWhenOpen, NoneLeftRunning
<1>6. BeforeTheEnd'
  BY <1>1, <1>2, <1>3 DEF AttemptsInv, BeforeTheEnd, Final
<1>7. LastWordStays
  <2>1. \A b \in Attempts \ {a} : ~Speaks(b)
    BY <1>2, <1>3, OthersSilent DEF IssueAttempt, Issue
  <2>2. said[a] \in Final => said'[a] = "ended"
    BY <1>1, <1>3 DEF Again
  <2>3. QED
    BY <1>1, <2>1, <2>2 DEF LastWordStays
<1>8. QED
  BY <1>3, <1>4, <1>5, <1>6, <1>7 DEF AttemptsInv

(***************************************************************************)
(* interruptRunning() speaks for attempts nobody speaks for any more.      *)
(***************************************************************************)
LEMMA InterruptKeepsAttempts ==
  ASSUME AttemptsInv, LatestType, MaxSeq \in Nat, NEW a \in Attempts, Interrupt(a)
  PROVE  AttemptsInv' /\ LastWordStays
<1>1. /\ up = "opening" /\ rows[a].state = "running" /\ IssueAttempt(a, "interrupted")
      /\ UNCHANGED <<up, call, stream>>
  BY DEF Interrupt, LeftRunning, Running
<1>2. said[a] = "running"
  BY <1>1 DEF AttemptsInv, RowsMatch
<1>3. call = Idle /\ \A b \in Attempts : stream[b] \in {"new", "lost"}
  BY <1>1 DEF AttemptsInv, OnlyWhenOpen
<1>4. /\ rows' \in [Attempts -> [state : {"none", "running"} \cup Final, seq : 0..MaxSeq]]
      /\ said' \in [Attempts -> {"none", "running"} \cup Final]
      /\ RowsMatch'
      /\ said'[a] = "interrupted"
      /\ \A b \in Attempts \ {a} : said'[b] = said[b] /\ rows'[b] = rows[b]
  BY <1>1, IssueAttemptKeeps DEF Final, LatestType
<1>5. AttemptsType'
  BY <1>1, <1>4 DEF AttemptsInv, AttemptsType, CallType
<1>6. OnlyWhenOpen' /\ NoneLeftRunning'
  BY <1>1, <1>3 DEF OnlyWhenOpen, NoneLeftRunning
<1>7. BeforeTheEnd'
  BY <1>1, <1>2, <1>3, <1>4 DEF AttemptsInv, BeforeTheEnd
<1>8. LastWordStays
  <2>1. \A b \in Attempts \ {a} : ~Speaks(b)
    BY <1>1, <1>4, OthersSilent DEF IssueAttempt, Issue
  <2>2. QED
    BY <1>2, <2>1 DEF LastWordStays, Final
<1>9. QED
  BY <1>4, <1>5, <1>6, <1>7, <1>8 DEF AttemptsInv

(***************************************************************************)
(* Cleanup drops the rows of ended attempts only.                          *)
(***************************************************************************)
LEMMA CleanupKeepsAttempts ==
  ASSUME AttemptsInv, MaxSeq \in Nat, NEW cutoff \in 0..latest, Cleanup(cutoff)
  PROVE  AttemptsInv' /\ said' = said
<1>1. /\ UNCHANGED <<up, call, stream, said>>
      /\ rows' = [a \in Attempts |-> IF Spent(a, cutoff) THEN [state |-> "none", seq |-> 0]
                                     ELSE rows[a]]
  BY DEF Cleanup, history
<1>2. \A a \in Attempts : Spent(a, cutoff) => rows[a].state \in Final
  BY DEF Spent
<1>3. AttemptsType'
  BY <1>1 DEF AttemptsInv, AttemptsType, CallType
<1>4. RowsMatch'
  BY <1>1, <1>2 DEF AttemptsInv, RowsMatch, Final
<1>5. OnlyWhenOpen' /\ BeforeTheEnd' /\ NoneLeftRunning'
  BY <1>1 DEF AttemptsInv, OnlyWhenOpen, BeforeTheEnd, Again, NoneLeftRunning
<1>6. QED
  BY <1>1, <1>3, <1>4, <1>5 DEF AttemptsInv

(***************************************************************************)
(* A crash loses generators and the call, and keeps the rows.              *)
(***************************************************************************)
LEMMA DownKeepsAttempts ==
  ASSUME AttemptsInv, Down
  PROVE  AttemptsInv' /\ said' = said
<1>1. /\ up' = "closed" /\ call' = Idle /\ UNCHANGED <<rows, said>>
      /\ stream' = [a \in Attempts |-> IF stream[a] = "new" THEN "new" ELSE "lost"]
  BY DEF Down, disk, history
<1>2. AttemptsType'
  BY <1>1 DEF AttemptsInv, AttemptsType, CallType
<1>3. RowsMatch' /\ OnlyWhenOpen' /\ BeforeTheEnd' /\ NoneLeftRunning'
  BY <1>1 DEF AttemptsInv, RowsMatch, OnlyWhenOpen, BeforeTheEnd, NoneLeftRunning
<1>4. QED
  BY <1>1, <1>2, <1>3 DEF AttemptsInv

(***************************************************************************)
(* The steps of a call that issue no revision.                             *)
(***************************************************************************)
LEMMA CallKeepsAttempts ==
  ASSUME AttemptsInv, TellGap \/ ClearMark \/ WriteFails
  PROVE  AttemptsInv' /\ said' = said
<1>1. call \in Calls /\ call # Idle
  BY DEF AttemptsInv, AttemptsType, CallType, TellGap, ClearMark, WriteFails
<1>2. UNCHANGED <<up, stream, rows, said>>
  BY DEF TellGap, ClearMark, WriteFails, disk, history
<1>3. \/ call' = Idle
      \/ /\ call' \in Calls /\ call' # Idle
         /\ call'.attempt = call.attempt /\ call'.state = call.state
  BY <1>1 DEF TellGap, ClearMark, WriteFails, Calls, Idle
<1>4. AttemptsType'
  BY <1>2, <1>3 DEF AttemptsInv, AttemptsType, CallType
<1>5. up = "open"
  BY <1>1 DEF AttemptsInv, OnlyWhenOpen
<1>6. RowsMatch' /\ OnlyWhenOpen' /\ BeforeTheEnd' /\ NoneLeftRunning'
  BY <1>1, <1>2, <1>3, <1>5
  DEF AttemptsInv, RowsMatch, OnlyWhenOpen, BeforeTheEnd, NoneLeftRunning, Again
<1>7. QED
  BY <1>2, <1>4, <1>6 DEF AttemptsInv

(***************************************************************************)
(* The store opens once no row says running.                               *)
(***************************************************************************)
LEMMA OpeningKeepsAttempts ==
  ASSUME AttemptsInv, Open \/ OpenDone
  PROVE  AttemptsInv' /\ said' = said
<1>1. /\ UNCHANGED <<call, stream, rows, said>>
      /\ up # "open" /\ up' \in {"opening", "open"}
      /\ up' = "open" => Running = {}
  BY DEF Open, OpenDone, disk, history
<1>2. AttemptsType' /\ RowsMatch' /\ OnlyWhenOpen' /\ BeforeTheEnd'
  BY <1>1
  DEF AttemptsInv, AttemptsType, CallType, RowsMatch, OnlyWhenOpen, BeforeTheEnd
<1>3. NoneLeftRunning'
  <2>1. ASSUME Running = {}, NEW a \in Attempts PROVE said[a] # "running"
    BY <2>1 DEF AttemptsInv, RowsMatch, Running
  <2>2. QED
    BY <1>1, <2>1 DEF NoneLeftRunning
<1>4. QED
  BY <1>1, <1>2, <1>3 DEF AttemptsInv

(***************************************************************************)
(* A step that leaves the attempts alone.                                  *)
(***************************************************************************)
LEMMA StutterKeepsAttempts ==
  ASSUME AttemptsInv, UNCHANGED attempts PROVE AttemptsInv' /\ said' = said
BY DEF attempts, AttemptsInv, AttemptsType, CallType, RowsMatch, OnlyWhenOpen,
       BeforeTheEnd, Again, NoneLeftRunning

(***************************************************************************)
(* Every step keeps the invariant, and the last word of each attempt.      *)
(***************************************************************************)
LEMMA NextKeepsAttempts ==
  ASSUME AttemptsInv, LatestType, [Next]_vars
  PROVE  AttemptsInv' /\ LastWordStays
<1> USE QueueAssumption
<1>1. CASE UNCHANGED attempts /\ latest' = latest
  BY <1>1, StutterKeepsAttempts, Silent
<1>2. CASE Open \/ OpenDone
  BY <1>2, OpeningKeepsAttempts, Silent DEF Open, OpenDone, disk
<1>3. CASE Down
  BY <1>3, DownKeepsAttempts, Silent DEF Down, disk
<1>4. CASE TellGap \/ ClearMark \/ WriteFails
  <2>1. latest' = latest \/ (latest' = latest + 1 /\ rows' = rows)
    BY <1>4 DEF TellGap, Issue, ClearMark, WriteFails, disk
  <2>2. QED
    BY <1>4, <2>1, CallKeepsAttempts, Silent
<1>5. CASE Record
  BY <1>5, RecordKeepsAttempts
<1>6. CASE \E a \in Attempts : Interrupt(a)
  BY <1>6, InterruptKeepsAttempts
<1>7. CASE \E a \in Attempts : Revise(a) \/ Finish(a) \/ End(a)
  <2>1. latest' = latest
    BY <1>7 DEF Revise, Finish, End, Observe
  <2>2. QED
    BY <1>7, <2>1, ObserveKeepsAttempts, Silent
<1>8. CASE \E cutoff \in 0..latest : Cleanup(cutoff)
  BY <1>8, CleanupKeepsAttempts, Silent DEF Cleanup
<1>9. CASE AnyRead \/ (\E after \in Cursors : ReadTooLarge(after))
                   \/ (\E through \in 0..cursor : Ack(through))
  BY <1>1, <1>9 DEF AnyRead, Read, ReadTooLarge, Ack, history, attempts
<1>10. CASE UNCHANGED vars
  BY <1>1, <1>10 DEF vars, disk, history, attempts
<1>11. QED
  BY <1>2, <1>3, <1>4, <1>5, <1>6, <1>7, <1>8, <1>9, <1>10 DEF Next, Polled

(***************************************************************************)
(* Rows, generators and what was said agree in every reachable state.      *)
(***************************************************************************)
THEOREM AttemptsSound == Spec => []AttemptsInv
<1>1. Init => AttemptsInv
  BY QueueAssumption
  DEF Init, AttemptsInv, AttemptsType, CallType, RowsMatch, OnlyWhenOpen, BeforeTheEnd,
      NoneLeftRunning, Final
<1>2. AttemptsInv /\ LatestType /\ [Next]_vars => AttemptsInv'
  BY NextKeepsAttempts
<1>3. QED
  BY <1>1, <1>2, LatestIsNat, PTL DEF Spec

(***************************************************************************)
(* Once the store is open no call of an earlier process is left running in *)
(* what the Coordinator can read.                                          *)
(***************************************************************************)
THEOREM NoGhosts == Spec => []NoneLeftRunning
<1>1. AttemptsInv => NoneLeftRunning
  BY DEF AttemptsInv
<1>2. QED
  BY <1>1, AttemptsSound, PTL

(***************************************************************************)
(* The final revision of a model call is its last, but for those that      *)
(* further finish chunks bring while its generator goes on, and under the  *)
(* protocol of the runtime without exception.                              *)
(***************************************************************************)
THEOREM LastWord == Spec => FinalIsFinal
<1>1. AttemptsInv /\ LatestType /\ [Next]_vars => [LastWordStays]_vars
  BY NextKeepsAttempts
<1>2. QED
  BY <1>1, AttemptsSound, LatestIsNat, PTL DEF Spec, FinalIsFinal, LastWordStays, Again

(***************************************************************************)
(* Every variable keeps its type, for any number of calls and events.      *)
(***************************************************************************)
THEOREM TypeCorrect == ASSUME ~CursorsAhead PROVE Spec => []TypeOK
<1>1. LogInv /\ GapInv /\ AttemptsInv => TypeOK
  BY DEF LogInv, LogType, GapInv, AttemptsInv, AttemptsType, CallType, TypeOK
<1>2. QED
  BY <1>1, LogSound, GapSound, AttemptsSound, PTL
=============================================================================
