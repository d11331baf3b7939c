---------------------------- MODULE Requests_proofs ----------------------------
(***************************************************************************)
(* Theorems about Requests, for any number of ids, runs and slots.         *)
(*                                                                         *)
(* The inductive invariant adds one conjunct to the invariants the runs    *)
(* check: a run without a record exists only while the link is down, since *)
(* it ends in a microtask of the turn that took its record.  Without it a  *)
(* request could be admitted beside the old run of its id.                 *)
(***************************************************************************)
EXTENDS Requests, FiniteSetTheorems, TLAPS

OrphansOffline == \A r \in Running : live[serving[r]] = NoRun => link = "down"
Ownership == OneRunPerRecord /\ TimersOwned /\ OrphansOffline
IInv == TypeOK /\ Ownership

(***************************************************************************)
(* What abort() does to a signal: nothing outside the records named, and   *)
(* nothing to one that is aborted already.                                 *)
(***************************************************************************)
LEMMA AbortReasons ==
  ASSUME NEW rs, NEW why \in AbortReason, TypeOK, NEW r \in Runs
  PROVE  /\ Abort(rs, why) \in [Runs -> {"none"} \cup AbortReason]
         /\ r \in rs => Abort(rs, why)[r] # "none"
         /\ reason[r] # "none" => Abort(rs, why)[r] = reason[r]
         /\ r \notin rs => Abort(rs, why)[r] = reason[r]
BY DEF Abort, TypeOK, AbortReason

(***************************************************************************)
(* A registry that gains one id holds one record more at most.             *)
(***************************************************************************)
LEMMA OneMoreLive ==
  ASSUME TypeOK, NEW id \in Ids, NEW r \in Runs, Cardinality(Live) < MaxInFlight,
         live' = [live EXCEPT ![id] = r]
  PROVE  Cardinality(Live') <= MaxInFlight
<1>1. IsFiniteSet(Live)
  BY PoolAssumption, FS_Subset DEF Live
<1>2. Live' \subseteq Live \cup {id}
  BY PoolAssumption DEF TypeOK, Live
<1>3. IsFiniteSet(Live \cup {id}) /\ Cardinality(Live \cup {id}) <= Cardinality(Live) + 1
  <2>1. Cardinality(Live) \in Nat
    BY <1>1, FS_CardinalityType
  <2>2. /\ IsFiniteSet(Live \cup {id})
        /\ Cardinality(Live \cup {id}) =
             IF id \in Live THEN Cardinality(Live) ELSE Cardinality(Live) + 1
    BY <1>1, FS_AddElement, Zenon
  <2>3. QED
    BY <2>1, <2>2
<1>4. Cardinality(Live') <= Cardinality(Live \cup {id})
  BY <1>2, <1>3, FS_Subset
<1>5. /\ Cardinality(Live) \in Nat
      /\ Cardinality(Live') \in Nat
      /\ Cardinality(Live \cup {id}) \in Nat
  BY <1>1, <1>2, <1>3, FS_Subset, FS_CardinalityType
<1>6. QED
  BY <1>3, <1>4, <1>5, PoolAssumption

LEMMA NoMoreLive ==
  ASSUME TypeOK, Live' \subseteq Live
  PROVE  Cardinality(Live') <= MaxInFlight
<1>1. IsFiniteSet(Live)
  BY PoolAssumption, FS_Subset DEF Live
<1>2. /\ Cardinality(Live') <= Cardinality(Live)
      /\ Cardinality(Live) \in Nat /\ Cardinality(Live') \in Nat
  BY <1>1, FS_Subset, FS_CardinalityType
<1>3. QED
  BY <1>2, PoolAssumption DEF TypeOK

LEMMA InitIInv == Init => IInv
<1> SUFFICES ASSUME Init PROVE IInv
  OBVIOUS
<1> USE DEF Init
<1>1. Live = {} /\ Running = {}
  BY DEF Live, Running
<1>2. Cardinality(Live) <= MaxInFlight
  BY <1>1, FS_EmptySet, PoolAssumption
<1>3. TypeOK
  BY <1>1, <1>2, PoolAssumption DEF TypeOK, Running
<1>4. OneRunPerRecord
  BY <1>1 DEF OneRunPerRecord
<1>5. TimersOwned /\ OrphansOffline
  BY <1>1 DEF TimersOwned, Records, OrphansOffline
<1>6. QED
  BY <1>3, <1>4, <1>5 DEF IInv, Ownership

(***************************************************************************)
(* failAll() leaves no record, and aborts every run that had one.          *)
(***************************************************************************)
LEMMA FailAllKeeps ==
  ASSUME IInv, NEW why \in AbortReason, FailAll(why), link' = "down"
  PROVE  IInv'
<1>1. TypeOK
  BY DEF IInv
<1>2. Live' = {}
  BY DEF FailAll, Live
<1>3. reason' \in [Runs -> {"none"} \cup AbortReason]
  BY <1>1 DEF FailAll, Abort, TypeOK, AbortReason
<1>4. Cardinality(Live') <= MaxInFlight
  BY <1>1, <1>2, NoMoreLive
<1>5. TypeOK'
  BY <1>1, <1>3, <1>4, PoolAssumption DEF FailAll, TypeOK, Running, Disarmed
<1>6. OneRunPerRecord'
  <2> SUFFICES ASSUME NEW r \in Running PROVE live'[serving[r]] = NoRun /\ r \in Decided'
    BY <1>2 DEF OneRunPerRecord, FailAll, Running
  <2>1. r \in Runs /\ serving[r] \in Ids
    BY <1>1 DEF TypeOK
  <2>2. live[serving[r]] = r \/ r \in Decided
    BY DEF IInv, Ownership, OneRunPerRecord
  <2>3. CASE live[serving[r]] = r
    <3>1. r \in Records
      BY <2>1, <2>3, PoolAssumption DEF Records, Live
    <3>2. reason'[r] # "none"
      BY <1>1, <2>1, <3>1, AbortReasons DEF FailAll
    <3>3. QED
      BY <2>1, <3>2 DEF FailAll, Decided, Running
  <2>4. CASE r \in Decided
    <3>1. r \in settled \/ reason'[r] # "none"
      BY <1>1, <2>1, <2>4, AbortReasons DEF Decided, FailAll
    <3>2. QED
      BY <2>1, <3>1 DEF FailAll, Decided, Running
  <2>5. QED
    BY <2>2, <2>3, <2>4
<1>7. TimersOwned'
  BY <1>2 DEF IInv, Ownership, TimersOwned, FailAll, Disarmed, Records
<1>8. OrphansOffline'
  BY DEF OrphansOffline
<1>9. QED
  BY <1>5, <1>6, <1>7, <1>8 DEF IInv, Ownership

(***************************************************************************)
(* An abort of live records changes neither who holds what nor the timers. *)
(***************************************************************************)
LEMMA AbortKeeps ==
  ASSUME IInv, NEW rs, NEW why \in AbortReason, reason' = Abort(rs, why),
         timed' \subseteq timed, timed \ timed' \subseteq rs,
         UNCHANGED <<link, live, serving, settled>>
  PROVE  IInv'
<1>1. TypeOK
  BY DEF IInv
<1>2. Live' = Live /\ Records' = Records /\ Running' = Running
  BY DEF Live, Records, Running
<1>3. reason' \in [Runs -> {"none"} \cup AbortReason]
  BY <1>1 DEF Abort, TypeOK, AbortReason
<1>4. TypeOK'
  BY <1>1, <1>2, <1>3 DEF TypeOK
<1>5. \A r \in Runs : reason[r] # "none" => reason'[r] # "none"
  BY <1>1, AbortReasons
<1>6. Decided \subseteq Decided'
  BY <1>1, <1>2, <1>5 DEF Decided, TypeOK
<1>7. OneRunPerRecord'
  BY <1>2, <1>6 DEF IInv, Ownership, OneRunPerRecord
<1>8. TimersOwned'
  <2>1. \A r \in Records : r \in timed' \/ reason'[r] # "none"
    <3> SUFFICES ASSUME NEW r \in Records, r \notin timed' PROVE reason'[r] # "none"
      OBVIOUS
    <3>1. r \in Runs
      BY <1>1 DEF Records, Live, TypeOK
    <3>2. CASE r \in timed
      BY <1>1, <3>1, <3>2, AbortReasons
    <3>3. CASE r \notin timed
      BY <1>5, <3>1, <3>3 DEF IInv, Ownership, TimersOwned
    <3>4. QED
      BY <3>2, <3>3
  <2>2. QED
    BY <1>2, <2>1 DEF IInv, Ownership, TimersOwned
<1>9. OrphansOffline'
  BY <1>2 DEF IInv, Ownership, OrphansOffline
<1>10. QED
  BY <1>4, <1>7, <1>8, <1>9 DEF IInv, Ownership

LEMMA RequestKeeps ==
  ASSUME IInv, NEW id \in Ids, NEW r \in Runs, Request(id, r)
  PROVE  IInv'
<1> USE DEF Request
<1>1. TypeOK /\ OneRunPerRecord /\ TimersOwned /\ OrphansOffline
  BY DEF IInv, Ownership
<1>2. live[id] = NoRun /\ Cardinality(Live) < MaxInFlight /\ r \notin Running
  BY DEF Admissible
<1>3. Running' = Running \cup {r}
  BY DEF Running
<1>4. serving' \in [Running \cup {r} -> Ids] /\ serving'[r] = id
  BY <1>1 DEF TypeOK, Running
<1>5. \A q \in Running : serving'[q] = serving[q]
  BY <1>2 DEF Running
<1>6. live' \in [Ids -> Runs \cup {NoRun}] /\ live'[id] = r
      /\ \A i \in Ids \ {id} : live'[i] = live[i]
  BY <1>1 DEF TypeOK
<1>7. Cardinality(Live') <= MaxInFlight
  BY <1>1, <1>2, OneMoreLive
<1>8. TypeOK'
  BY <1>1, <1>3, <1>4, <1>6, <1>7 DEF TypeOK, Armed
<1>9. Decided \subseteq Decided'
  BY <1>3 DEF Decided
<1>10. OneRunPerRecord'
  <2>1. \A i \in Live' : live'[i] \in Running' /\ serving'[live'[i]] = i
    <3> SUFFICES ASSUME NEW i \in Ids, live'[i] # NoRun
                 PROVE  live'[i] \in Running' /\ serving'[live'[i]] = i
      BY DEF Live
    <3>1. CASE i = id
      BY <1>3, <1>4, <1>6, <3>1
    <3>2. CASE i # id
      BY <1>1, <1>3, <1>5, <1>6, <3>2 DEF OneRunPerRecord, Live
    <3>3. QED
      BY <3>1, <3>2
  <2>2. \A q \in Running' : live'[serving'[q]] = q
                             \/ (live'[serving'[q]] = NoRun /\ q \in Decided')
    <3> SUFFICES ASSUME NEW q \in Running', q # r
                 PROVE  live'[serving'[q]] = q
                        \/ (live'[serving'[q]] = NoRun /\ q \in Decided')
      BY <1>4, <1>6
    <3>1. q \in Running /\ serving'[q] = serving[q] /\ serving[q] \in Ids
      BY <1>1, <1>3, <1>5 DEF TypeOK
    <3>2. live[serving[q]] = q \/ (live[serving[q]] = NoRun /\ q \in Decided)
      BY <1>1, <3>1 DEF OneRunPerRecord
    <3>3. serving[q] # id
      BY <1>1, <1>2, <3>1 DEF OrphansOffline
    <3>4. QED
      BY <1>6, <1>9, <3>1, <3>2, <3>3
  <2>3. QED
    BY <2>1, <2>2 DEF OneRunPerRecord
<1>11. TimersOwned'
  <2>1. Records' = Records \cup {r}
    BY <1>1, <1>2, <1>6, PoolAssumption DEF Records, Live
  <2>2. QED
    BY <1>1, <2>1 DEF TimersOwned, Armed
<1>12. OrphansOffline'
  BY <1>1, <1>2, <1>3, <1>4, <1>5, <1>6, PoolAssumption DEF OrphansOffline, TypeOK
<1>13. QED
  BY <1>8, <1>10, <1>11, <1>12 DEF IInv, Ownership

(***************************************************************************)
(* A run that resumes takes its own record with it, and no other.          *)
(***************************************************************************)
LEMMA ResumeKeeps ==
  ASSUME IInv, NEW r \in Runs, Resume(r)
  PROVE  IInv'
<1> USE DEF Resume
<1>1. TypeOK /\ OneRunPerRecord /\ TimersOwned /\ OrphansOffline
  BY DEF IInv, Ownership
<1>2. r \in Running /\ serving[r] \in Ids
  BY <1>1 DEF Decided, TypeOK
<1>3. Running' = Running \ {r}
  BY DEF Running
<1>4. \A q \in Running' : serving'[q] = serving[q] /\ serving[q] \in Ids
  BY <1>1, <1>3 DEF TypeOK, Running
<1>5. /\ live' \in [Ids -> Runs \cup {NoRun}] /\ live'[serving[r]] = NoRun
      /\ \A i \in Ids \ {serving[r]} : live'[i] = live[i]
  BY <1>1, <1>2 DEF TypeOK
<1>6. Record(serving[r]) \subseteq {r}
  BY <1>1, <1>2 DEF Record, OneRunPerRecord
<1>7. TypeOK'
  <2>1. Live' \subseteq Live
    BY <1>5 DEF Live
  <2>2. Cardinality(Live') <= MaxInFlight
    BY <1>1, <2>1, NoMoreLive
  <2>3. serving' \in [Running' -> Ids]
    BY <1>1, <1>3 DEF TypeOK, Running
  <2>4. QED
    BY <1>1, <1>3, <1>5, <2>2, <2>3 DEF TypeOK, Disarmed
<1>8. \A q \in Running' : serving[q] = serving[r] =>
        (live[serving[q]] = NoRun /\ q \in Decided) \/ live[serving[q]] = q
  BY <1>1, <1>3 DEF OneRunPerRecord
<1>9. \A q \in Running' : q \in Decided => q \in Decided'
  BY <1>1, <1>3 DEF Decided, TypeOK
<1>10. \A i \in Live' : i # serving[r] /\ i \in Live /\ live'[i] = live[i] /\ live[i] # r
  BY <1>1, <1>5 DEF Live, OneRunPerRecord
<1>11. OneRunPerRecord'
  <2>1. \A i \in Live' : live'[i] \in Running' /\ serving'[live'[i]] = i
    BY <1>1, <1>3, <1>4, <1>10 DEF OneRunPerRecord
  <2>2. ASSUME NEW q \in Running'
        PROVE  live'[serving'[q]] = q \/ (live'[serving'[q]] = NoRun /\ q \in Decided')
    <3>1. q \in Running /\ q # r
      BY <1>3
    <3>2. live[serving[q]] = q \/ (live[serving[q]] = NoRun /\ q \in Decided)
      BY <1>1, <3>1 DEF OneRunPerRecord
    <3>3. CASE serving[q] = serving[r]
      <4>1. q \in Decided
        BY <1>1, <1>2, <3>1, <3>2, <3>3, PoolAssumption DEF OneRunPerRecord, TypeOK
      <4>2. QED
        BY <1>4, <1>5, <1>9, <3>3, <4>1
    <3>4. CASE serving[q] # serving[r]
      BY <1>4, <1>5, <1>9, <3>2, <3>4
    <3>5. QED
      BY <3>3, <3>4
  <2>3. QED
    BY <2>1, <2>2 DEF OneRunPerRecord
<1>12. TimersOwned'
  <2>1. Records' \subseteq Records \ {r}
    BY <1>10 DEF Records
  <2>2. Records \ {r} \subseteq Records'
    BY <1>1, <1>2, <1>5 DEF Records, Live, OneRunPerRecord
  <2>3. timed' = timed \ Record(serving[r])
    BY DEF Disarmed
  <2>4. r \in Records => r \in Record(serving[r])
    BY <1>1 DEF Records, Record, Live, OneRunPerRecord
  <2>5. \A q \in Records' : reason'[q] = reason[q]
    BY <1>1, <2>1 DEF Records, TypeOK
  <2>6. QED
    BY <1>1, <1>6, <2>1, <2>2, <2>3, <2>4, <2>5 DEF TimersOwned
<1>13. OrphansOffline'
  <2> SUFFICES ASSUME NEW q \in Running', live'[serving'[q]] = NoRun
               PROVE  link = "down"
    BY DEF OrphansOffline
  <2>1. q \in Running /\ q # r /\ live'[serving[q]] = NoRun
    BY <1>3, <1>4
  <2>2. live[serving[q]] = q => serving[q] # serving[r]
    BY <1>1, <1>2, <2>1, PoolAssumption DEF OneRunPerRecord, TypeOK
  <2>3. QED
    BY <1>1, <1>4, <1>5, <2>1, <2>2, PoolAssumption DEF OneRunPerRecord, OrphansOffline, TypeOK
<1>14. QED
  BY <1>7, <1>11, <1>12, <1>13 DEF IInv, Ownership

LEMMA NextIInv == IInv /\ [Next]_vars => IInv'
<1> SUFFICES ASSUME IInv, [Next]_vars PROVE IInv'
  OBVIOUS
<1>1. CASE LinkUp
  <2>1. \A q \in Running : live[serving[q]] # NoRun
    BY <1>1, PoolAssumption DEF LinkUp, IInv, TypeOK, Ownership, OneRunPerRecord, Drained
  <2>2. link' = "open" /\ UNCHANGED <<live, timed, serving, settled, reason>>
    BY <1>1 DEF LinkUp
  <2>3. QED
    BY <2>1, <2>2 DEF IInv, Ownership, TypeOK, OneRunPerRecord, TimersOwned, OrphansOffline,
                      Live, Records, Running, Decided
<1>2. CASE LinkCloses \/ ReconnectNow
  BY <1>2 DEF LinkCloses, ReconnectNow, IInv, Ownership, TypeOK, OneRunPerRecord, TimersOwned,
              OrphansOffline, Live, Records, Running, Decided
<1>3. CASE LinkLost
  BY <1>3, FailAllKeeps DEF LinkLost, AbortReason
<1>4. CASE Stop
  BY <1>4, FailAllKeeps DEF Stop, AbortReason
<1>5. ASSUME NEW id \in Ids, Cancel(id)
      PROVE  IInv'
  BY <1>5, AbortKeeps DEF Cancel, AbortReason
<1>6. ASSUME NEW id \in Ids, NEW r \in Runs, Request(id, r)
      PROVE  IInv'
  BY <1>6, RequestKeeps
<1>7. ASSUME NEW r \in Runs, Timeout(r)
      PROVE  IInv'
  <2>1. r \in Running /\ live[serving[r]] = r
    BY <1>7 DEF Timeout, IInv, Ownership, OneRunPerRecord, TimersOwned, Records
  <2>2. reason' = Abort({r}, "timeout")
    BY <1>7, <2>1, PoolAssumption DEF Timeout, Record
  <2>3. QED
    BY <1>7, <2>2, AbortKeeps DEF Timeout, AbortReason
<1>8. ASSUME NEW r \in Runs, GatewaySettles(r)
      PROVE  IInv'
  BY <1>8 DEF GatewaySettles, IInv, Ownership, TypeOK, OneRunPerRecord, TimersOwned,
              OrphansOffline, Live, Records, Running, Decided
<1>9. ASSUME NEW r \in Runs, Resume(r)
      PROVE  IInv'
  BY <1>9, ResumeKeeps
<1>10. CASE UNCHANGED vars
  BY <1>10 DEF vars, IInv, Ownership, TypeOK, OneRunPerRecord, TimersOwned,
               OrphansOffline, Live, Records, Running, Decided
<1>11. QED
  BY <1>1, <1>2, <1>3, <1>4, <1>5, <1>6, <1>7, <1>8, <1>9, <1>10 DEF Next

LEMMA SpecIInv == Spec => []IInv
BY InitIInv, NextIInv, PTL DEF Spec

(***************************************************************************)
(* The registry keeps its type and its ceiling.                            *)
(***************************************************************************)
THEOREM TypeCorrect == Spec => []TypeOK
<1>1. IInv => TypeOK
  BY DEF IInv
<1>2. QED
  BY <1>1, SpecIInv, PTL

(***************************************************************************)
(* Every record has the one run that will complete it, and every run its   *)
(* own record or none.                                                     *)
(***************************************************************************)
THEOREM RecordsHaveRuns == Spec => []OneRunPerRecord
<1>1. IInv => OneRunPerRecord
  BY DEF IInv, Ownership
<1>2. QED
  BY <1>1, SpecIInv, PTL

(***************************************************************************)
(* No timer outlives its request.                                          *)
(***************************************************************************)
THEOREM TimersHaveRecords == Spec => []TimersOwned
<1>1. IInv => TimersOwned
  BY DEF IInv, Ownership
<1>2. QED
  BY <1>1, SpecIInv, PTL

(***************************************************************************)
(* While the link stays up the record of a request is completed by its own *)
(* run, whatever was cancelled, timed out or settled late before.          *)
(***************************************************************************)
THEOREM OwnAnswer == Spec => SettledByItsRun
<1> DEFINE Own == \A id \in Live :
                    live'[id] # live[id] /\ link' # "down" => ItsRunEnds(id)
<1>1. IInv /\ [Next]_vars => [Own]_vars
  <2> SUFFICES ASSUME IInv, Next, NEW id \in Live, live'[id] # live[id], link' # "down"
               PROVE  ItsRunEnds(id)
    OBVIOUS
  <2>1. id \in Ids /\ live \in [Ids -> Runs \cup {NoRun}] /\ OneRunPerRecord
    BY DEF Live, IInv, TypeOK, Ownership
  <2>2. ASSUME NEW i \in Ids, NEW r \in Runs, Request(i, r)
        PROVE  FALSE
    BY <2>1, <2>2 DEF Request, Admissible, Live
  <2>3. ASSUME NEW r \in Runs, Resume(r)
        PROVE  ItsRunEnds(id)
    <3>1. r \in Decided /\ r \in Running /\ id = serving[r]
      BY <2>1, <2>3 DEF Resume, Decided
    <3>2. live[id] = r
      BY <2>1, <3>1 DEF OneRunPerRecord, Live
    <3>3. QED
      BY <2>3, <3>1, <3>2 DEF Resume, ItsRunEnds
  <2>4. QED
    BY <2>2, <2>3 DEF Next, LinkUp, LinkCloses, LinkLost, Stop, ReconnectNow, Cancel, Timeout,
                      GatewaySettles
<1>2. QED
  BY <1>1, SpecIInv, PTL DEF Spec, SettledByItsRun
=============================================================================
