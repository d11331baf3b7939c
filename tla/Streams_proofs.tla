---------------------------- MODULE Streams_proofs -----------------------------
(***************************************************************************)
(* Theorems about Streams, for any number of ids, runs, slots and values,  *)
(* and for a Coordinator whose ids are fresh among the runs under way.     *)
(*                                                                         *)
(* The inductive invariant says how a run, its entry and the last frame of *)
(* its stream go together.                                                 *)
(***************************************************************************)
EXTENDS Streams, FiniteSetTheorems, TLAPS

Run == [id : Ids, at : {"opening", "pulling", "draining", "drained"}, entry : Runs,
        n : 0..MaxValues, seq : 0..MaxValues, count : 0..MaxValues]

\* What the Coordinator has seen of a stream is what its run has counted, and
\* the value in hand is the next one.
Matches(r, f) ==
  /\ r.at = "opening" => f = [type |-> "open", n |-> 0] /\ r.seq = 0 /\ r.count = 0
  /\ r.at # "opening" => f.type \in {"ready", "data"} /\ f.n = r.count
  /\ r.at = "pulling" => r.seq = r.count
  /\ r.at \in {"draining", "drained"} => r.seq = r.count + 1 /\ r.n = r.seq

LiveMatch == \A id \in Live : Matches(run[live[id]], last[id])

\* A stream that was asked for has no run yet, not even an old one.
AskedFresh ==
  \A id \in asked :
    /\ link # "down"
    /\ last[id] = [type |-> "open", n |-> 0]
    /\ \A r \in Busy : run[r].id # id

IInv == TypeOK /\ OneRunPerEntry /\ LiveMatch /\ AskedFresh /\ ClosedMeansTold

(***************************************************************************)
(* Helpers on the registry: its ceiling, and who holds a live entry.       *)
(***************************************************************************)
LEMMA LiveFinite ==
  /\ IsFiniteSet(Live) /\ Cardinality(Live) \in Nat
  /\ \A S : S \subseteq Live =>
       IsFiniteSet(S) /\ Cardinality(S) \in Nat /\ Cardinality(S) <= Cardinality(Live)
<1>1. IsFiniteSet(Live)
  BY PoolAssumption, FS_Subset DEF Live
<1>2. QED
  BY <1>1, FS_Subset, FS_CardinalityType

LEMMA NoMoreLive ==
  ASSUME TypeOK, Live' \subseteq Live
  PROVE  Cardinality(Live') <= MaxStreams
<1>1. Cardinality(Live') \in Nat /\ Cardinality(Live') <= Cardinality(Live)
  BY LiveFinite
<1>2. QED
  BY <1>1, LiveFinite, PoolAssumption DEF TypeOK

LEMMA OneMoreLive ==
  ASSUME TypeOK, NEW id \in Ids, Cardinality(Live) < MaxStreams,
         Live' \subseteq Live \cup {id}
  PROVE  Cardinality(Live') <= MaxStreams
<1>1. /\ IsFiniteSet(Live \cup {id})
      /\ Cardinality(Live \cup {id}) =
           IF id \in Live THEN Cardinality(Live) ELSE Cardinality(Live) + 1
  BY LiveFinite, FS_AddElement, Zenon
<1>2. /\ Cardinality(Live') \in Nat
      /\ Cardinality(Live') <= Cardinality(Live \cup {id})
  BY <1>1, FS_Subset, FS_CardinalityType
<1>3. QED
  BY <1>1, <1>2, LiveFinite, PoolAssumption

LEMMA Holder ==
  ASSUME TypeOK, OneRunPerEntry, NEW r \in Busy
  PROVE  /\ r \in Runs /\ run[r] \in Run /\ run[r].entry = r
         /\ r \in Entries <=> live[run[r].id] = r
         /\ run[r].id \in Live => live[run[r].id] = r
         /\ run[r].id \notin Live => live[run[r].id] = NoRun
<1>1. r \in Runs /\ run[r] \in Run /\ run[r].entry = r /\ run[r].id \in Ids
  BY DEF TypeOK, OneRunPerEntry, Run
<1>2. r # NoRun
  BY <1>1, PoolAssumption
<1>3. r \in Entries <=> live[run[r].id] = r
  BY <1>1, <1>2 DEF Entries, Live, OneRunPerEntry
<1>4. QED
  BY <1>1, <1>3 DEF Live, OneRunPerEntry

LEMMA InitIInv == Init => IInv
<1> SUFFICES ASSUME Init PROVE IInv
  OBVIOUS
<1> USE DEF Init
<1>1. Live = {} /\ Busy = {}
  BY DEF Live, Busy
<1>2. Cardinality(Live) <= MaxStreams
  BY <1>1, FS_EmptySet, PoolAssumption
<1>3. last \in [Ids -> Wire!Frame]
  BY PoolAssumption DEF Wire!Init, Wire!Nothing, Wire!Frame
<1>4. TypeOK
  BY <1>1, <1>2, <1>3 DEF TypeOK, Busy
<1>5. OneRunPerEntry /\ LiveMatch /\ AskedFresh
  BY <1>1 DEF OneRunPerEntry, LiveMatch, AskedFresh
<1>6. ClosedMeansTold
  BY DEF ClosedMeansTold
<1>7. QED
  BY <1>4, <1>5, <1>6 DEF IInv

(***************************************************************************)
(* One new frame that may follow is a step of the contract.                *)
(***************************************************************************)
LEMMA OneFrame ==
  ASSUME TypeOK, NEW id \in Ids, NEW f \in Wire!Frame, f \in Wire!Follows(last[id]),
         last' = [last EXCEPT ![id] = f]
  PROVE  Wire!Next
BY DEF TypeOK, Wire!Next

(***************************************************************************)
(* The terminal frame of a live stream may follow its last one: an end     *)
(* only once it was acknowledged.                                          *)
(***************************************************************************)
LEMMA TerminalFrame ==
  ASSUME IInv, NEW id \in Live, NEW type \in {"end", "error"},
         type = "end" => run[live[id]].at # "opening",
         NEW f, f = [type |-> type, n |-> Delivered(live[id])]
  PROVE  f \in Wire!Frame /\ f \in Wire!Follows(last[id])
<1>1. id \in Ids /\ live[id] \in Busy /\ run[live[id]] \in Run
  BY DEF IInv, TypeOK, OneRunPerEntry, Live, Run
<1>2. f \in Wire!Frame
  BY <1>1 DEF Delivered, Wire!Frame, Run
<1>3. Matches(run[live[id]], last[id])
  BY DEF IInv, LiveMatch
<1>4. CASE run[live[id]].at = "opening"
  <2>1. type = "error" /\ last[id] = [type |-> "open", n |-> 0] /\ Delivered(live[id]) = 0
    BY <1>3, <1>4 DEF Matches, Delivered
  <2>2. QED
    BY <1>2, <2>1 DEF Wire!Follows
<1>5. CASE run[live[id]].at # "opening"
  <2>1. last[id].type \in {"ready", "data"} /\ last[id].n = Delivered(live[id])
    BY <1>3, <1>5 DEF Matches, Delivered
  <2>2. QED
    BY <1>2, <2>1 DEF Wire!Follows
<1>6. QED
  BY <1>4, <1>5

(***************************************************************************)
(* end() and fail(): the entry goes, and with it at most runs of its id.   *)
(***************************************************************************)
LEMMA TerminateKeeps ==
  ASSUME IInv, NEW id \in Ids, NEW type \in {"end", "error"}, Terminate(id, type),
         id \in Live /\ type = "end" => run[live[id]].at # "opening",
         NEW gone \in SUBSET Busy, \A r \in gone : run[r].id = id,
         run' = [r \in Busy \ gone |-> run[r]],
         UNCHANGED <<link, asked>>, buffered' \in Nat
  PROVE  IInv' /\ [Wire!Next]_last
<1>1. TypeOK /\ OneRunPerEntry /\ LiveMatch /\ AskedFresh /\ ClosedMeansTold
  BY DEF IInv
<1>2. Busy' = Busy \ gone /\ \A r \in Busy' : run'[r] = run[r]
  BY DEF Busy
<1>3. /\ live' \in [Ids -> Runs \cup {NoRun}] /\ live'[id] = NoRun
      /\ \A i \in Ids \ {id} : live'[i] = live[i]
  BY <1>1 DEF Terminate, Removed, TypeOK
<1>4. Live' = Live \ {id}
  BY <1>3 DEF Live
<1>5. /\ last' \in [Ids -> Wire!Frame]
      /\ \A i \in Ids \ {id} : last'[i] = last[i]
      /\ refused' \in SUBSET Ids /\ refused \subseteq refused'
      /\ id \in Live /\ link = "open" => last'[id].type = type \/ id \in refused'
      /\ id \notin Live => last' = last
      /\ [Wire!Next]_last
  <2>1. CASE id \in Live /\ Carry(id, type, Delivered(live[id]))
    <3> DEFINE f == [type |-> type, n |-> Delivered(live[id])]
    <3>1. f \in Wire!Frame /\ f \in Wire!Follows(last[id])
      BY <2>1, TerminalFrame
    <3>2. last' = [last EXCEPT ![id] = f]
      BY <2>1 DEF Carry
    <3>3. last \in [Ids -> Wire!Frame] /\ refused' = refused /\ refused \in SUBSET Ids
      BY <1>1, <2>1 DEF TypeOK, Carry
    <3>4. Wire!Next
      BY <1>1, <3>1, <3>2, OneFrame
    <3>5. f.type = type
      OBVIOUS
    <3> HIDE DEF f
    <3>6. QED
      BY <2>1, <3>1, <3>2, <3>3, <3>4, <3>5
  <2>2. CASE ~(id \in Live /\ Carry(id, type, Delivered(live[id])))
    BY <1>1, <2>2 DEF Terminate, Tell, TypeOK
  <2>3. QED
    BY <2>1, <2>2
<1>6. TypeOK'
  <2>1. Cardinality(Live') <= MaxStreams
    BY <1>1, <1>4, NoMoreLive
  <2>2. run' \in [Busy' -> Run]
    BY <1>1, <1>2 DEF TypeOK, Run
  <2>3. QED
    BY <1>1, <1>2, <1>3, <1>5, <2>1, <2>2 DEF TypeOK, Run
<1>7. OneRunPerEntry'
  <2>1. ASSUME NEW i \in Live'
        PROVE  live'[i] \in Busy' /\ run'[live'[i]].id = i
    <3>1. i \in Live /\ i # id /\ i \in Ids
      BY <1>4, <2>1 DEF Live
    <3>2. live[i] \in Busy /\ run[live[i]].id = i
      BY <1>1, <3>1 DEF OneRunPerEntry
    <3>3. QED
      BY <1>2, <1>3, <3>1, <3>2
  <2>2. ASSUME NEW r \in Busy'
        PROVE  run'[r].entry = r /\ live'[run'[r].id] \in {r, NoRun}
    <3>1. r \in Busy /\ run'[r] = run[r] /\ run[r].id \in Ids
      BY <1>1, <1>2 DEF TypeOK
    <3>2. run[r].entry = r /\ live[run[r].id] \in {r, NoRun}
      BY <1>1, <3>1 DEF OneRunPerEntry
    <3>3. QED
      BY <1>3, <3>1, <3>2
  <2>3. QED
    BY <2>1, <2>2 DEF OneRunPerEntry
<1>8. LiveMatch'
  <2> SUFFICES ASSUME NEW i \in Live' PROVE Matches(run'[live'[i]], last'[i])
    BY DEF LiveMatch, Matches
  <2>1. i \in Live /\ i # id /\ i \in Ids
    BY <1>4 DEF Live
  <2>2. live'[i] = live[i] /\ last'[i] = last[i] /\ live[i] \in Busy'
    BY <1>3, <1>5, <1>7, <2>1 DEF OneRunPerEntry
  <2>3. QED
    BY <1>1, <1>2, <2>1, <2>2 DEF LiveMatch
<1>9. AskedFresh'
  <2> SUFFICES ASSUME NEW i \in asked
               PROVE  /\ link # "down" /\ last'[i] = [type |-> "open", n |-> 0]
                      /\ \A r \in Busy' : run'[r].id # i
    BY DEF AskedFresh
  <2>1. link # "down" /\ last[i] = [type |-> "open", n |-> 0] /\ i \in Ids
        /\ \A r \in Busy : run[r].id # i
    BY <1>1 DEF AskedFresh, TypeOK
  <2>2. i \notin Live
    BY <1>1, <2>1 DEF OneRunPerEntry
  <2>3. last'[i] = last[i]
    BY <1>5, <2>1, <2>2
  <2>4. QED
    BY <1>2, <2>1, <2>3
<1>10. ClosedMeansTold'
  <2> SUFFICES ASSUME link = "open", NEW i \in Ids, i \notin Live', i \notin asked,
                      i \notin refused'
               PROVE  last'[i].type \in {"none", "end", "error"}
    BY DEF ClosedMeansTold
  <2>1. CASE i \in Live
    BY <1>4, <1>5, <2>1
  <2>2. CASE i \notin Live
    BY <1>1, <1>5, <2>2 DEF ClosedMeansTold
  <2>3. QED
    BY <2>1, <2>2
<1>11. QED
  BY <1>5, <1>6, <1>7, <1>8, <1>9, <1>10 DEF IInv

(***************************************************************************)
(* A run that goes on with its own entry: at most one frame is sent, and   *)
(* only if the entry is live.                                              *)
(***************************************************************************)
LEMMA RunStepKeeps ==
  ASSUME IInv, NEW r \in Busy, NEW rec \in Run, NEW f \in Wire!Frame,
         rec.id = run[r].id, rec.entry = r, run' = [run EXCEPT ![r] = rec],
         UNCHANGED <<link, live, asked, refused>>, buffered' \in Nat,
         \/ last' = last /\ f = last[run[r].id]
         \/ /\ live[run[r].id] = r
            /\ f \in Wire!Follows(last[run[r].id])
            /\ last' = [last EXCEPT ![run[r].id] = f],
         live[run[r].id] = r => Matches(rec, f)
  PROVE  IInv' /\ [Wire!Next]_last
<1> DEFINE id == run[r].id
<1>1. TypeOK /\ OneRunPerEntry /\ LiveMatch /\ AskedFresh /\ ClosedMeansTold
  BY DEF IInv
<1>2. id \in Ids /\ r \in Runs /\ r # NoRun
  BY <1>1, PoolAssumption DEF TypeOK
<1>3. Busy' = Busy /\ run'[r] = rec /\ \A q \in Busy \ {r} : run'[q] = run[q]
  BY <1>1 DEF TypeOK, Busy
<1>4. Live' = Live
  BY DEF Live
<1>5. /\ last' \in [Ids -> Wire!Frame] /\ last'[id] = f
      /\ \A i \in Ids \ {id} : last'[i] = last[i]
      /\ id \notin Live => last' = last
  <2>1. last \in [Ids -> Wire!Frame]
    BY <1>1 DEF TypeOK
  <2>2. live[id] = r => id \in Live
    BY <1>2 DEF Live
  <2> HIDE DEF id
  <2>3. QED
    BY <1>2, <2>1, <2>2 DEF id
<1>6. [Wire!Next]_last
  BY <1>1, <1>2, OneFrame
<1>7. TypeOK'
  <2>1. run' \in [Busy -> Run]
    BY <1>1, <1>3 DEF TypeOK, Run
  <2>2. QED
    BY <1>1, <1>3, <1>4, <1>5, <2>1 DEF TypeOK, Run
<1>8. OneRunPerEntry'
  BY <1>1, <1>3, <1>4 DEF OneRunPerEntry
<1>9. LiveMatch'
  <2> SUFFICES ASSUME NEW i \in Live PROVE Matches(run'[live[i]], last'[i])
    BY <1>4 DEF LiveMatch, Matches
  <2>1. i \in Ids /\ live[i] \in Busy /\ run[live[i]].id = i
    BY <1>1 DEF OneRunPerEntry, Live
  <2>2. CASE live[i] = r
    BY <1>3, <1>5, <2>1, <2>2
  <2>3. CASE live[i] # r
    <3>1. i # id
      BY <1>1, <1>2, <2>1, <2>3 DEF OneRunPerEntry, Live
    <3>2. QED
      BY <1>1, <1>3, <1>5, <2>1, <2>3, <3>1 DEF LiveMatch
  <2>4. QED
    BY <2>2, <2>3
<1>10. AskedFresh'
  <2> SUFFICES ASSUME NEW i \in asked
               PROVE  /\ link # "down" /\ last'[i] = [type |-> "open", n |-> 0]
                      /\ \A q \in Busy : run'[q].id # i
    BY <1>3 DEF AskedFresh
  <2>1. i \in Ids /\ link # "down" /\ last[i] = [type |-> "open", n |-> 0]
        /\ \A q \in Busy : run[q].id # i
    BY <1>1 DEF AskedFresh, TypeOK
  <2>2. QED
    BY <1>3, <1>5, <2>1
<1>11. ClosedMeansTold'
  <2> SUFFICES ASSUME link = "open", NEW i \in Ids, i \notin Live, i \notin asked,
                      i \notin refused
               PROVE  last'[i].type \in {"none", "end", "error"}
    BY <1>4 DEF ClosedMeansTold
  <2>1. last'[i] = last[i]
    BY <1>5
  <2>2. QED
    BY <1>1, <2>1 DEF ClosedMeansTold
<1>12. QED
  BY <1>6, <1>7, <1>8, <1>9, <1>10, <1>11 DEF IInv

(***************************************************************************)
(* The transport and the link, while the registry stays.                   *)
(***************************************************************************)
LEMMA LinkKeeps ==
  ASSUME IInv, UNCHANGED <<live, run>>, buffered' \in Nat,
         link' \in {"down", "open", "closing"},
         (asked' = asked /\ link' # "down") \/ asked' = {},
         refused' = refused \/ (refused' = {} /\ link' = "down"),
         \/ last' = last /\ (link' = "open" => link = "open" /\ asked' = asked)
         \/ /\ asked' = {}
            /\ last' = [id \in Ids |-> IF id \in Live THEN last[id] ELSE Wire!Nothing]
  PROVE  IInv' /\ [Wire!Next]_last
<1>1. TypeOK /\ OneRunPerEntry /\ LiveMatch /\ AskedFresh /\ ClosedMeansTold
  BY DEF IInv
<1>2. Busy' = Busy /\ Live' = Live
  BY DEF Busy, Live
<1>3. Wire!Nothing \in Wire!Frame
  BY PoolAssumption DEF Wire!Nothing, Wire!Frame
<1>4. /\ last' \in [Ids -> Wire!Frame]
      /\ \A i \in Ids : last'[i] \in {last[i], Wire!Nothing}
      /\ \A i \in Live : last'[i] = last[i]
  BY <1>1, <1>3 DEF TypeOK, Live
<1>5. [Wire!Next]_last
  BY <1>4 DEF Wire!Next
<1>6. TypeOK'
  BY <1>1, <1>2, <1>4 DEF TypeOK
<1>7. OneRunPerEntry'
  BY <1>1, <1>2 DEF OneRunPerEntry
<1>8. LiveMatch'
  BY <1>1, <1>2, <1>4 DEF LiveMatch, Matches
<1>9. AskedFresh'
  BY <1>1, <1>2 DEF AskedFresh
<1>10. ClosedMeansTold'
  BY <1>1, <1>2 DEF ClosedMeansTold, Wire!Nothing
<1>11. QED
  BY <1>5, <1>6, <1>7, <1>8, <1>9, <1>10 DEF IInv

(***************************************************************************)
(* failAll(): the registry is emptied, with or without a last word.        *)
(***************************************************************************)
LEMMA FailAllKeeps ==
  ASSUME IInv, live' = [id \in Ids |-> NoRun], asked' = {}, link' = "down", run' = run,
         refused' = {}, buffered' \in Nat, last' = last \/ Stop
  PROVE  IInv' /\ [Wire!Next]_last
<1>1. TypeOK /\ OneRunPerEntry /\ LiveMatch /\ AskedFresh /\ ClosedMeansTold
  BY DEF IInv
<1>2. Busy' = Busy /\ Live' = {}
  BY DEF Busy, Live
<1>3. \A id \in Ids : last'[id] = last[id]
                      \/ (last'[id] \in Wire!Frame /\ last'[id] \in Wire!Follows(last[id]))
  <2>1. CASE last' = last
    BY <2>1
  <2>2. ASSUME Stop, NEW id \in Ids
        PROVE  last'[id] = last[id]
               \/ (last'[id] \in Wire!Frame /\ last'[id] \in Wire!Follows(last[id]))
    <3>1. \/ last'[id] = last[id]
          \/ id \in Live /\ last'[id] = [type |-> "error", n |-> Delivered(live[id])]
      BY <2>2 DEF Stop
    <3>2. QED
      BY <3>1, TerminalFrame
  <2>3. QED
    BY <2>1, <2>2
<1>4. last' \in [Ids -> Wire!Frame]
  <2>1. last' = [id \in Ids |-> last'[id]]
    BY <1>1 DEF TypeOK, Stop
  <2>2. \A id \in Ids : last'[id] \in Wire!Frame
    BY <1>1, <1>3 DEF TypeOK
  <2>3. QED
    BY <2>1, <2>2
<1>5. [Wire!Next]_last
  BY <1>3, <1>4 DEF Wire!Next
<1>6. Cardinality(Live') <= MaxStreams
  BY <1>1, <1>2, NoMoreLive
<1>7. TypeOK'
  BY <1>1, <1>2, <1>4, <1>6 DEF TypeOK
<1>8. OneRunPerEntry' /\ LiveMatch' /\ AskedFresh' /\ ClosedMeansTold'
  BY <1>1, <1>2 DEF OneRunPerEntry, LiveMatch, AskedFresh, ClosedMeansTold, TypeOK
<1>9. QED
  BY <1>5, <1>7, <1>8 DEF IInv

(***************************************************************************)
(* stream.open: asked for, refused, admitted.                              *)
(***************************************************************************)
LEMMA AskKeeps ==
  ASSUME FreshIds, IInv, NEW id \in Ids, Ask(id)
  PROVE  IInv' /\ [Wire!Next]_last
<1> DEFINE f == [type |-> "open", n |-> 0]
<1>1. TypeOK /\ OneRunPerEntry /\ LiveMatch /\ AskedFresh /\ ClosedMeansTold
  BY DEF IInv
<1>2. Busy' = Busy /\ Live' = Live
  BY DEF Ask, Busy, Live
<1>3. f \in Wire!Frame /\ f \in Wire!Follows(last[id])
  BY PoolAssumption DEF Ask, Wire!Frame, Wire!Follows
<1>4. Wire!Next
  BY <1>1, <1>3, OneFrame DEF Ask
<1>5. \A r \in Busy : run[r].id # id
  BY DEF Ask
<1>6. id \notin Live
  BY <1>1, <1>5 DEF OneRunPerEntry
<1>7. /\ last' \in [Ids -> Wire!Frame] /\ last'[id] = f
      /\ \A i \in Ids \ {id} : last'[i] = last[i]
  BY <1>1, <1>3 DEF Ask, TypeOK
<1>8. asked' = asked \cup {id} /\ link' = link /\ link # "down"
      /\ live' = live /\ run' = run /\ buffered' = buffered /\ refused' = refused
  BY DEF Ask
<1> HIDE DEF f
<1>9. TypeOK'
  BY <1>1, <1>2, <1>7, <1>8 DEF TypeOK
<1>10. OneRunPerEntry'
  BY <1>1, <1>2, <1>8 DEF OneRunPerEntry
<1>11. LiveMatch'
  BY <1>1, <1>2, <1>6, <1>7, <1>8 DEF LiveMatch, Matches, Live
<1>12. AskedFresh'
  BY <1>1, <1>2, <1>5, <1>7, <1>8 DEF AskedFresh, TypeOK, f
<1>13. ClosedMeansTold'
  BY <1>1, <1>2, <1>7, <1>8 DEF ClosedMeansTold
<1>14. QED
  BY <1>4, <1>9, <1>10, <1>11, <1>12, <1>13 DEF IInv

LEMMA RefuseKeeps ==
  ASSUME IInv, NEW id \in Ids, RefuseOpen(id)
  PROVE  IInv' /\ [Wire!Next]_last
<1> DEFINE f == [type |-> "error", n |-> 0]
<1>1. TypeOK /\ OneRunPerEntry /\ LiveMatch /\ AskedFresh /\ ClosedMeansTold
  BY DEF IInv
<1>2. Busy' = Busy /\ Live' = Live
  BY DEF RefuseOpen, Busy, Live
<1>3. f \in Wire!Frame /\ f \in Wire!Follows(last[id])
  BY <1>1, PoolAssumption DEF RefuseOpen, AskedFresh, Wire!Frame, Wire!Follows
<1>4. [Wire!Next]_last
  BY <1>1, <1>3, OneFrame DEF RefuseOpen, Tell, Carry
<1>5. id \notin Live
  BY <1>1 DEF RefuseOpen, AskedFresh, OneRunPerEntry
<1>6. f.type = "error"
  OBVIOUS
<1> HIDE DEF f
<1>7. /\ last' \in [Ids -> Wire!Frame]
      /\ link = "open" => last'[id] = f \/ id \in refused'
      /\ \A i \in Ids \ {id} : last'[i] = last[i]
      /\ refused' \in SUBSET Ids /\ refused \subseteq refused'
  BY <1>1, <1>3 DEF RefuseOpen, Tell, Carry, TypeOK, f
<1>8. asked' = asked \ {id} /\ link' = link /\ link # "down"
      /\ live' = live /\ run' = run /\ buffered' = buffered
  BY DEF RefuseOpen
<1>9. TypeOK'
  BY <1>1, <1>2, <1>7, <1>8 DEF TypeOK
<1>10. OneRunPerEntry'
  BY <1>1, <1>2, <1>8 DEF OneRunPerEntry
<1>11. LiveMatch'
  BY <1>1, <1>2, <1>5, <1>7, <1>8 DEF LiveMatch, Matches, Live
<1>12. AskedFresh'
  BY <1>1, <1>2, <1>7, <1>8 DEF AskedFresh, TypeOK
<1>13. ClosedMeansTold'
  BY <1>1, <1>2, <1>6, <1>7, <1>8 DEF ClosedMeansTold
<1>14. QED
  BY <1>4, <1>9, <1>10, <1>11, <1>12, <1>13 DEF IInv

LEMMA AdmitKeeps ==
  ASSUME IInv, NEW id \in Ids, AdmitOpen(id)
  PROVE  IInv' /\ [Wire!Next]_last
<1>1. TypeOK /\ OneRunPerEntry /\ LiveMatch /\ AskedFresh /\ ClosedMeansTold
  BY DEF IInv
<1>2. NewRun \in Runs /\ NewRun \notin Busy /\ NewRun # NoRun
  BY PoolAssumption DEF AdmitOpen, NewRun, Unused
<1> DEFINE rec == [id |-> id, at |-> "opening", entry |-> NewRun,
                   n |-> 0, seq |-> 0, count |-> 0]
<1>3. rec \in Run
  BY <1>2, PoolAssumption DEF Run
<1>4. /\ Busy' = Busy \cup {NewRun}
      /\ run'[NewRun] = rec
      /\ \A r \in Busy : run'[r] = run[r]
      /\ run' = [r \in Busy' |-> run'[r]]
  BY <1>2 DEF AdmitOpen, Busy
<1>5. /\ live' \in [Ids -> Runs \cup {NoRun}] /\ live'[id] = NewRun
      /\ \A i \in Ids \ {id} : live'[i] = live[i]
      /\ live[id] = NoRun /\ Cardinality(Live) < MaxStreams
      /\ id \in asked /\ asked' = asked \ {id}
      /\ link' = link /\ last' = last /\ buffered' = buffered /\ refused' = refused
  BY <1>1, <1>2 DEF AdmitOpen, Admissible, TypeOK
<1>6. Live' = Live \cup {id} /\ id \notin Live
  BY <1>2, <1>5 DEF Live
<1>7. /\ rec.id = id /\ rec.entry = NewRun /\ rec.at = "opening"
      /\ rec.seq = 0 /\ rec.count = 0
  OBVIOUS
<1>8. /\ last[id] = [type |-> "open", n |-> 0]
      /\ \A r \in Busy : run[r].id # id
  BY <1>1, <1>5 DEF AskedFresh
<1>9. Matches(rec, last[id])
  BY <1>7, <1>8 DEF Matches
<1> HIDE DEF rec
<1>10. TypeOK'
  <2>1. Cardinality(Live') <= MaxStreams
    BY <1>1, <1>5, <1>6, OneMoreLive
  <2>2. run' \in [Busy' -> Run]
    BY <1>1, <1>3, <1>4 DEF TypeOK, Run
  <2>3. QED
    BY <1>1, <1>2, <1>4, <1>5, <2>1, <2>2 DEF TypeOK, Run
<1>11. OneRunPerEntry'
  <2>1. ASSUME NEW i \in Live'
        PROVE  live'[i] \in Busy' /\ run'[live'[i]].id = i
    <3>1. CASE i = id
      BY <1>4, <1>5, <1>7, <3>1
    <3>2. CASE i # id
      BY <1>1, <1>4, <1>5, <1>6, <3>2 DEF OneRunPerEntry, Live
    <3>3. QED
      BY <3>1, <3>2
  <2>2. ASSUME NEW r \in Busy'
        PROVE  run'[r].entry = r /\ live'[run'[r].id] \in {r, NoRun}
    <3>1. CASE r = NewRun
      BY <1>4, <1>5, <1>7, <3>1
    <3>2. CASE r # NewRun
      <4>1. r \in Busy /\ run'[r] = run[r] /\ run[r].id # id /\ run[r].id \in Ids
        BY <1>1, <1>4, <1>8, <3>2 DEF TypeOK
      <4>2. QED
        BY <1>1, <1>5, <4>1 DEF OneRunPerEntry
    <3>3. QED
      BY <3>1, <3>2
  <2>3. QED
    BY <2>1, <2>2 DEF OneRunPerEntry
<1>12. LiveMatch'
  <2> SUFFICES ASSUME NEW i \in Live' PROVE Matches(run'[live'[i]], last'[i])
    BY DEF LiveMatch, Matches
  <2>1. CASE i = id
    BY <1>4, <1>5, <1>9, <2>1
  <2>2. CASE i # id
    <3>1. i \in Live /\ live'[i] = live[i] /\ live[i] \in Busy
      BY <1>1, <1>5, <1>6, <2>2 DEF OneRunPerEntry, Live
    <3>2. QED
      BY <1>1, <1>4, <1>5, <3>1 DEF LiveMatch
  <2>3. QED
    BY <2>1, <2>2
<1>13. AskedFresh'
  <2> SUFFICES ASSUME NEW i \in asked \ {id}
               PROVE  /\ link # "down" /\ last[i] = [type |-> "open", n |-> 0]
                      /\ \A r \in Busy' : run'[r].id # i
    BY <1>5 DEF AskedFresh
  <2>1. /\ link # "down" /\ last[i] = [type |-> "open", n |-> 0]
        /\ \A r \in Busy : run[r].id # i
    BY <1>1 DEF AskedFresh
  <2>2. QED
    BY <1>4, <1>7, <2>1
<1>14. ClosedMeansTold'
  BY <1>1, <1>5, <1>6 DEF ClosedMeansTold
<1>15. QED
  BY <1>5, <1>10, <1>11, <1>12, <1>13, <1>14 DEF IInv

(***************************************************************************)
(* The end of a run, with or without a word about its id.                  *)
(***************************************************************************)
LEMMA EndRunKeeps ==
  ASSUME IInv, NEW r \in Busy, NEW type \in {"end", "error"}, EndRun(r, type),
         type = "end" => run[r].at # "opening"
  PROVE  IInv' /\ [Wire!Next]_last
<1>1. TypeOK /\ OneRunPerEntry
  BY DEF IInv
<1>2. run[r].id \in Ids /\ buffered \in Nat
  BY <1>1 DEF TypeOK
<1>3. run[r].id \in Live => live[run[r].id] = r
  BY <1>1, Holder
<1>4. run' = [q \in Busy \ {r} |-> run[q]]
  BY DEF EndRun, Leave
<1>5. Terminate(run[r].id, type) /\ UNCHANGED <<link, asked, buffered>>
  BY DEF EndRun
<1> DEFINE gone == {r}
<1>6. gone \in SUBSET Busy /\ \A q \in gone : run[q].id = run[r].id
  OBVIOUS
<1>7. run' = [q \in Busy \ gone |-> run[q]]
  BY <1>4
<1> HIDE DEF gone
<1>8. QED
  BY <1>2, <1>3, <1>5, <1>6, <1>7, TerminateKeeps

LEMMA QuitRunKeeps ==
  ASSUME IInv, NEW r \in Busy, QuitRun(r), r \notin Entries
  PROVE  IInv' /\ [Wire!Next]_last
<1>1. TypeOK /\ OneRunPerEntry
  BY DEF IInv
<1>2. run[r].id \in Ids /\ buffered \in Nat
  BY <1>1 DEF TypeOK
<1>3. run[r].id \notin Live /\ live[run[r].id] = NoRun
  BY <1>1, Holder
<1>4. Removed(run[r].id) = live
  BY <1>1, <1>2, <1>3 DEF Removed, TypeOK
<1>5. Terminate(run[r].id, "error") /\ UNCHANGED <<link, asked, buffered>>
  BY <1>3, <1>4 DEF QuitRun, Terminate
<1> DEFINE gone == {r}
<1>6. gone \in SUBSET Busy /\ \A q \in gone : run[q].id = run[r].id
  OBVIOUS
<1>7. run' = [q \in Busy \ gone |-> run[q]]
  BY DEF QuitRun, Leave
<1> HIDE DEF gone
<1>8. QED
  BY <1>2, <1>3, <1>5, <1>6, <1>7, TerminateKeeps
(***************************************************************************)
(* The steps of a run, each up to its next await.                          *)
(***************************************************************************)
LEMMA SourceOpensKeeps ==
  ASSUME IInv, NEW r \in Runs, SourceOpens(r)
  PROVE  IInv' /\ [Wire!Next]_last
<1>1. TypeOK /\ OneRunPerEntry /\ LiveMatch
  BY DEF IInv
<1>2. r \in Busy /\ run[r].at = "opening"
  BY DEF SourceOpens, At
<1>3. /\ run[r] \in Run /\ run[r].entry = r /\ run[r].id \in Ids
      /\ run[r].id \in Live => live[run[r].id] = r
  BY <1>1, <1>2, Holder DEF Run
<1>4. CASE ~EndRun(r, "error")
  <2> DEFINE rec == [run[r] EXCEPT !.at = "pulling", !.entry = r]
             f == [type |-> "ready", n |-> 0]
  <2>0. run[r].id \in Live
    BY <1>4 DEF SourceOpens
  <2>1. Matches(run[r], last[run[r].id])
    BY <1>1, <1>3, <2>0 DEF LiveMatch
  <2>2. last[run[r].id] = [type |-> "open", n |-> 0] /\ run[r].seq = 0 /\ run[r].count = 0
    BY <1>2, <2>1 DEF Matches
  <2>3. /\ rec \in Run /\ rec.id = run[r].id /\ rec.entry = r /\ rec.at = "pulling"
        /\ rec.seq = 0 /\ rec.count = 0
    BY <1>2, <1>3, <2>2 DEF Run
  <2>4. f \in Wire!Frame /\ f \in Wire!Follows(last[run[r].id])
        /\ f.type = "ready" /\ f.n = 0
    BY <2>2, PoolAssumption DEF Wire!Frame, Wire!Follows
  <2>5. run' = [run EXCEPT ![r] = rec]
    BY <1>1, <1>2, <1>3, <1>4, <2>0 DEF SourceOpens, TypeOK
  <2>6. /\ last' = [last EXCEPT ![run[r].id] = f]
        /\ UNCHANGED <<link, live, asked, refused>> /\ buffered' \in Nat
    BY <1>1, <1>4 DEF SourceOpens, Carry, TypeOK
  <2> HIDE DEF rec, f
  <2>7. Matches(rec, f)
    BY <2>3, <2>4 DEF Matches
  <2>8. QED
    BY <1>2, <1>3, <2>0, <2>3, <2>4, <2>5, <2>6, <2>7, RunStepKeeps
<1>5. CASE EndRun(r, "error")
  BY <1>2, <1>5, EndRunKeeps
<1>6. QED
  BY <1>4, <1>5

LEMMA YieldKeeps ==
  ASSUME IInv, NEW r \in Runs, Yield(r)
  PROVE  IInv' /\ [Wire!Next]_last
<1>1. TypeOK /\ OneRunPerEntry /\ LiveMatch
  BY DEF IInv
<1>2. r \in Busy /\ run[r].at = "pulling"
  BY DEF Yield, At
<1>3. /\ run[r] \in Run /\ run[r].entry = r /\ run[r].id \in Ids
      /\ r \in Entries <=> live[run[r].id] = r
  BY <1>1, <1>2, Holder DEF Run
<1>4. CASE r \notin Entries
  BY <1>2, <1>3, <1>4, QuitRunKeeps DEF Yield
<1>5. CASE r \in Entries /\ EndRun(r, "error")
  BY <1>2, <1>5, EndRunKeeps
<1>6. CASE r \in Entries /\ ~EndRun(r, "error")
  <2> DEFINE place == IF BelowMark THEN "drained" ELSE "draining"
             rec == [run[r] EXCEPT !.seq = @ + 1, !.n = run[r].seq + 1, !.at = place]
  <2>1. run[r].seq < MaxValues /\ UNCHANGED <<link, live, buffered, asked, last, refused>>
        /\ run' = [run EXCEPT ![r].seq = @ + 1, ![r].n = run[r].seq + 1, ![r].at = place]
    BY <1>3, <1>6 DEF Yield
  <2>2. run[r].id \in Live /\ live[run[r].id] = r
    BY <1>3, <1>6, PoolAssumption DEF Live
  <2>3. Matches(run[r], last[run[r].id])
    BY <1>1, <2>2 DEF LiveMatch
  <2>4. run' = [run EXCEPT ![r] = rec]
    BY <1>1, <1>2, <2>1 DEF TypeOK
  <2>5. place \in {"drained", "draining"}
    OBVIOUS
  <2> HIDE DEF place
  <2>6. /\ rec \in Run /\ rec.id = run[r].id /\ rec.entry = r /\ rec.at = place
        /\ rec.count = run[r].count /\ rec.seq = run[r].seq + 1 /\ rec.n = rec.seq
    <3> DEFINE k == run[r].seq + 1
    <3>1. run[r].seq \in 0..MaxValues
      BY <1>3 DEF Run
    <3>2. k \in 0..MaxValues
      BY <2>1, <3>1, PoolAssumption
    <3>3. place \in {"opening", "pulling", "draining", "drained"}
      BY <2>5
    <3> HIDE DEF k
    <3>4. rec = [run[r] EXCEPT !.seq = k, !.n = k, !.at = place]
      BY DEF k
    <3> HIDE DEF rec
    <3>5. /\ rec \in Run /\ rec.id = run[r].id /\ rec.entry = r /\ rec.at = place
          /\ rec.count = run[r].count /\ rec.seq = k /\ rec.n = k
      BY <1>3, <3>2, <3>3, <3>4 DEF Run
    <3>6. QED
      BY <3>5 DEF k
  <2>7. Matches(rec, last[run[r].id])
    BY <1>2, <2>3, <2>5, <2>6 DEF Matches
  <2>8. last[run[r].id] \in Wire!Frame /\ buffered' \in Nat
    BY <1>1, <1>3, <2>1 DEF TypeOK
  <2> HIDE DEF rec
  <2>9. QED
    BY <1>2, <2>1, <2>4, <2>6, <2>7, <2>8, RunStepKeeps
<1>7. QED
  BY <1>4, <1>5, <1>6

LEMMA DrainEndsKeeps ==
  ASSUME IInv, NEW r \in Runs, DrainEnds(r)
  PROVE  IInv' /\ [Wire!Next]_last
<1>1. TypeOK /\ OneRunPerEntry /\ LiveMatch
  BY DEF IInv
<1>2. r \in Busy /\ run[r].at = "draining"
  BY DEF DrainEnds, At
<1>3. /\ run[r] \in Run /\ run[r].entry = r /\ run[r].id \in Ids /\ r # NoRun
  BY <1>1, <1>2, Holder, PoolAssumption DEF Run
<1>4. CASE EndRun(r, "error")
  BY <1>2, <1>4, EndRunKeeps
<1>5. CASE ~EndRun(r, "error")
  <2> DEFINE rec == [run[r] EXCEPT !.at = "drained"]
  <2>1. /\ UNCHANGED <<link, live, buffered, asked, last, refused>>
        /\ run' = [run EXCEPT ![r] = rec]
    BY <1>1, <1>2, <1>5 DEF DrainEnds, TypeOK
  <2>2. /\ rec \in Run /\ rec.id = run[r].id /\ rec.entry = r /\ rec.at = "drained"
        /\ rec.count = run[r].count /\ rec.seq = run[r].seq /\ rec.n = run[r].n
    BY <1>2, <1>3 DEF Run
  <2>3. live[run[r].id] = r => Matches(rec, last[run[r].id])
    <3>1. live[run[r].id] = r => Matches(run[r], last[run[r].id])
      BY <1>1, <1>3 DEF LiveMatch, Live
    <3> HIDE DEF rec
    <3>2. QED
      BY <1>2, <2>2, <3>1 DEF Matches
  <2>4. last[run[r].id] \in Wire!Frame /\ buffered' \in Nat
    BY <1>1, <1>3, <2>1 DEF TypeOK
  <2> HIDE DEF rec
  <2>5. QED
    BY <1>2, <2>1, <2>2, <2>3, <2>4, RunStepKeeps
<1>6. QED
  BY <1>4, <1>5

LEMMA SendKeeps ==
  ASSUME IInv, NEW r \in Runs, Send(r)
  PROVE  IInv' /\ [Wire!Next]_last
<1>1. TypeOK /\ OneRunPerEntry /\ LiveMatch
  BY DEF IInv
<1>2. r \in Busy /\ run[r].at = "drained"
  BY DEF Send, At
<1>3. /\ run[r] \in Run /\ run[r].entry = r /\ run[r].id \in Ids
      /\ r \in Entries <=> live[run[r].id] = r
  BY <1>1, <1>2, Holder DEF Run
<1>4. CASE r \notin Entries
  BY <1>2, <1>3, <1>4, QuitRunKeeps DEF Send
<1>5. CASE EndRun(r, "error")
  BY <1>2, <1>5, EndRunKeeps
<1>6. CASE r \in Entries /\ ~EndRun(r, "error")
  <2> DEFINE rec == [run[r] EXCEPT !.count = @ + 1, !.at = "pulling"]
             f == [type |-> "data", n |-> run[r].n]
  <2>1. run[r].id \in Live /\ live[run[r].id] = r
    BY <1>3, <1>6, PoolAssumption DEF Live
  <2>2. Matches(run[r], last[run[r].id])
    BY <1>1, <2>1 DEF LiveMatch
  <2>3. /\ last[run[r].id].type \in {"ready", "data"}
        /\ last[run[r].id].n = run[r].count
        /\ run[r].n = run[r].count + 1 /\ run[r].seq = run[r].n
    BY <1>2, <2>2 DEF Matches
  <2>4. /\ f \in Wire!Frame /\ f \in Wire!Follows(last[run[r].id])
        /\ f.type = "data" /\ f.n = run[r].count + 1
    BY <1>3, <2>3 DEF Wire!Frame, Wire!Follows, Run
  <2>5. /\ UNCHANGED <<link, live, asked, refused>> /\ buffered' \in Nat
        /\ last' = [last EXCEPT ![run[r].id] = f]
        /\ run' = [run EXCEPT ![r].count = @ + 1, ![r].at = "pulling"]
    BY <1>1, <1>3, <1>6 DEF Send, Carry, TypeOK
  <2>6. run' = [run EXCEPT ![r] = rec]
    BY <1>1, <1>2, <2>5 DEF TypeOK
  <2>7. /\ rec \in Run /\ rec.id = run[r].id /\ rec.entry = r /\ rec.at = "pulling"
        /\ rec.count = run[r].count + 1 /\ rec.seq = run[r].seq
    BY <1>2, <1>3, <2>3 DEF Run
  <2> HIDE DEF rec, f
  <2>8. Matches(rec, f)
    BY <2>3, <2>4, <2>7 DEF Matches
  <2>9. QED
    BY <1>2, <2>1, <2>4, <2>5, <2>6, <2>7, <2>8, RunStepKeeps
<1>7. QED
  BY <1>4, <1>5, <1>6

LEMMA SourceStopsKeeps ==
  ASSUME IInv, NEW r \in Runs, SourceRejects(r) \/ SourceEnds(r) \/ SourceThrows(r)
  PROVE  IInv' /\ [Wire!Next]_last
<1>1. TypeOK /\ OneRunPerEntry
  BY DEF IInv
<1>2. r \in Busy
  BY DEF SourceRejects, SourceEnds, SourceThrows, At
<1>3. run[r].entry = r
  BY <1>1, <1>2, Holder
<1>4. CASE SourceRejects(r)
  BY <1>2, <1>4, EndRunKeeps DEF SourceRejects
<1>5. CASE SourceEnds(r)
  <2>1. run[r].at # "opening"
    BY <1>5 DEF SourceEnds, At
  <2>2. QED
    BY <1>2, <1>5, <2>1, EndRunKeeps DEF SourceEnds
<1>6. CASE SourceThrows(r)
  BY <1>2, <1>3, <1>6, EndRunKeeps, QuitRunKeeps DEF SourceThrows
<1>7. QED
  BY <1>4, <1>5, <1>6
(***************************************************************************)
(* Every step keeps the invariant and is a step of the contract.           *)
(***************************************************************************)
LEMMA NextIInv ==
  ASSUME FreshIds
  PROVE  IInv /\ [Next]_vars => IInv' /\ [Wire!Next]_last
<1> SUFFICES ASSUME IInv, [Next]_vars PROVE IInv' /\ [Wire!Next]_last
  OBVIOUS
<1>1. CASE UNCHANGED vars
  BY <1>1 DEF vars, IInv, TypeOK, OneRunPerEntry, LiveMatch, Matches, AskedFresh,
              ClosedMeansTold, Live, Busy
<1>2. TypeOK /\ buffered \in Nat /\ link \in {"down", "open", "closing"}
  BY DEF IInv, TypeOK
<1>3. CASE LinkUp
  <2>1. asked = {}
    BY <1>3 DEF LinkUp, IInv, AskedFresh
  <2>2. QED
    BY <1>3, <2>1, LinkKeeps DEF LinkUp
<1>4. CASE LinkCloses
  BY <1>2, <1>4, LinkKeeps DEF LinkCloses
<1>5. CASE LinkLost
  BY <1>5, FailAllKeeps DEF LinkLost
<1>6. CASE Stop
  <2>1. /\ live' = [id \in Ids |-> NoRun] /\ asked' = {} /\ link' = "down"
        /\ run' = run /\ refused' = {} /\ buffered' \in Nat
    BY <1>6 DEF Stop
  <2>2. QED
    BY <1>6, <2>1, FailAllKeeps
<1>7. CASE ReconnectNow
  BY <1>7, LinkKeeps DEF ReconnectNow
<1>8. CASE Flush
  <2>1. buffered' \in Nat
    BY <1>2, <1>8 DEF Flush
  <2>2. link' # "down" \/ asked' = {}
    BY <1>8 DEF Flush, IInv, AskedFresh
  <2>3. QED
    BY <1>2, <1>8, <2>1, <2>2, LinkKeeps DEF Flush
<1>9. ASSUME NEW id \in Ids, Ask(id) \/ RefuseOpen(id) \/ AdmitOpen(id)
      PROVE  IInv' /\ [Wire!Next]_last
  BY <1>9, AskKeeps, RefuseKeeps, AdmitKeeps
<1>10. ASSUME NEW id \in Ids, Cancel(id)
       PROVE  IInv' /\ [Wire!Next]_last
  <2> DEFINE gone == {}
  <2>1. gone \in SUBSET Busy /\ \A q \in gone : run[q].id = id
    OBVIOUS
  <2>2. run' = [q \in Busy \ gone |-> run[q]]
    BY <1>2, <1>10 DEF Cancel, TypeOK
  <2>3. Terminate(id, "error") /\ UNCHANGED <<link, asked, buffered>>
    BY <1>10 DEF Cancel
  <2> HIDE DEF gone
  <2>4. QED
    BY <1>2, <2>1, <2>2, <2>3, TerminateKeeps
<1>11. ASSUME NEW r \in Runs,
              \/ SourceOpens(r) \/ SourceRejects(r) \/ Yield(r) \/ DrainEnds(r)
              \/ Send(r) \/ SourceEnds(r) \/ SourceThrows(r)
       PROVE  IInv' /\ [Wire!Next]_last
  BY <1>11, SourceOpensKeeps, SourceStopsKeeps, YieldKeeps, DrainEndsKeeps, SendKeeps
<1>12. QED
  BY <1>1, <1>3, <1>4, <1>5, <1>6, <1>7, <1>8, <1>9, <1>10, <1>11 DEF Next

LEMMA Invariant ==
  ASSUME FreshIds PROVE Spec => []IInv
<1>1. IInv /\ [Next]_vars => IInv'
  BY NextIInv
<1>2. QED
  BY InitIInv, <1>1, PTL DEF Spec

-----------------------------------------------------------------------------
(***************************************************************************)
(* Every reachable state is well typed: the numbers of a stream stay in    *)
(* range and StreamManager.live never exceeds maxStreams.                  *)
(***************************************************************************)
THEOREM TypeCorrect ==
  ASSUME FreshIds PROVE Spec => []TypeOK
<1>1. IInv => TypeOK
  BY DEF IInv
<1>2. QED
  BY Invariant, <1>1, PTL

(***************************************************************************)
(* ready(), fail() and end() find by id the entry of their own run or      *)
(* none, for ids that are fresh among the runs under way.                  *)
(***************************************************************************)
THEOREM EntriesHaveRuns ==
  ASSUME FreshIds PROVE Spec => []OneRunPerEntry
<1>1. IInv => OneRunPerEntry
  BY DEF IInv
<1>2. QED
  BY Invariant, <1>1, PTL

(***************************************************************************)
(* On an open link each stream that left the registry has had its terminal *)
(* frame, whichever of end(), fail(), cancel and the refusals closed it,   *)
(* but for those whose terminal frame the transport itself refused.        *)
(***************************************************************************)
THEOREM NoSilentClose ==
  ASSUME FreshIds PROVE Spec => []ClosedMeansTold
<1>1. IInv => ClosedMeansTold
  BY DEF IInv
<1>2. QED
  BY Invariant, <1>1, PTL

(***************************************************************************)
(* The registry and the pump implement the contract of StreamWire: what    *)
(* the Coordinator sees of a stream is an acknowledgement, values numbered *)
(* from 1, and one terminal frame that counts them.                        *)
(***************************************************************************)
THEOREM Implements ==
  ASSUME FreshIds PROVE Spec => WirePromise
<1>1. Init => Wire!Init
  BY DEF Init
<1>2. IInv /\ [Next]_vars => [Wire!Next]_last
  BY NextIInv
<1>3. QED
  BY Invariant, <1>1, <1>2, PTL DEF Spec, WirePromise, Wire!Spec
-----------------------------------------------------------------------------
(***************************************************************************)
(* Memory.  A value past drain() is a frame the transport will hold, so    *)
(* the two are counted together: drain() lets a value through only below   *)
(* the mark, and no stream has more than one in hand.                      *)
(***************************************************************************)
Waiting == {id \in Live : run[live[id]].at = "drained"}

Room == buffered + Cardinality(Waiting) <= HighWater + MaxStreams

LEMMA WaitingFinite ==
  ASSUME TypeOK
  PROVE  /\ IsFiniteSet(Waiting) /\ Cardinality(Waiting) \in Nat
         /\ Cardinality(Waiting) <= MaxStreams
<1>1. Waiting \subseteq Live
  BY DEF Waiting
<1>2. IsFiniteSet(Waiting) /\ Cardinality(Waiting) \in Nat
      /\ Cardinality(Waiting) <= Cardinality(Live) /\ Cardinality(Live) \in Nat
  BY <1>1, LiveFinite
<1>3. QED
  BY <1>2, PoolAssumption DEF TypeOK

LEMMA BelowMarkLeavesRoom ==
  ASSUME TypeOK', buffered' <= HighWater
  PROVE  Room'
<1>1. Waiting' \subseteq Live' /\ IsFiniteSet(Live')
  BY PoolAssumption, FS_Subset DEF Waiting, Live
<1>2. /\ Cardinality(Waiting') \in Nat /\ Cardinality(Live') \in Nat
      /\ Cardinality(Waiting') <= Cardinality(Live')
  BY <1>1, FS_Subset, FS_CardinalityType
<1>3. QED
  BY <1>2, PoolAssumption DEF Room, TypeOK

LEMMA NoMoreWaiting ==
  ASSUME TypeOK, TypeOK', Room, buffered' <= buffered, Waiting' \subseteq Waiting
  PROVE  Room'
<1>1. /\ Cardinality(Waiting') \in Nat /\ Cardinality(Waiting) \in Nat
      /\ Cardinality(Waiting') <= Cardinality(Waiting)
  BY WaitingFinite, FS_Subset, FS_CardinalityType
<1>2. QED
  BY <1>1, PoolAssumption DEF Room, TypeOK

LEMMA LeavingKeepsRoom ==
  ASSUME IInv, IInv', Room, buffered' = buffered,
         \A id \in Ids : live'[id] \in {live[id], NoRun},
         \A r \in Busy' : r \in Busy /\ run'[r] = run[r]
  PROVE  Room'
<1>1. TypeOK /\ TypeOK' /\ OneRunPerEntry'
  BY DEF IInv
<1>2. Waiting' \subseteq Waiting
  BY <1>1 DEF Waiting, Live, OneRunPerEntry
<1>3. QED
  BY <1>1, <1>2, NoMoreWaiting DEF TypeOK

\* A run that goes on without a value past drain().
LEMMA GoingOnKeepsRoom ==
  ASSUME IInv, IInv', Room, buffered' = buffered, live' = live, NEW r \in Busy, Busy' = Busy,
         \A q \in Busy \ {r} : run'[q] = run[q],
         r \in Entries => run'[r].at # "drained"
  PROVE  Room'
<1>1. TypeOK /\ TypeOK' /\ OneRunPerEntry
  BY DEF IInv
<1>2. Waiting' \subseteq Waiting
  BY <1>1 DEF Waiting, Live, Entries, OneRunPerEntry
<1>3. QED
  BY <1>1, <1>2, NoMoreWaiting DEF TypeOK

LEMMA EndKeepsRoom ==
  ASSUME IInv, IInv', Room, NEW r \in Busy,
         QuitRun(r) \/ EndRun(r, "end") \/ EndRun(r, "error")
  PROVE  Room'
<1>1. \A id \in Ids : live'[id] \in {live[id], NoRun}
  BY DEF QuitRun, EndRun, Terminate, Removed, IInv, TypeOK
<1>2. \A q \in Busy' : q \in Busy /\ run'[q] = run[q]
  BY DEF QuitRun, EndRun, Leave, Busy
<1>3. buffered' = buffered
  BY DEF QuitRun, EndRun
<1>4. QED
  BY <1>1, <1>2, <1>3, LeavingKeepsRoom
LEMMA SendKeepsRoom ==
  ASSUME IInv, IInv', Room, NEW r \in Runs, Send(r)
  PROVE  Room'
<1>1. TypeOK /\ TypeOK' /\ OneRunPerEntry
  BY DEF IInv
<1>2. r \in Busy /\ run[r].at = "drained"
  BY DEF Send, At
<1>3. /\ run[r].entry = r /\ run[r].id \in Ids
      /\ r \in Entries <=> live[run[r].id] = r
  BY <1>1, <1>2, Holder DEF Run
<1>4. CASE r \notin Entries \/ EndRun(r, "error")
  BY <1>2, <1>3, <1>4, EndKeepsRoom DEF Send
<1>5. CASE r \in Entries /\ ~EndRun(r, "error")
  <2>1. /\ buffered' = buffered + 1 /\ live' = live
        /\ run' = [run EXCEPT ![r].count = @ + 1, ![r].at = "pulling"]
    BY <1>3, <1>5 DEF Send
  <2>2. run[r].id \in Waiting
    BY <1>2, <1>3, <1>5, PoolAssumption DEF Waiting, Live
  <2>3. run'[r].at = "pulling" /\ \A q \in Busy \ {r} : run'[q] = run[q]
    BY <1>1, <1>2, <2>1 DEF TypeOK
  <2>4. Waiting' \subseteq Waiting \ {run[r].id}
    <3> SUFFICES ASSUME NEW i \in Waiting' PROVE i \in Waiting /\ i # run[r].id
      OBVIOUS
    <3>1. i \in Live /\ run'[live[i]].at = "drained"
      BY <2>1 DEF Waiting, Live
    <3>2. live[i] \in Busy /\ live[i] # r
      BY <1>1, <2>3, <3>1 DEF OneRunPerEntry
    <3>3. i \in Waiting
      BY <2>3, <3>1, <3>2 DEF Waiting
    <3>4. QED
      BY <1>3, <1>5, <3>2, <3>3
  <2>5. /\ IsFiniteSet(Waiting) /\ Cardinality(Waiting) \in Nat
        /\ IsFiniteSet(Waiting \ {run[r].id})
        /\ Cardinality(Waiting \ {run[r].id}) = Cardinality(Waiting) - 1
    BY <1>1, <2>2, WaitingFinite, FS_RemoveElement
  <2>6. /\ Cardinality(Waiting') \in Nat
        /\ Cardinality(Waiting') <= Cardinality(Waiting) - 1
    BY <2>4, <2>5, FS_Subset, FS_CardinalityType
  <2>7. QED
    BY <1>1, <2>1, <2>5, <2>6, PoolAssumption DEF Room, TypeOK
<1>6. QED
  BY <1>4, <1>5

LEMMA RunKeepsRoom ==
  ASSUME IInv, IInv', Room, NEW r \in Runs,
         \/ SourceOpens(r) \/ SourceRejects(r) \/ Yield(r) \/ DrainEnds(r)
         \/ SourceEnds(r) \/ SourceThrows(r)
  PROVE  Room'
<1>1. TypeOK /\ TypeOK' /\ OneRunPerEntry
  BY DEF IInv
<1>2. r \in Busy
  BY DEF SourceOpens, SourceRejects, Yield, DrainEnds, SourceEnds, SourceThrows, At
<1>3. run[r].entry = r
  BY <1>1, <1>2, Holder
<1>4. CASE QuitRun(r) \/ EndRun(r, "end") \/ EndRun(r, "error")
  BY <1>2, <1>4, EndKeepsRoom
<1>5. CASE SourceOpens(r) /\ ~EndRun(r, "error")
  <2>1. /\ buffered' = buffered /\ live' = live
        /\ run' = [run EXCEPT ![r].at = "pulling", ![r].entry = live[run[r].id]]
    BY <1>5 DEF SourceOpens
  <2>2. /\ Busy' = Busy /\ run'[r].at = "pulling"
        /\ \A q \in Busy \ {r} : run'[q] = run[q]
    BY <1>1, <1>2, <2>1 DEF TypeOK, Busy
  <2>3. QED
    BY <1>2, <2>1, <2>2, GoingOnKeepsRoom
<1>6. CASE Yield(r) /\ ~QuitRun(r) /\ ~EndRun(r, "error")
  <2>1. /\ buffered' = buffered /\ live' = live
        /\ run' = [run EXCEPT ![r].seq = @ + 1, ![r].n = run[r].seq + 1,
                              ![r].at = IF BelowMark THEN "drained" ELSE "draining"]
    BY <1>3, <1>6 DEF Yield
  <2>2. CASE BelowMark
    BY <1>1, <2>1, <2>2, BelowMarkLeavesRoom DEF BelowMark
  <2>3. CASE ~BelowMark
    <3>1. /\ Busy' = Busy /\ run'[r].at = "draining"
          /\ \A q \in Busy \ {r} : run'[q] = run[q]
      BY <1>1, <1>2, <2>1, <2>3 DEF TypeOK, Busy
    <3>2. QED
      BY <1>2, <2>1, <3>1, GoingOnKeepsRoom
  <2>4. QED
    BY <2>2, <2>3
<1>7. CASE DrainEnds(r) /\ ~EndRun(r, "error")
  <2>1. /\ buffered' = buffered /\ live' = live
        /\ run' = [run EXCEPT ![r].at = "drained"]
        /\ BelowMark \/ r \notin Entries
    BY <1>3, <1>7 DEF DrainEnds
  <2>2. CASE BelowMark
    BY <1>1, <2>1, <2>2, BelowMarkLeavesRoom DEF BelowMark
  <2>3. CASE r \notin Entries
    <3>1. Busy' = Busy /\ \A q \in Busy \ {r} : run'[q] = run[q]
      BY <1>1, <1>2, <2>1 DEF TypeOK, Busy
    <3>2. QED
      BY <1>2, <2>1, <2>3, <3>1, GoingOnKeepsRoom
  <2>4. QED
    BY <2>1, <2>2, <2>3
<1>8. SourceRejects(r) \/ SourceEnds(r) \/ SourceThrows(r)
      => QuitRun(r) \/ EndRun(r, "end") \/ EndRun(r, "error")
  BY DEF SourceRejects, SourceEnds, SourceThrows
<1>9. QED
  BY <1>4, <1>5, <1>6, <1>7, <1>8

LEMMA NextRoom == IInv /\ IInv' /\ Room /\ [Next]_vars => Room'
<1> SUFFICES ASSUME IInv, IInv', Room, [Next]_vars PROVE Room'
  OBVIOUS
<1>1. TypeOK /\ TypeOK' /\ OneRunPerEntry
  BY DEF IInv
<1>2. CASE LinkUp \/ LinkLost \/ Stop \/ ReconnectNow
  <2>1. buffered' = 0
    BY <1>2 DEF LinkUp, LinkLost, Stop, ReconnectNow
  <2>2. QED
    BY <1>1, <2>1, BelowMarkLeavesRoom, PoolAssumption
<1>3. ASSUME NEW id \in Ids, Ask(id) \/ RefuseOpen(id)
      PROVE  Room'
  <2>1. run' = run /\ live' = live /\ buffered' = buffered
    BY <1>3 DEF Ask, RefuseOpen
  <2>2. Waiting' \subseteq Waiting
    BY <2>1 DEF Waiting, Live
  <2>3. QED
    BY <1>1, <2>1, <2>2, NoMoreWaiting DEF TypeOK
<1>4. ASSUME NEW id \in Ids, AdmitOpen(id)
      PROVE  Room'
  <2>1. /\ buffered' = buffered /\ live' = [live EXCEPT ![id] = NewRun]
        /\ NewRun \notin Busy /\ run'[NewRun].at = "opening"
        /\ \A r \in Busy : run'[r] = run[r]
    BY <1>4 DEF AdmitOpen, NewRun, Unused
  <2>2. Waiting' \subseteq Waiting
    BY <1>1, <2>1 DEF Waiting, Live, OneRunPerEntry, TypeOK
  <2>3. QED
    BY <1>1, <2>1, <2>2, NoMoreWaiting DEF TypeOK
<1>5. ASSUME NEW id \in Ids, Cancel(id)
      PROVE  Room'
  <2>1. /\ buffered' = buffered /\ run' = run
        /\ \A i \in Ids : live'[i] \in {live[i], NoRun}
    BY <1>1, <1>5 DEF Cancel, Terminate, Removed, TypeOK
  <2>2. QED
    BY <2>1, LeavingKeepsRoom DEF Busy
<1>6. CASE UNCHANGED vars \/ LinkCloses \/ Flush
  <2>1. run' = run /\ live' = live /\ buffered' <= buffered
    BY <1>1, <1>6 DEF vars, LinkCloses, Flush, TypeOK
  <2>2. Waiting' \subseteq Waiting
    BY <2>1 DEF Waiting, Live
  <2>3. QED
    BY <1>1, <2>1, <2>2, NoMoreWaiting
<1>7. QED
  BY <1>2, <1>3, <1>4, <1>5, <1>6, SendKeepsRoom, RunKeepsRoom DEF Next

(***************************************************************************)
(* What a slow Coordinator makes the transport hold is bounded by the mark *)
(* and one frame per open stream, whatever the sources yield.              *)
(***************************************************************************)
THEOREM BoundedBuffer ==
  ASSUME FreshIds PROVE Spec => []MemoryBounded
<1>1. Init => Room
  <2> SUFFICES ASSUME Init PROVE Room
    OBVIOUS
  <2>1. Waiting = {}
    BY DEF Init, Waiting, Live
  <2>2. Cardinality(Waiting) = 0
    BY <2>1, FS_EmptySet
  <2>3. QED
    BY <2>2, PoolAssumption DEF Init, Room
<1>2. IInv /\ Room => MemoryBounded
  <2> SUFFICES ASSUME IInv, Room PROVE MemoryBounded
    OBVIOUS
  <2>1. TypeOK /\ Cardinality(Waiting) \in Nat
    BY WaitingFinite DEF IInv
  <2>2. QED
    BY <2>1, PoolAssumption DEF Room, MemoryBounded, TypeOK
<1>3. IInv /\ IInv' /\ Room /\ [Next]_vars => Room'
  BY NextRoom
<1>4. QED
  BY Invariant, <1>1, <1>2, <1>3, PTL DEF Spec
=============================================================================
