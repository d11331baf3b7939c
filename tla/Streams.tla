------------------------------- MODULE Streams --------------------------------
(***************************************************************************)
(* Stream Remotes: the registry and pump of src/src/stream-manager.ts and  *)
(* runStream() of src/src/index.ts.                                        *)
(*                                                                         *)
(* A run is one call of runStream() with the entry that open() made for    *)
(* it.  ready(), fail() and end() find the entry by streamId, and pump()   *)
(* does once, when it starts: a run that outlives its entry can reach the  *)
(* entry of a later stream that reuses the id.                             *)
(*                                                                         *)
(* An entry is settled, removed and, but for a normal end, aborted in one  *)
(* step, so that the tests of `settled` and of the signal are Entries.     *)
(***************************************************************************)
EXTENDS FiniteSets, Integers

CONSTANTS
  Ids,          \* streamIds the Coordinator uses
  Runs,         \* pool of runs, each with the entry made for it
  NoRun,        \* no entry
  MaxStreams,   \* maxStreams
  MaxValues,    \* bound: values of one stream
  HighWater,    \* frames that make up maxBufferedBytesPerStream
  FreshIds      \* whether an id is new among all runs, or on its connection only

ASSUME PoolAssumption ==
  /\ MaxStreams \in Nat /\ MaxValues \in Nat /\ HighWater \in Nat
  /\ IsFiniteSet(Ids) /\ IsFiniteSet(Runs) /\ NoRun \notin Runs
  /\ FreshIds \in BOOLEAN

VARIABLES
  link,       \* the connector: isReady ("open"), ready but closing, or neither
  live,       \* StreamManager.live: the entry under each id
  run,        \* of each run under way: the id, where it is suspended, the entry
              \* it pumps, the number of the value in hand, and seq and count of
              \* the entry made for it
  buffered,   \* data frames the transport has not flushed
  asked,      \* ids whose stream.open is on its way
  last,       \* the last frame exchanged on each stream
  refused     \* history: ids whose terminal frame this connection refused to
              \* carry while it was open

vars == <<link, live, run, buffered, asked, last, refused>>

Live == {id \in Ids : live[id] # NoRun}
Entries == {live[id] : id \in Live}
Busy == DOMAIN run
At(where) == {r \in Busy : run[r].at = where}
Wire == INSTANCE StreamWire

\* Runs are interchangeable: a new one takes any that nothing refers to.
Unused == {r \in Runs \ Busy : \A q \in Busy : run[q].entry # r}
NewRun == CHOOSE r \in Unused : TRUE

(***************************************************************************)
(* Every variable keeps its type; the registry holds at most MaxStreams    *)
(* entries.                                                                *)
(***************************************************************************)
TypeOK ==
  /\ link \in {"down", "open", "closing"}
  /\ live \in [Ids -> Runs \cup {NoRun}]
  /\ Cardinality(Live) <= MaxStreams
  /\ Busy \in SUBSET Runs
  /\ run \in [Busy -> [id : Ids, at : {"opening", "pulling", "draining", "drained"},
                       entry : Runs, n : 0..MaxValues, seq : 0..MaxValues,
                       count : 0..MaxValues]]
  /\ buffered \in Nat
  /\ asked \in SUBSET Ids
  /\ last \in [Ids -> Wire!Frame]
  /\ refused \in SUBSET Ids

Init ==
  /\ link = "down"
  /\ live = [id \in Ids |-> NoRun]
  /\ run = [r \in {} |-> NoRun]
  /\ buffered = 0
  /\ asked = {}
  /\ refused = {}
  /\ Wire!Init

-----------------------------------------------------------------------------

\* send() of a frame that an open link carries, ...
Carry(id, type, n) ==
  /\ link = "open"
  /\ last' = [last EXCEPT ![id] = [type |-> type, n |-> n]]
  /\ UNCHANGED refused

\* ... or of a terminal frame, whose fate nobody looks at: it may be too large to
\* encode, or the socket may throw.
Tell(id, type, n) ==
  \/ Carry(id, type, n)
  \/ link = "open" /\ refused' = refused \cup {id} /\ UNCHANGED last
  \/ link # "open" /\ UNCHANGED <<last, refused>>

Leave(r) == [q \in Busy \ {r} |-> run[q]]

\* The registry after a terminal call for an id.
Removed_kept(id) == live
Removed(id) == [live EXCEPT ![id] = NoRun]

\* The count a terminal frame carries.
Delivered_attempted(e) == run[e].seq
Delivered_itself(e) == run[e].count + 1
Delivered(e) == run[e].count

\* end() and fail() by id: terminal, and nothing when no entry is found.
Terminate_silent(id, type) ==
  /\ live' = Removed(id)
  /\ UNCHANGED <<last, refused>>
Terminate(id, type) ==
  /\ live' = Removed(id)
  /\ IF id \in Live THEN Tell(id, type, Delivered(live[id]))
                   ELSE UNCHANGED <<last, refused>>

\* open() admits a free id while there is room.
Admissible(id) == live[id] = NoRun /\ Cardinality(Live) < MaxStreams

\* drain() lets a value through, and gives up at the deadline.
BelowMark_always == TRUE
BelowMark == buffered <= HighWater
Stalled_never(r) == FALSE
Stalled(r) == ~BelowMark /\ run[r].entry \in Entries

-----------------------------------------------------------------------------
(***************************************************************************)
(* The link.  A value past drain() is sent in a microtask, before the      *)
(* socket event that ends or makes a connection.                           *)
(***************************************************************************)

\* On a new connection the Coordinator knows no stream, but those that a
\* reconnectNow() left open go on where they were.
LinkUp ==
  /\ link = "down" /\ At("drained") = {}
  /\ link' = "open"
  /\ buffered' = 0
  /\ last' = [id \in Ids |-> IF id \in Live THEN last[id] ELSE Wire!Nothing]
  /\ UNCHANGED <<live, run, asked, refused>>

\* A close begins, at either end: send() is refused, the state is still ready.
LinkCloses ==
  /\ link = "open"
  /\ link' = "closing"
  /\ UNCHANGED <<live, run, buffered, asked, last, refused>>

\* onDisconnected(): failAll() without frames.
LinkLost ==
  /\ At("drained") = {}
  /\ link' = "down"
  /\ live' = [id \in Ids |-> NoRun]
  /\ buffered' = 0
  /\ asked' = {} /\ refused' = {}
  /\ UNCHANGED <<run, last>>

\* stop() and disconnect(): failAll() with a terminal frame for each stream, as
\* far as the transport takes it, then the connector is stopped.
Stop ==
  /\ link' = "down"
  /\ live' = [id \in Ids |-> NoRun]
  /\ buffered' = 0
  /\ asked' = {} /\ refused' = {}
  /\ \E told \in SUBSET Live :
       last' = [id \in Ids |->
                  IF link = "open" /\ id \in told
                  THEN [type |-> "error", n |-> Delivered(live[id])] ELSE last[id]]
  /\ UNCHANGED run

\* reconnectNow() drops the socket and reports no disconnection.
ReconnectNow ==
  /\ link' = "down"
  /\ buffered' = 0
  /\ asked' = {} /\ refused' = {}
  /\ UNCHANGED <<live, run, last>>

\* The socket writes.
Flush ==
  /\ buffered > 0
  /\ buffered' = buffered - 1
  /\ UNCHANGED <<link, live, run, asked, last, refused>>

-----------------------------------------------------------------------------
(***************************************************************************)
(* Frames of the Coordinator.                                              *)
(***************************************************************************)

\* The Coordinator opens a stream under an id that is closed as it sees it, and
\* that no run still has or that it has not used on this connection.
Ask(id) ==
  /\ link # "down"
  /\ last[id].type \in {"none", "end", "error"}
  /\ IF FreshIds THEN \A r \in Busy : run[r].id # id ELSE last[id].type = "none"
  /\ asked' = asked \cup {id}
  /\ last' = [last EXCEPT ![id] = [type |-> "open", n |-> 0]]
  /\ UNCHANGED <<link, live, run, buffered, refused>>

\* handleStreamOpen(): refused (endpoint, arguments, capability, an id that is
\* open, the limit) with a terminal frame of its own, ...
RefuseOpen(id) ==
  /\ link # "down" /\ id \in asked
  /\ asked' = asked \ {id}
  /\ Tell(id, "error", 0)
  /\ UNCHANGED <<link, live, run, buffered>>

\* ... or admitted; runStream() suspends until the Gateway opens the source.
AdmitOpen(id) ==
  /\ link # "down" /\ id \in asked
  /\ Admissible(id) /\ Unused # {}
  /\ asked' = asked \ {id}
  /\ live' = [live EXCEPT ![id] = NewRun]
  /\ run' = [r \in Busy \cup {NewRun} |->
               IF r = NewRun THEN [id |-> id, at |-> "opening", entry |-> r,
                                   n |-> 0, seq |-> 0, count |-> 0]
                             ELSE run[r]]
  /\ UNCHANGED <<link, buffered, last, refused>>

\* handleStreamCancel() of an open stream.
Cancel(id) ==
  /\ link # "down" /\ id \in Live
  /\ Terminate(id, "error")
  /\ UNCHANGED <<link, run, buffered, asked>>

-----------------------------------------------------------------------------
(***************************************************************************)
(* The runs.                                                               *)
(***************************************************************************)

\* A run ends with fail() or end() of whatever entry its id has now.
EndRun(r, type) ==
  /\ Terminate(run[r].id, type)
  /\ run' = Leave(r)
  /\ UNCHANGED <<link, buffered, asked>>

\* A run returns without a word.
QuitRun(r) ==
  /\ run' = Leave(r)
  /\ UNCHANGED <<link, live, buffered, asked, last, refused>>

\* The Gateway opens the source: ready() is carried and pump() starts, or ready()
\* returns false and the run fails the stream.
SourceOpens(r) ==
  /\ r \in At("opening")
  /\ \/ /\ run[r].id \in Live /\ Carry(run[r].id, "ready", 0)
        /\ run' = [run EXCEPT ![r].at = "pulling", ![r].entry = live[run[r].id]]
        /\ UNCHANGED <<link, live, buffered, asked>>
     \/ EndRun(r, "error")

\* It rejects, or there is no Gateway.
SourceRejects(r) == r \in At("opening") /\ EndRun(r, "error")

\* The source yields: pumpOne() numbers the value and waits for the transport,
\* or fails the stream because the value cannot be sent.
Yield(r) ==
  LET e == run[r].entry IN
  /\ r \in At("pulling")
  /\ IF e \in Entries
     THEN /\ run[e].seq < MaxValues
          /\ \/ /\ run' = [run EXCEPT ![e].seq = @ + 1, ![r].n = run[e].seq + 1,
                                      ![r].at = IF BelowMark THEN "drained" ELSE "draining"]
                /\ UNCHANGED <<link, live, buffered, asked, last, refused>>
             \/ EndRun(r, "error")
     ELSE QuitRun(r)

\* drain() ends its wait: the transport has caught up, the stream is settled,
\* or the deadline has passed.
DrainEnds(r) ==
  /\ r \in At("draining")
  /\ \/ /\ BelowMark \/ run[r].entry \notin Entries
        /\ run' = [run EXCEPT ![r].at = "drained"]
        /\ UNCHANGED <<link, live, buffered, asked, last, refused>>
     \/ Stalled(r) /\ EndRun(r, "error")

\* The rest of pumpOne(), after the await on drain(): send() returns true, or
\* false, for which the stream is failed.
Send(r) ==
  LET e == run[r].entry IN
  /\ r \in At("drained")
  /\ IF e \notin Entries THEN QuitRun(r)
     ELSE \/ /\ Carry(run[r].id, "data", run[r].n)
             /\ run' = [run EXCEPT ![e].count = @ + 1, ![r].at = "pulling"]
             /\ buffered' = buffered + 1
             /\ UNCHANGED <<link, live, asked>>
          \/ EndRun(r, "error")

\* The source is exhausted: end(), whether or not this stream was settled.
SourceEnds(r) == r \in At("pulling") /\ EndRun(r, "end")

\* The source throws: a second failure of a settled stream is not reported.
SourceThrows(r) ==
  /\ r \in At("pulling")
  /\ IF run[r].entry \in Entries THEN EndRun(r, "error") ELSE QuitRun(r)

Next ==
  \/ LinkUp \/ LinkCloses \/ LinkLost \/ Stop \/ ReconnectNow \/ Flush
  \/ \E id \in Ids :
       Ask(id) \/ RefuseOpen(id) \/ AdmitOpen(id) \/ Cancel(id)
  \/ \E r \in Runs :
       \/ SourceOpens(r) \/ SourceRejects(r) \/ Yield(r) \/ DrainEnds(r) \/ Send(r)
       \/ SourceEnds(r) \/ SourceThrows(r)

Spec == Init /\ [][Next]_vars

\* The poll of drain() goes on; nothing is assumed of the peer or the sources.
FairSpec == Spec /\ \A r \in Runs : WF_vars(DrainEnds(r))

-----------------------------------------------------------------------------
(***************************************************************************)
(* What the Coordinator sees of a stream is what it was promised.          *)
(***************************************************************************)
WirePromise == Wire!Spec

(***************************************************************************)
(* One run per entry: an open slot is held by the run that was started for *)
(* it, and a run that lost its entry finds no other under its id.          *)
(***************************************************************************)
OneRunPerEntry ==
  /\ \A id \in Live : live[id] \in Busy /\ run[live[id]].id = id
  /\ \A r \in Busy : run[r].entry = r /\ live[run[r].id] \in {r, NoRun}

(***************************************************************************)
(* No stream leaves the registry in silence on an open link: it has had    *)
(* its terminal frame, or that frame was offered and the transport refused *)
(* it, which is the one way to break `exactly one terminal frame`.         *)
(***************************************************************************)
ClosedMeansTold ==
  link = "open" =>
    \A id \in Ids \ (Live \cup asked \cup refused) :
      last[id].type \in {"none", "end", "error"}

(***************************************************************************)
(* A slow Coordinator stops the sources: what waits in the transport stays *)
(* within the mark and one frame per open stream, which is what the await  *)
(* between drain() and send() can let through.                             *)
(***************************************************************************)
MemoryBounded == buffered <= HighWater + MaxStreams

(***************************************************************************)
(* A transport that never drains does not hold a stream for ever.          *)
(***************************************************************************)
StallEnds == \A r \in Runs : r \in At("draining") ~> r \notin At("draining")

=============================================================================
