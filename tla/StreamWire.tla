------------------------------ MODULE StreamWire ------------------------------
(***************************************************************************)
(* What the header of src/src/stream-manager.ts and docs/COORDINATOR.md    *)
(* promise about one stream as the Coordinator sees it: an acknowledgement *)
(* before any value, values numbered 1, 2, 3, ..., one terminal frame that *)
(* counts them, and nothing after it.                                      *)
(***************************************************************************)
EXTENDS Integers

CONSTANTS
  Ids,          \* streamIds
  MaxValues     \* bound: values of one stream

VARIABLE last   \* the last frame exchanged on each stream: its type and number

Frame == [type : {"none", "open", "ready", "data", "end", "error"}, n : 0..MaxValues]
Nothing == [type |-> "none", n |-> 0]

\* The frames that may follow frame f.
Follows(f) ==
  CASE f.type \in {"none", "end", "error"} -> {[type |-> "open", n |-> 0]}
    [] f.type = "open" -> {[type |-> t, n |-> 0] : t \in {"ready", "error"}}
    [] f.type \in {"ready", "data"} ->
         {[type |-> "data", n |-> f.n + 1], [type |-> "end", n |-> f.n],
          [type |-> "error", n |-> f.n]}

Init == last = [id \in Ids |-> Nothing]

\* A frame on any of the streams, since a shutdown ends all of them at once, or
\* the loss of the connection a stream was open on.
Next ==
  /\ last' \in [Ids -> Frame]
  /\ \A id \in Ids : last'[id] \in {last[id], Nothing} \cup Follows(last[id])

Spec == Init /\ [][Next]_last
=============================================================================
