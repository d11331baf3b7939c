-------------------------------- MODULE UsageLog -------------------------------
(***************************************************************************)
(* What the usage queue of src/src/usage/store.ts promises in its header:  *)
(* numbers without a hole, a page that can be read again, and no event     *)
(* deleted before the Coordinator has it.  Events are handed over in their *)
(* order, any number of times, and the oldest go first.                    *)
(***************************************************************************)
EXTENDS Integers

VARIABLES
  issued,   \* the number of the last event
  kept,     \* events that can be read
  got       \* events the Coordinator has

Init == issued = 0 /\ kept = {} /\ got = {}

Issue ==
  /\ issued' = issued + 1
  /\ kept' = kept \cup {issued + 1}
  /\ UNCHANGED got

\* All events up to number n have been handed over.
Deliver(n) ==
  /\ got' = got \cup 1..n
  /\ UNCHANGED <<issued, kept>>

Prune(n) ==
  /\ 1..n \subseteq got
  /\ kept' = kept \ 1..n
  /\ UNCHANGED <<issued, got>>

Next == Issue \/ \E n \in 1..issued : Deliver(n) \/ Prune(n)

Spec == Init /\ [][Next]_<<issued, kept, got>>

=============================================================================
