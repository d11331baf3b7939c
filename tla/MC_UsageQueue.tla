----------------------------- MODULE MC_UsageQueue ----------------------------
(***************************************************************************)
(* The usage queue with two model calls, interrupted, refused and drained.  *)
(***************************************************************************)
EXTENDS UsageQueue

CONSTANTS a1, a2

TwoAttempts == {a1, a2}

=============================================================================
