------------------------------ MODULE MC_Requests -----------------------------
(***************************************************************************)
(* Requests with more ids than slots.                                      *)
(***************************************************************************)
EXTENDS Requests

CONSTANTS id1, id2, id3, r1, r2, r3

ThreeIds == {id1, id2, id3}
TwoIds == {id1, id2}
ThreeRuns == {r1, r2, r3}

=============================================================================
