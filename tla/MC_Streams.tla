------------------------------ MODULE MC_Streams ------------------------------
(***************************************************************************)
(* Streams on two ids, with runs that outlive their streams.                *)
(***************************************************************************)
EXTENDS Streams

CONSTANTS id1, id2, r1, r2, r3

TwoIds == {id1, id2}
ThreeRuns == {r1, r2, r3}

=============================================================================
