---------------------------- MODULE MC_Connector -----------------------------
(***************************************************************************)
(* Connector on a small pool of sockets.                                   *)
(***************************************************************************)
EXTENDS Connector

CONSTANTS s1, s2, s3

\* Two sockets: a stale one that still closes and the current one.
TwoSockets == {s1, s2}
\* Three: one more, so that two stale ones overlap.
ThreeSockets == {s1, s2, s3}

=============================================================================
