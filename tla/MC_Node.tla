-------------------------------- MODULE MC_Node --------------------------------
(***************************************************************************)
(* Two requests at a time: one saves a label and gives the panel's token   *)
(* up for the environment's, names a URL that is refused, or disconnects;  *)
(* the other connects.                                                     *)
(* The file starts with a URL, a token and `active`.  One question.        *)
(***************************************************************************)
EXTENDS Node, TLC

CONSTANTS url, bad, token, envToken, label, c1, c2, s1, q1

NoProfile == [url |-> Absent, token |-> Absent, label |-> Absent, odd |-> {}]
OnlyToken == [url |-> Absent, token |-> envToken]
Rename == [url |-> "keep", token |-> "null", label |-> label]
Typo == [url |-> bad, token |-> "keep", label |-> "keep"]
OneEach == (c1 :> {Rename, Typo, [intent |-> "paused"]}) @@ (c2 :> {[intent |-> "active"]})
Saved == {[url |-> url, token |-> token, label |-> Absent, intent |-> "active"]}
OneSession == [q \in {q1} |-> s1]
=============================================================================
