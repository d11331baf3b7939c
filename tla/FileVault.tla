------------------------------- MODULE FileVault ------------------------------
(***************************************************************************)
(* What the file store of src/src/files/store.ts promises for the files it *)
(* has taken: invariants 2 and 4 of its header.  A file appears whole or   *)
(* not at all, its bytes go only when they have lapsed, and bytes that are *)
(* gone never return.                                                      *)
(***************************************************************************)
CONSTANT Files

VARIABLES
  vault,    \* each file: "absent", "kept" or "gone"
  lapsed    \* files whose bytes may go

Init == vault = [f \in Files |-> "absent"] /\ lapsed = {}

Keep(f) ==
  /\ vault[f] = "absent"
  /\ vault' = [vault EXCEPT ![f] = "kept"]
  /\ UNCHANGED lapsed

Lapse(f) == lapsed' = lapsed \cup {f} /\ UNCHANGED vault

Drop(f) ==
  /\ vault[f] = "kept"
  /\ lapsed' \in {lapsed, lapsed \cup {f}} /\ f \in lapsed'
  /\ vault' = [vault EXCEPT ![f] = "gone"]

Next == \E f \in Files : Keep(f) \/ Lapse(f) \/ Drop(f)

Spec == Init /\ [][Next]_<<vault, lapsed>>

=============================================================================
