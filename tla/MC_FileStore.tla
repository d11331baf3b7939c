----------------------------- MODULE MC_FileStore -----------------------------
(***************************************************************************)
(* The file store with two uploads of two clients and an artifact.          *)
(***************************************************************************)
EXTENDS FileStore

CONSTANTS u1, u2, a1, k1, k2

TwoUploads == {u1, u2}
OneArtifact == {a1}
TwoKeys == {k1, k2}

=============================================================================
