---------------------------- MODULE MCCodeIndex -----------------------------
(* Small instances of CodeIndex for TLC. *)
EXTENDS CodeIndex

OneFile == {1}
Anything == AllOps
=============================================================================
