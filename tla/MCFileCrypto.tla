---------------------------- MODULE MCFileCrypto ----------------------------
(***************************************************************************)
(* Small instances of FileCrypto for TLC: a process that encrypts and      *)
(* rewraps and one that decrypts, documents of one and of two chunks.      *)
(***************************************************************************)
EXTENDS FileCrypto, TLC

CONSTANTS p1, p2

MCSize == <<1, 2>>
Sensitive == {{"sensitive"}}

Admin == [role |-> "admin", clearance |-> "high", authenticated |-> TRUE]
Analyst == [role |-> "analyst", clearance |-> "low", authenticated |-> TRUE]
OnlyAdmin == {Admin}
Few == {Admin, Analyst}
=============================================================================
