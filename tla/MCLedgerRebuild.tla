---------------------------- MODULE MCLedgerRebuild ----------------------------
(***************************************************************************)
(* Small instances of LedgerRebuild.                                       *)
(***************************************************************************)
EXTENDS LedgerRebuild

UpAndDown == {-1, 1}
================================================================================
