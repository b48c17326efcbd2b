----------------------------- MODULE MCOrderSheets -----------------------------
(***************************************************************************)
(* Small instances of OrderSheets.                                         *)
(***************************************************************************)
EXTENDS OrderSheets, TLC

\* Clerks are alike and receivers are alike: no action or property tells them apart.
ClerkAndReceiverSymmetry == Permutations(Clerks) \cup Permutations(Receivers)
================================================================================
