------------------------------ MODULE MCCycleCount ------------------------------
(***************************************************************************)
(* Small instances of CycleCount.                                          *)
(***************************************************************************)
EXTENDS CycleCount, TLC

WorkerSymmetry == Permutations(Workers)

\* A count no shelf has, and two it may have.
MinusOneOrOneOrTwo == {-1, 1, 2}

\* Both movements a count can miss.
OneUpOneDown == {-1, 1}
================================================================================
