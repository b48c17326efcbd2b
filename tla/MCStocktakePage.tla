---------------------------- MODULE MCStocktakePage ----------------------------
(***************************************************************************)
(* Small instances of StocktakePage: two pages of lines.                   *)
(***************************************************************************)
EXTENDS StocktakePage, TLC
CONSTANTS l1, l2, l3

TwoPages == l1 :> 0 @@ l2 :> 0 @@ l3 :> 1
AllOne == [l \in Lines |-> 1]
================================================================================
