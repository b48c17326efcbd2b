------------------------------ MODULE MCWebPages -------------------------------
(***************************************************************************)
(* A small instance of WebPages: three renders of movements that overlap;  *)
(* two items or locations, one of which a search for "t" finds; an item or *)
(* location with one photo; one article with one order sheet at the        *)
(* dashboard, two tasks at once; two values of each setting, and one the   *)
(* server refuses; one scanner.                                            *)
(***************************************************************************)
EXTENDS WebPages

TFindsOne == [t \in Texts |-> IF t = "" THEN Entries ELSE {"e1"}]
================================================================================
