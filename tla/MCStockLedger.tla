----------------------------- MODULE MCStockLedger -----------------------------
(***************************************************************************)
(* Small instances of StockLedger.                                         *)
(***************************************************************************)
EXTENDS StockLedger, TLC

Move(op, l, t, n, code) ==
  [op |-> op, item |-> 1, loc |-> l, to |-> t, qty |-> n, lot |-> code, exp |-> 0]
UpdateItem(a, t) == [op |-> "updateItem", item |-> 1, active |-> a, track |-> t, qty |-> 0]
OnItem(op, n) == [op |-> op, item |-> 1, active |-> "keep", track |-> "keep", qty |-> n]
OnLocation(op, l, a) == [op |-> op, loc |-> l, active |-> a]

\* Stock that two locations trade while it is adjusted and issued.
StockCalls ==
  {Move("receive", 1, 1, 2, NoLot), Move("issue", 1, 1, 1, NoLot),
   Move("issue", 1, 1, 2, NoLot), Move("transfer", 1, 2, 2, NoLot),
   Move("transfer", 2, 1, 1, NoLot), Move("adjustSet", 1, 1, 1, NoLot),
   Move("adjustDelta", 2, 2, -1, NoLot)}

\* Stock, its on-order marker and the master data it hangs on.
MasterCalls ==
  {Move("receive", 1, 1, 1, NoLot), Move("issue", 1, 1, 1, NoLot),
   Move("transfer", 1, 2, 1, NoLot),
   UpdateItem("no", "keep"), UpdateItem("yes", "lot"),
   OnItem("deleteItem", 0), OnItem("markOnOrder", 2), OnItem("clearOnOrder", 0),
   OnLocation("updateLocation", 1, "no"), OnLocation("updateLocation", 2, "yes"),
   OnLocation("deleteLocation", 2, "keep")}

\* Serial numbers and lots.
LotCalls ==
  {Move("receive", 1, 1, 1, "A"), Move("receive", 2, 2, 1, "A"),
   Move("issue", 1, 1, 1, "A"), Move("transfer", 1, 2, 1, "A"),
   Move("adjustDelta", 2, 2, 1, "A"), Move("adjustSet", 1, 1, 0, "A"),
   [Move("receive", 1, 1, 1, "A") EXCEPT !.exp = 1],
   [Move("receive", 2, 2, 1, "A") EXCEPT !.exp = 2]}

\* Everything at once.
AllCalls == StockCalls \cup MasterCalls \cup LotCalls

\* A lot-tracked item that becomes a serial item once its stock is back at zero.
UpgradeCalls ==
  {Move("receive", 1, 1, 2, "A"), Move("issue", 1, 1, 2, "B"), UpdateItem("keep", "serial")}

\* The requests are interchangeable.
RequestSymmetry == Permutations(Requests)
================================================================================
