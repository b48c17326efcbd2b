-------------------------------- MODULE LockPlans --------------------------------
(***************************************************************************)
(* LockOrder with the plans of the code: the row locks each of its         *)
(* transactions takes, in their order.                                     *)
(*                                                                         *)
(* Rows are numbered in the order RowLocking documents: campaigns, items,  *)
(* locations, balances by item and location, and last the lines of a       *)
(* campaign.                                                               *)
(***************************************************************************)
EXTENDS LockOrder, SequencesExt

CONSTANT Width   \* bound: ids are below it

ASSUME WidthAssumption == Width \in Nat \ {0}

CampaignRow(c) == c
ItemRow(i) == Width + i
LocationRow(l) == 2 * Width + l
BalanceRow(i, l) == (3 + i) * Width + l
LineRow(n) == (3 + Width) * Width + n

Shared(x) == [row |-> x, exclusive |-> FALSE]
Exclusive(x) == [row |-> x, exclusive |-> TRUE]
Ascending(ids) == SetToSortSeq(ids, <)
Each(LockOf(_), ids) == [k \in 1..Len(ids) |-> LockOf(ids[k])]

\* Broken variant: rows are locked in the order of the call.
TransferInCallOrder(i, from, to) ==
  <<Shared(ItemRow(i)), Shared(LocationRow(from)), Shared(LocationRow(to)),
    Exclusive(BalanceRow(i, from)), Exclusive(BalanceRow(i, to))>>

\* A movement: item, locations ascending, balances ascending.  A serial item, or a
\* receive while an on-order marker is set, takes the item FOR UPDATE.
Movement(i, places, exclusive) ==
  <<IF exclusive THEN Exclusive(ItemRow(i)) ELSE Shared(ItemRow(i))>>
    \o Each(LAMBDA l : Shared(LocationRow(l)), Ascending(places))
    \o Each(LAMBDA l : Exclusive(BalanceRow(i, l)), Ascending(places))

Transfer(i, from, to) == Movement(i, {from, to}, FALSE)

\* Master data calls, and the creation of a campaign.
ItemCall(i) == <<Exclusive(ItemRow(i))>>
LocationCall(l) == <<Exclusive(LocationRow(l))>>
CampaignCreate(l) == <<Exclusive(LocationRow(l))>>

\* A count of a line, and the close of a campaign, which posts its adjusts at the end.
SetCount(c, n) == <<Exclusive(CampaignRow(c)), Exclusive(LineRow(n))>>

CampaignClose(c, items, l) ==
  <<Exclusive(CampaignRow(c))>>
    \o Each(LAMBDA i : Shared(ItemRow(i)), Ascending(items))
    \o <<Shared(LocationRow(l))>>
    \o Each(LAMBDA i : Exclusive(BalanceRow(i, l)), Ascending(items))
    \o FlattenSeq(Each(LAMBDA i : Movement(i, {l}, FALSE), Ascending(items)))

\* Issues of several items at one location in one transaction: the facade sorts them by
\* item, a kit keeps the order of its lines.
Issues(items, l) == FlattenSeq(Each(LAMBDA i : Movement(i, {l}, FALSE), items))
FacadeIssue(items, l) == Issues(Ascending(items), l)
KitIssue(items, l) == Issues(items, l)

\* markOnOrderBulk locks the items in the order the client lists them.
MarkOnOrderBulk(items) == Each(LAMBDA i : Exclusive(ItemRow(i)), items)

--------------------------------------------------------------------------------
\* Small instances.

\* Transactions that keep the global order.
OrderedPlans ==
  {Movement(1, {1}, FALSE), Movement(2, {1}, TRUE), Transfer(1, 1, 2), Transfer(1, 2, 1),
   ItemCall(1), LocationCall(1), CampaignCreate(2), SetCount(1, 1),
   CampaignClose(1, {1, 2}, 1), MarkOnOrderBulk(<<1, 2>>)}

\* An order of another app and a kit of the same two items.
NestedPlans == {FacadeIssue({1, 2}, 1), KitIssue(<<2, 1>>, 1)}
================================================================================
