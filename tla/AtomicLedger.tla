----------------------------- MODULE AtomicLedger -----------------------------
(***************************************************************************)
(* What the ledger promises: every call is one indivisible step on the     *)
(* tables, checked against them as they are, or it changes nothing.  No    *)
(* locks, no stale reads.  StockLedger implements it.                      *)
(***************************************************************************)
EXTENDS LedgerRules

CONSTANTS Requests, StartTracks

VARIABLES answer, call, item, loc, bal, ledger, expiry

tables == <<item, loc, bal, ledger, expiry>>
vars == <<answer, call, tables>>

Init ==
  /\ answer = [r \in Requests |-> "open"]
  /\ call \in [Requests -> Calls]
  /\ item \in [Items -> [status: {"active"}, track: StartTracks, mark: {0}]]
  /\ loc = [l \in Locations |-> "active"]
  /\ bal = [p \in Pairs |-> 0]
  /\ ledger = [p \in Pairs |-> << >>]
  /\ expiry = [p \in Items \X Lots |-> 0]

Answer(r, how) == /\ answer[r] = "open"
                  /\ answer' = [answer EXCEPT ![r] = how]
                  /\ UNCHANGED call

\* The balances of an item, by location.
Before(i) == [l \in Locations |-> bal[<<i, l>>]]

MovementAccepted(c) ==
  /\ WellFormed(c)
  /\ item[c.item].status = "active"
  /\ LotFits(c, item[c.item])
  /\ \A l \in LocationsOf(c) : loc[l] = "active" /\ QtyAccepted(c, l, bal[<<c.item, l>>])
  /\ SerialRoom(c, item[c.item], bal[<<c.item, c.loc>>],
                LotNet(RowsOf(ledger, c.item), c.lot))
  /\ ~ExpiryRefused(c, item[c.item], expiry)

Move(r) ==
  LET c == call[r] IN
  /\ c.op \in MovementOps
  /\ MovementAccepted(c)
  /\ bal' = BalancesPosted(c, Before(c.item), bal)
  /\ ledger' = LedgerPosted(r, c, Before(c.item), ledger)
  /\ item' = ItemsPosted(c, item[c.item], item)
  /\ expiry' = ExpiryPosted(c, item[c.item], expiry)
  /\ UNCHANGED loc
  /\ Answer(r, "done")

ChangeItem(r) ==
  LET c == call[r] IN
  /\ c.op \in ItemOps
  /\ item[c.item].status # "gone"
  /\ ItemCallAccepted(c, item[c.item], bal, ledger)
  /\ item' = [item EXCEPT ![c.item] = ItemAfter(c, @)]
  /\ UNCHANGED <<loc, bal, ledger, expiry>>
  /\ Answer(r, "done")

ChangeLocation(r) ==
  LET c == call[r] IN
  /\ c.op \in LocationOps
  /\ loc[c.loc] # "gone"
  /\ LocationCallAccepted(c, loc[c.loc], bal, ledger)
  /\ loc' = [loc EXCEPT ![c.loc] = LocationAfter(c, @)]
  /\ UNCHANGED <<item, bal, ledger, expiry>>
  /\ Answer(r, "done")

Refuse(r) == Answer(r, "refused") /\ UNCHANGED tables

Next == \E r \in Requests : Move(r) \/ ChangeItem(r) \/ ChangeLocation(r) \/ Refuse(r)

Spec == Init /\ [][Next]_vars
================================================================================
