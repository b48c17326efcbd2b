------------------------------ MODULE StockLedger ------------------------------
(***************************************************************************)
(* MovementService, the item and location master services, and the row     *)
(* locks they take, as concurrent database transactions.                   *)
(*                                                                         *)
(* A request is one HTTP call.  It reads the item without a lock, locks    *)
(* the item, the locations and the balance rows one at a time in the order *)
(* RowLocking states, checks, and commits.  Nothing it writes is visible   *)
(* before its commit (READ COMMITTED), so its writes are one step; its     *)
(* reads are the steps at which the code makes them, and what it read is   *)
(* kept in row and seen.  Any error rolls it back and drops its locks.     *)
(*                                                                         *)
(* The order sheets a receive covers are rows no step here reads: module   *)
(* OrderSheets models them.  The stocktake check of a deactivate or delete *)
(* is modelled in CycleCount; here no campaign runs.                       *)
(***************************************************************************)
EXTENDS LedgerRules

CONSTANTS
  Requests,       \* the requests that arrive
  StartTracks     \* the track modes items may be created with

ASSUME StartTracksAssumption == StartTracks \subseteq TrackModes

VARIABLES
  pc,       \* where each request is
  call,     \* what it asks for
  row,      \* the item row it read last
  seen,     \* the balances it read under their locks
  shared,   \* the rows it holds LOCK IN SHARE MODE
  excl,     \* the rows it holds FOR UPDATE
  item,     \* iv_items: status, track mode and on-order marker
  loc,      \* iv_locations: status
  bal,      \* iv_balances: quantity, 0 where no row exists
  ledger,   \* iv_movements, by (item, location) in insertion order
  expiry    \* iv_lots: the expiry on record

request == <<pc, call, row, seen, shared, excl>>
tables == <<item, loc, bal, ledger, expiry>>
vars == <<request, tables>>

ItemRow(i) == <<"item", i, 0>>
LocationRow(l) == <<"location", 0, l>>
BalanceRow(i, l) == <<"balance", i, l>>
LockRows == {ItemRow(i) : i \in Items} \cup {LocationRow(l) : l \in Locations}
              \cup {BalanceRow(i, l) : i \in Items, l \in Locations}

Ended == {"done", "refused"}
PCs == {"new", "item", "locations", "balances", "check", "commit",
        "master", "decide", "write"} \cup Ended

ItemRecord == [status: Statuses, track: TrackModes, mark: Nat]
MovementRow == [delta: Int, after: Int, lot: Lots \cup {NoLot}, by: Requests]

TypeOK ==
  /\ pc \in [Requests -> PCs]
  /\ call \in [Requests -> Calls]
  /\ row \in [Requests -> ItemRecord]
  /\ seen \in [Requests -> [Locations -> Int]]
  /\ shared \in [Requests -> SUBSET LockRows]
  /\ excl \in [Requests -> SUBSET LockRows]
  /\ item \in [Items -> ItemRecord]
  /\ loc \in [Locations -> Statuses]
  /\ bal \in [Pairs -> Int]
  /\ ledger \in [Pairs -> Seq(MovementRow)]
  /\ expiry \in [Items \X Lots -> Expiries \cup {0}]

Fresh == [status |-> "active", track |-> "none", mark |-> 0]

Init ==
  /\ pc = [r \in Requests |-> "new"]
  /\ call \in [Requests -> Calls]
  /\ row = [r \in Requests |-> Fresh]
  /\ seen = [r \in Requests |-> [l \in Locations |-> 0]]
  /\ shared = [r \in Requests |-> {}]
  /\ excl = [r \in Requests |-> {}]
  /\ item \in [Items -> {[Fresh EXCEPT !.track = t] : t \in StartTracks}]
  /\ loc = [l \in Locations |-> "active"]
  /\ bal = [p \in Pairs |-> 0]
  /\ ledger = [p \in Pairs |-> << >>]
  /\ expiry = [p \in Items \X Lots |-> 0]

--------------------------------------------------------------------------------
\* Row locks.  Another request's lock conflicts unless both are shared.
CanShare(r, x) == \A q \in Requests \ {r} : x \notin excl[q]
\* Broken variant: shared locks do not stop an exclusive one.
CanExcludeSharers(r, x) == CanShare(r, x)
CanExclude(r, x) == CanShare(r, x) /\ \A q \in Requests \ {r} : x \notin shared[q]

Share(r, x) == /\ CanShare(r, x)
               /\ shared' = [shared EXCEPT ![r] = @ \cup {x}]
               /\ UNCHANGED excl
Exclude(r, x) == /\ CanExclude(r, x)
                 /\ excl' = [excl EXCEPT ![r] = @ \cup {x}]
                 /\ UNCHANGED shared

\* Commit and rollback both release every lock.
End(r, how) == /\ pc' = [pc EXCEPT ![r] = how]
               /\ shared' = [shared EXCEPT ![r] = {}]
               /\ excl' = [excl EXCEPT ![r] = {}]
               /\ UNCHANGED <<call, row, seen>>

Refuse(r) == End(r, "refused") /\ UNCHANGED tables

Goto(r, label) == pc' = [pc EXCEPT ![r] = label]

\* An error in any statement, or the death of the PHP worker, rolls back.
Rollback(r) == pc[r] \notin {"new"} \cup Ended /\ Refuse(r)

--------------------------------------------------------------------------------
\* Movements.

\* The checks before the transaction, and the unlocked read of the item.
StartMovement(r) ==
  LET c == call[r] IN
  /\ pc[r] = "new"
  /\ c.op \in MovementOps
  /\ IF WellFormed(c) /\ item[c.item].status # "gone"
       THEN /\ row' = [row EXCEPT ![r] = item[c.item]]
            /\ Goto(r, "item")
            /\ UNCHANGED <<call, seen, shared, excl, tables>>
       ELSE Refuse(r)

\* What lockActiveItemForMovement and enforceTrackMode require of the locked row,
\* exclusive being the strength the unlocked read chose.
ItemUsable(c, locked, exclusive) ==
  /\ locked.status = "active"
  /\ exclusive \/ ~NeedsExclusive(c, locked)
  /\ LotFits(c, locked)

\* Broken variant: the row of the unlocked read is used after the lock is granted.
LockItemKeepingThePeek(r) ==
  LET c == call[r]
      exclusive == NeedsExclusive(c, row[r])
      x == ItemRow(c.item)
  IN
  /\ pc[r] = "item"
  /\ IF exclusive THEN CanExclude(r, x) ELSE CanShare(r, x)
  /\ IF ItemUsable(c, row[r], exclusive)
       THEN /\ IF exclusive THEN Exclude(r, x) ELSE Share(r, x)
            /\ Goto(r, "locations")
            /\ UNCHANGED <<call, row, seen, tables>>
       ELSE Refuse(r)

LockItem(r) ==
  LET c == call[r]
      exclusive == NeedsExclusive(c, row[r])
      x == ItemRow(c.item)
  IN
  /\ pc[r] = "item"
  /\ IF exclusive THEN CanExclude(r, x) ELSE CanShare(r, x)
  /\ IF ItemUsable(c, item[c.item], exclusive)
       THEN /\ IF exclusive THEN Exclude(r, x) ELSE Share(r, x)
            /\ row' = [row EXCEPT ![r] = item[c.item]]
            /\ Goto(r, "locations")
            /\ UNCHANGED <<call, seen, tables>>
       ELSE Refuse(r)

\* The rows of a kind a movement has still to lock, lowest location first.
LocationsLeft(r) == {l \in LocationsOf(call[r]) : LocationRow(l) \notin shared[r]}
BalancesLeft(r) ==
  {l \in LocationsOf(call[r]) : BalanceRow(call[r].item, l) \notin excl[r]}
\* Broken variant: rows are locked in the order the call names them.
NextInCallOrder(r, left) == IF call[r].loc \in left THEN call[r].loc ELSE Min(left)
NextOf(r, left) == Min(left)

\* Broken variant: the location is read without a lock.
LockLocationUnlocked(r) ==
  LET l == NextOf(r, LocationsLeft(r)) IN
  /\ pc[r] = "locations"
  /\ IF loc[l] = "active"
       THEN /\ shared' = [shared EXCEPT ![r] = @ \cup {LocationRow(l)}]
            /\ IF LocationsLeft(r) = {l} THEN Goto(r, "balances") ELSE UNCHANGED pc
            /\ UNCHANGED <<call, row, seen, excl, tables>>
       ELSE Refuse(r)

LockLocation(r) ==
  LET l == NextOf(r, LocationsLeft(r)) IN
  /\ pc[r] = "locations"
  /\ CanShare(r, LocationRow(l))
  /\ IF loc[l] = "active"
       THEN /\ Share(r, LocationRow(l))
            /\ IF LocationsLeft(r) = {l} THEN Goto(r, "balances") ELSE UNCHANGED pc
            /\ UNCHANGED <<call, row, seen, tables>>
       ELSE Refuse(r)

\* Broken variant: the balance is read without FOR UPDATE.
LockBalanceUnlocked(r) ==
  LET l == NextOf(r, BalancesLeft(r))
      i == call[r].item
  IN
  /\ pc[r] = "balances"
  /\ excl' = [excl EXCEPT ![r] = @ \cup {BalanceRow(i, l)}]
  /\ seen' = [seen EXCEPT ![r][l] = bal[<<i, l>>]]
  /\ IF BalancesLeft(r) = {l} THEN Goto(r, "check") ELSE UNCHANGED pc
  /\ UNCHANGED <<call, row, shared, tables>>

LockBalance(r) ==
  LET l == NextOf(r, BalancesLeft(r))
      i == call[r].item
  IN
  /\ pc[r] = "balances"
  /\ Exclude(r, BalanceRow(i, l))
  /\ seen' = [seen EXCEPT ![r][l] = bal[<<i, l>>]]
  /\ IF BalancesLeft(r) = {l} THEN Goto(r, "check") ELSE UNCHANGED pc
  /\ UNCHANGED <<call, row, tables>>

Check(r) ==
  LET c == call[r] IN
  /\ pc[r] = "check"
  /\ IF /\ \A l \in LocationsOf(c) : QtyAccepted(c, l, seen[r][l])
        /\ SerialRoom(c, row[r], seen[r][c.loc], LotNet(RowsOf(ledger, c.item), c.lot))
       THEN /\ Goto(r, "commit")
            /\ UNCHANGED <<call, row, seen, shared, excl, tables>>
       ELSE Refuse(r)

\* The writes of a movement, from what was read under the locks.
Post(r) ==
  /\ bal' = BalancesPosted(call[r], seen[r], bal)
  /\ ledger' = LedgerPosted(r, call[r], seen[r], ledger)
  /\ item' = ItemsPosted(call[r], row[r], item)
  /\ expiry' = ExpiryPosted(call[r], row[r], expiry)
  /\ UNCHANGED loc

\* The lot is read inside the commit step: upsertForReceive waits on the unique
\* key until whoever else writes the lot has committed.
Commit(r) ==
  /\ pc[r] = "commit"
  /\ IF ExpiryRefused(call[r], row[r], expiry)
       THEN Refuse(r)
       ELSE Post(r) /\ End(r, "done")

--------------------------------------------------------------------------------
\* Item and location master data: one exclusive lock, the checks, the write.
MasterRow(c) == IF c.op \in ItemOps THEN ItemRow(c.item) ELSE LocationRow(c.loc)
MasterStatus(c) == IF c.op \in ItemOps THEN item[c.item].status ELSE loc[c.loc]

StartMaster(r) ==
  /\ pc[r] = "new"
  /\ call[r].op \in MasterOps
  /\ Goto(r, "master")
  /\ UNCHANGED <<call, row, seen, shared, excl, tables>>

\* Broken variant: master data takes the shared lock movements take.
LockMasterShared(r) ==
  LET c == call[r] IN
  /\ pc[r] = "master"
  /\ CanShare(r, MasterRow(c))
  /\ IF MasterStatus(c) # "gone"
       THEN /\ Share(r, MasterRow(c))
            /\ row' = IF c.op \in ItemOps THEN [row EXCEPT ![r] = item[c.item]] ELSE row
            /\ Goto(r, "decide")
            /\ UNCHANGED <<call, seen, tables>>
       ELSE Refuse(r)

LockMaster(r) ==
  LET c == call[r] IN
  /\ pc[r] = "master"
  /\ CanExclude(r, MasterRow(c))
  /\ IF MasterStatus(c) # "gone"
       THEN /\ Exclude(r, MasterRow(c))
            /\ row' = IF c.op \in ItemOps THEN [row EXCEPT ![r] = item[c.item]] ELSE row
            /\ Goto(r, "decide")
            /\ UNCHANGED <<call, seen, tables>>
       ELSE Refuse(r)

Decide(r) ==
  LET c == call[r] IN
  /\ pc[r] = "decide"
  /\ IF IF c.op \in ItemOps THEN ItemCallAccepted(c, row[r], bal, ledger)
                            ELSE LocationCallAccepted(c, loc[c.loc], bal, ledger)
       THEN /\ Goto(r, "write")
            /\ UNCHANGED <<call, row, seen, shared, excl, tables>>
       ELSE Refuse(r)

\* An update writes only the columns the call changed.
WriteMaster(r) ==
  LET c == call[r] IN
  /\ pc[r] = "write"
  /\ IF c.op \in ItemOps
       THEN item' = [item EXCEPT ![c.item] = ItemAfter(c, @)] /\ UNCHANGED loc
       ELSE loc' = [loc EXCEPT ![c.loc] = LocationAfter(c, @)] /\ UNCHANGED item
  /\ UNCHANGED <<bal, ledger, expiry>>
  /\ End(r, "done")

--------------------------------------------------------------------------------
Step(r) ==
  \/ StartMovement(r) \/ LockItem(r) \/ LockLocation(r) \/ LockBalance(r)
  \/ Check(r) \/ Commit(r)
  \/ StartMaster(r) \/ LockMaster(r) \/ Decide(r) \/ WriteMaster(r)

Finished == (\A r \in Requests : pc[r] \in Ended) /\ UNCHANGED vars

Next == (\E r \in Requests : Step(r) \/ Rollback(r)) \/ Finished

Spec == Init /\ [][Next]_vars

--------------------------------------------------------------------------------
\* Properties.

\* A balance is what its movement rows add up to, and each row's qty_after is the
\* running total at that row: concurrent postings on one balance are never lost
\* and never interleave (lockPairs, updateBalance, insertMovement).
Chained(rows, total) ==
  /\ \A k \in DOMAIN rows :
       rows[k].after = rows[k].delta + (IF k = 1 THEN 0 ELSE rows[k - 1].after)
  /\ total = IF rows = << >> THEN 0 ELSE rows[Len(rows)].after

BalanceIsLedger == \A p \in Pairs : Chained(ledger[p], bal[p])

\* With the setting off no sequence of racing issues, transfers and adjusts takes
\* a balance below zero (MovementMath::isInsufficientStock on a locked balance).
NonNegativeStock == ~AllowNegative => \A p \in Pairs : bal[p] >= 0

\* A deactivated or deleted item or location holds no stock, whatever was in
\* flight when it was deactivated (S5, ItemService / LocationService update).
RetiredHoldsNoStock ==
  \A p \in Pairs : item[p[1]].status # "active" \/ loc[p[2]] # "active" => bal[p] = 0

\* No movement row refers to a deleted item or location (S6, the delete methods).
RowsHaveMasters ==
  \A p \in Pairs : ledger[p] # << >> => item[p[1]].status # "gone" /\ loc[p[2]] # "gone"

\* A movement is committed only while its item and all its locations are active,
\* though it checked them several steps before (lockActiveItemForMovement,
\* lockActiveLocations), and the ledger only ever grows at its end.
PostedWhileActive ==
  [][\A p \in Pairs : ledger'[p] # ledger[p] =>
       /\ item[p[1]].status = "active" /\ loc[p[2]] = "active"
       /\ Len(ledger'[p]) = Len(ledger[p]) + 1
       /\ SubSeq(ledger'[p], 1, Len(ledger[p])) = ledger[p]]_vars

\* A serial number is never in stock more than once across all locations
\* (checkSerialCapacity under the exclusive item lock).
SerialUnique ==
  \A i \in Items, code \in Lots :
    item[i].track = "serial" => LotNet(RowsOf(ledger, i), code) <= SerialUnit

\* A receive that commits while an on-order marker stands takes its quantity off
\* the marker, also when the marker was set after the receive's unlocked read, and
\* no other movement touches a marker (F-04, lockActiveItemForMovement).
Posted(r, i) == pc[r] = "commit" /\ pc'[r] = "done" /\ call[r].item = i
MarkerFollowsReceipts ==
  [][\A r \in Requests, i \in Items : Posted(r, i) =>
       item'[i].mark = IF call[r].op = "receive"
                         THEN Decremented(item[i].mark, call[r].qty)
                         ELSE item[i].mark]_vars

\* Whoever received a lot with an expiry finds that expiry on record, also when two
\* receipts bring different ones at once: one of them commits nothing (NN-10,
\* upsertForReceive).
ReceiptsAgreeOnExpiry ==
  \A r \in Requests : LET c == call[r] IN
    pc[r] = "done" /\ c.op = "receive" /\ c.exp # 0 => expiry[<<c.item, c.lot>>] = c.exp

\* No set of requests waits in a circle for each other's row locks: item, then
\* locations ascending, then balances ascending (RowLocking, lockPairs).
Wanted(r) ==
  CASE pc[r] = "item"      -> {ItemRow(call[r].item)}
    [] pc[r] = "locations" -> {LocationRow(NextOf(r, LocationsLeft(r)))}
    [] pc[r] = "balances"  -> {BalanceRow(call[r].item, NextOf(r, BalancesLeft(r)))}
    [] pc[r] = "master"    -> {MasterRow(call[r])}
    [] OTHER               -> {}
WantsExclusive(r) ==
  \/ pc[r] \in {"balances", "master"}
  \/ pc[r] = "item" /\ NeedsExclusive(call[r], row[r])
WaitsFor(r, q) ==
  /\ r # q
  /\ \E x \in Wanted(r) : x \in excl[q] \/ (WantsExclusive(r) /\ x \in shared[q])

NoLockCycle ==
  \A group \in (SUBSET Requests) \ {{}} :
    \E r \in group : \A q \in group : ~WaitsFor(r, q)

\* The transactions are serializable at their commit: each one takes effect as if
\* it ran alone against the tables as they are then, with all its checks.
Atomic == INSTANCE AtomicLedger
  WITH answer <- [r \in Requests |-> IF pc[r] \in Ended THEN pc[r] ELSE "open"]
AtomicSpec == Atomic!Spec

\* Why the above hold: conflicting locks are never held together, and what a
\* request read or checked under its locks is still so when it commits.
Moving == {"item", "locations", "balances", "check", "commit"}
ItemLocked == Moving \ {"item"}
LocationsLocked == {"balances", "check", "commit"}
BalancesLocked == {"check", "commit"}

LocksCompatible ==
  \A r, q \in Requests : r # q => excl[r] \cap (excl[q] \cup shared[q]) = {}

OwnLocks(r) ==
  /\ pc[r] \in {"new", "item", "master"} \cup Ended => shared[r] = {} /\ excl[r] = {}
  /\ pc[r] = "locations" =>
       /\ LocationsLeft(r) # {}
       /\ \A l \in Locations : BalanceRow(call[r].item, l) \notin excl[r]
  /\ pc[r] = "balances" => BalancesLeft(r) # {}

MovementReads(r) ==
  LET c == call[r] IN
  /\ pc[r] \in Moving => c.op \in MovementOps /\ WellFormed(c)
  /\ pc[r] \in ItemLocked =>
       /\ ItemRow(c.item) \in shared[r] \cup excl[r]
       /\ row[r] = item[c.item]
       /\ ItemUsable(c, row[r], ItemRow(c.item) \in excl[r])
       /\ \A l \in LocationsOf(c) : LocationRow(l) \in shared[r] => loc[l] = "active"
  /\ pc[r] \in LocationsLocked =>
       \A l \in LocationsOf(c) :
         /\ LocationRow(l) \in shared[r]
         /\ BalanceRow(c.item, l) \in excl[r] => seen[r][l] = bal[<<c.item, l>>]
  /\ pc[r] \in BalancesLocked =>
       \A l \in LocationsOf(c) : BalanceRow(c.item, l) \in excl[r]

MovementChecked(r) ==
  LET c == call[r] IN
  pc[r] = "commit" =>
    /\ \A l \in LocationsOf(c) : QtyAccepted(c, l, seen[r][l])
    /\ SerialRoom(c, row[r], seen[r][c.loc], LotNet(RowsOf(ledger, c.item), c.lot))

MasterReads(r) ==
  LET c == call[r] IN
  /\ pc[r] \in {"master", "decide", "write"} => c.op \in MasterOps
  /\ pc[r] \in {"decide", "write"} =>
       /\ MasterRow(c) \in excl[r]
       /\ MasterStatus(c) # "gone"
       /\ c.op \in ItemOps => row[r] = item[c.item]
  /\ pc[r] = "write" =>
       IF c.op \in ItemOps THEN ItemCallAccepted(c, row[r], bal, ledger)
                           ELSE LocationCallAccepted(c, loc[c.loc], bal, ledger)

LedgerInv ==
  /\ TypeOK
  /\ LocksCompatible
  /\ \A r \in Requests :
       OwnLocks(r) /\ MovementReads(r) /\ MovementChecked(r) /\ MasterReads(r)
================================================================================
