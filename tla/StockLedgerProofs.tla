--------------------------- MODULE StockLedgerProofs ---------------------------
(***************************************************************************)
(* Theorems about StockLedger for any requests, items, locations and calls.*)
(***************************************************************************)
EXTENDS StockLedger, FiniteSetTheorems, WellFoundedInduction, TLAPS

--------------------------------------------------------------------------------
\* Facts about the data.

\* A call of a kind is a record of that kind.
LEMMA CallTypes ==
  ASSUME NEW c \in Calls
  PROVE  /\ c.op \in MovementOps \cup MasterOps
         /\ c.op \in MovementOps => c \in MovementCall
         /\ c.op \in ItemOps => c \in ItemCall
         /\ c.op \in LocationOps => c \in LocationCall
  BY CallAssumption
     DEF MovementCall, ItemCall, LocationCall, MovementOps, AdjustOps, ItemOps,
         LocationOps, MasterOps

\* Lock names are distinct for distinct rows.
LEMMA RowNames ==
  ASSUME NEW i, NEW l, NEW j, NEW m
  PROVE  /\ ItemRow(i) = ItemRow(j) => i = j
         /\ LocationRow(l) = LocationRow(m) => l = m
         /\ BalanceRow(i, l) = BalanceRow(j, m) => i = j /\ l = m
         /\ ItemRow(i) # LocationRow(l)
         /\ ItemRow(i) # BalanceRow(j, l)
         /\ LocationRow(l) # BalanceRow(j, m)
  BY DEF ItemRow, LocationRow, BalanceRow

\* Every row a call names can be locked.
LEMMA RowTypes ==
  /\ \A i \in Items : ItemRow(i) \in LockRows
  /\ \A l \in Locations : LocationRow(l) \in LockRows
  /\ \A i \in Items, l \in Locations : BalanceRow(i, l) \in LockRows
  BY DEF LockRows, Pairs

\* A movement's locations, and the quantities it posts, are in range.
LEMMA MovementTypes ==
  ASSUME NEW c \in MovementCall
  PROVE  /\ LocationsOf(c) \subseteq Locations
         /\ LocationsOf(c) # {}
         /\ \A l \in Locations, n \in Int : DeltaAt(c, l, n) \in Int
         /\ PairsOf(c) \subseteq Pairs
  BY DEF MovementCall, LocationsOf, DeltaAt, PairsOf, Pairs, MovementOps, AdjustOps

\* The lowest of the one or two locations a movement still has to lock is one
\* of them, and no other is lower.
LEMMA NextIsLeft ==
  ASSUME NEW r, NEW c \in MovementCall, NEW left \in SUBSET LocationsOf(c), left # {}
  PROVE  NextOf(r, left) \in left /\ \A l \in left : NextOf(r, left) =< l
<1>1. PICK a \in Int, b \in Int : left \subseteq {a, b}
  <2>1. c.loc \in Int /\ c.to \in Int
    <3>1. c.loc \in Locations /\ c.to \in Locations
      BY DEF MovementCall
    <3>2. \A l \in Locations : l \in Nat
      BY IdAssumption
    <3> QED BY <3>1, <3>2
  <2>2. left \subseteq {c.loc, c.to}
    BY DEF LocationsOf
  <2> QED BY <2>1, <2>2
<1>2. \E x \in left : \A y \in left : x =< y
  <2>1. CASE a \in left /\ b \in left /\ a =< b
    BY <1>1, <2>1
  <2>2. CASE a \in left /\ b \in left /\ b =< a
    BY <1>1, <2>2
  <2>3. CASE a \notin left \/ b \notin left
    <3>1. PICK x \in left : TRUE
      OBVIOUS
    <3>2. x \in {a, b} /\ x =< x /\ \A y \in left : y = x
      BY <1>1, <2>3, <3>1
    <3> QED BY <3>1, <3>2
  <2> QED BY <1>1, <2>1, <2>2, <2>3
<1> QED BY <1>2 DEF NextOf, Min

--------------------------------------------------------------------------------
\* Locks.

\* Granting a lock keeps the lock table free of conflicts.
LEMMA ShareKeepsCompatible ==
  ASSUME LocksCompatible, TypeOK, NEW r \in Requests, NEW x, Share(r, x)
  PROVE  LocksCompatible'
  BY DEF LocksCompatible, TypeOK, Share, CanShare

\* The same for an exclusive lock.
LEMMA ExcludeKeepsCompatible ==
  ASSUME LocksCompatible, TypeOK, NEW r \in Requests, NEW x, Exclude(r, x)
  PROVE  LocksCompatible'
  BY DEF LocksCompatible, TypeOK, Exclude, CanExclude, CanShare

\* What a request knows of the tables.
RequestInv(r) == OwnLocks(r) /\ MovementReads(r) /\ MovementChecked(r) /\ MasterReads(r)

\* A step of one request that leaves the tables alone says nothing about another.
LEMMA OthersUndisturbed ==
  ASSUME LedgerInv, NEW q \in Requests, NEW r \in Requests, RequestInv(r),
         UNCHANGED <<tables, call>>,
         pc'[r] = pc[r], row'[r] = row[r], seen'[r] = seen[r],
         shared'[r] = shared[r], excl'[r] = excl[r]
  PROVE  RequestInv(r)'
  BY DEF RequestInv, OwnLocks, MovementReads, MovementChecked, MasterReads, tables,
         MasterRow, MasterStatus, LocationsLeft, BalancesLeft

\* A refused request holds nothing and changes nothing.
LEMMA RefuseKeepsInv ==
  ASSUME LedgerInv, NEW r \in Requests, Refuse(r)
  PROVE  LedgerInv'
<1>1. TypeOK'
  BY DEF LedgerInv, TypeOK, Refuse, End, tables, PCs, Ended
<1>2. LocksCompatible'
  BY DEF LedgerInv, TypeOK, LocksCompatible, Refuse, End
<1>3. RequestInv(r)'
  BY DEF LedgerInv, TypeOK, Refuse, End, RequestInv, OwnLocks, MovementReads,
         MovementChecked, MasterReads, Ended, Moving, ItemLocked, LocationsLocked,
         BalancesLocked
<1>4. ASSUME NEW q \in Requests \ {r} PROVE RequestInv(q)'
  BY <1>4, OthersUndisturbed DEF LedgerInv, RequestInv, TypeOK, Refuse, End
<1> QED BY <1>1, <1>2, <1>3, <1>4 DEF LedgerInv, RequestInv

--------------------------------------------------------------------------------
\* One lemma per action: it preserves the invariant.

\* Reading the track mode and taking the sheet lock keeps the invariant.
LEMMA StartMovementKeepsInv ==
  ASSUME LedgerInv, NEW r \in Requests, StartMovement(r)
  PROVE  LedgerInv'
<1>1. CASE Refuse(r)
  BY <1>1, RefuseKeepsInv
<1>2. CASE ~Refuse(r)
  <2> DEFINE c == call[r]
  <2>1. /\ c.op \in MovementOps /\ WellFormed(c) /\ c \in MovementCall
        /\ row' = [row EXCEPT ![r] = item[c.item]] /\ pc[r] = "new"
        /\ pc' = [pc EXCEPT ![r] = "item"]
        /\ UNCHANGED <<call, seen, shared, excl, tables>>
    BY <1>2, CallTypes DEF StartMovement, Goto, LedgerInv, TypeOK
  <2>2. c.item \in Items
    BY <2>1 DEF MovementCall
  <2>3. TypeOK'
    BY <2>1, <2>2 DEF LedgerInv, TypeOK, tables, PCs
  <2>4. LocksCompatible'
    BY <2>1 DEF LedgerInv, LocksCompatible
  <2>5. RequestInv(r)'
    BY <2>1 DEF LedgerInv, TypeOK, RequestInv, OwnLocks, MovementReads, MovementChecked,
       MasterReads, Ended, Moving, ItemLocked, LocationsLocked, BalancesLocked
  <2>6. ASSUME NEW q \in Requests \ {r} PROVE RequestInv(q)'
    BY <2>1, <2>6, OthersUndisturbed DEF LedgerInv, RequestInv, TypeOK
  <2> QED BY <2>3, <2>4, <2>5, <2>6 DEF LedgerInv, RequestInv
<1> QED BY <1>1, <1>2

\* Locking the item and reading its row keeps the invariant.
LEMMA LockItemKeepsInv ==
  ASSUME LedgerInv, NEW r \in Requests, LockItem(r)
  PROVE  LedgerInv'
<1>1. CASE Refuse(r)
  BY <1>1, RefuseKeepsInv
<1>2. CASE ~Refuse(r)
  <2> DEFINE c == call[r]
             x == ItemRow(c.item)
             strong == NeedsExclusive(c, row[r])
  <2>1. /\ pc[r] = "item" /\ pc' = [pc EXCEPT ![r] = "locations"]
        /\ IF strong THEN Exclude(r, x) ELSE Share(r, x)
        /\ ItemUsable(c, item[c.item], strong)
        /\ row' = [row EXCEPT ![r] = item[c.item]]
        /\ UNCHANGED <<call, seen, tables>>
    BY <1>2 DEF LockItem, Goto
  <2>2. c.op \in MovementOps /\ WellFormed(c) /\ c \in MovementCall /\ c.item \in Items
    <3>1. c \in Calls /\ c.op \in MovementOps /\ WellFormed(c)
      BY <2>1 DEF LedgerInv, TypeOK, MovementReads, Moving
    <3>2. c \in MovementCall
      BY <3>1, CallTypes
    <3> QED BY <3>1, <3>2 DEF MovementCall
  <2>3. shared[r] = {} /\ excl[r] = {}
    BY <2>1 DEF LedgerInv, OwnLocks
  <2>4. TypeOK'
    <3>1. x \in LockRows /\ item[c.item] \in ItemRecord
      BY <2>2, RowTypes DEF LedgerInv, TypeOK
    <3>2. shared' \in [Requests -> SUBSET LockRows] /\ excl' \in [Requests -> SUBSET LockRows]
      <4>1. CASE Exclude(r, x)
        BY <3>1, <4>1 DEF LedgerInv, TypeOK, Exclude
      <4>2. CASE Share(r, x)
        BY <3>1, <4>2 DEF LedgerInv, TypeOK, Share
      <4> QED BY <2>1, <4>1, <4>2
    <3> QED BY <2>1, <3>1, <3>2 DEF LedgerInv, TypeOK, tables, PCs
  <2>5. LocksCompatible'
    BY <2>1, ShareKeepsCompatible, ExcludeKeepsCompatible DEF LedgerInv
  <2>6. /\ shared'[r] = IF strong THEN {} ELSE {x}
        /\ excl'[r] = IF strong THEN {x} ELSE {}
        /\ row'[r] = item[c.item] /\ pc'[r] = "locations"
    <3>1. CASE strong
      BY <2>1, <2>3, <3>1 DEF LedgerInv, TypeOK, Exclude
    <3>2. CASE ~strong
      BY <2>1, <2>3, <3>2 DEF LedgerInv, TypeOK, Share
    <3> QED BY <3>1, <3>2
  <2>7. RequestInv(r)'
    <3>1. OwnLocks(r)'
      <4>1. \A l \in Locations : BalanceRow(c.item, l) \notin excl'[r]
        BY <2>6, RowNames
      <4>2. LocationsLeft(r)' # {}
        <5>1. PICK l \in LocationsOf(c) : TRUE
          BY <2>2, MovementTypes
        <5>2. LocationRow(l) \notin shared'[r]
          BY <2>6, RowNames
        <5> QED BY <2>1, <5>1, <5>2 DEF LocationsLeft
      <4> QED BY <2>1, <2>6, <4>1, <4>2 DEF OwnLocks, Ended
    <3>2. MovementReads(r)'
      <4>1. x \in shared'[r] \cup excl'[r] /\ (x \in excl'[r] <=> strong)
        BY <2>6
      <4>2. \A l \in LocationsOf(c) : LocationRow(l) \notin shared'[r]
        BY <2>6, RowNames
      <4> HIDE DEF x, strong
      <4>3. ItemUsable(c, item[c.item], x \in excl'[r])
        BY <2>1, <4>1 DEF ItemUsable
      <4> QED BY <2>1, <2>2, <2>6, <4>1, <4>2, <4>3
              DEF MovementReads, Moving, ItemLocked, LocationsLocked, BalancesLocked,
                  tables, ItemUsable, x
    <3>3. MovementChecked(r)' /\ MasterReads(r)'
      BY <2>6 DEF MovementChecked, MasterReads
    <3> QED BY <3>1, <3>2, <3>3 DEF RequestInv
  <2>8. ASSUME NEW q \in Requests \ {r} PROVE RequestInv(q)'
    BY <2>1, <2>8, OthersUndisturbed DEF LedgerInv, RequestInv, TypeOK, Share, Exclude
  <2> QED BY <2>4, <2>5, <2>7, <2>8 DEF LedgerInv, RequestInv
<1> QED BY <1>1, <1>2

\* The rows a movement has still to lock are locations of its call.
LEMMA LeftTypes ==
  ASSUME LedgerInv, NEW r \in Requests, pc[r] \in Moving
  PROVE  /\ call[r] \in MovementCall /\ call[r].item \in Items
         /\ call[r].op \in MovementOps /\ WellFormed(call[r])
         /\ LocationsOf(call[r]) \subseteq Locations
         /\ LocationsLeft(r) \subseteq LocationsOf(call[r])
         /\ BalancesLeft(r) \subseteq LocationsOf(call[r])
<1>1. call[r] \in Calls /\ call[r].op \in MovementOps /\ WellFormed(call[r])
  BY DEF LedgerInv, TypeOK, MovementReads
<1>2. call[r] \in MovementCall
  BY <1>1, CallTypes
<1> QED BY <1>1, <1>2, MovementTypes DEF LocationsLeft, BalancesLeft, MovementCall

\* Locking the next location keeps the invariant.
LEMMA LockLocationKeepsInv ==
  ASSUME LedgerInv, NEW r \in Requests, LockLocation(r)
  PROVE  LedgerInv'
<1>1. CASE Refuse(r)
  BY <1>1, RefuseKeepsInv
<1>2. CASE ~Refuse(r)
  <2> DEFINE c == call[r]
             l == NextOf(r, LocationsLeft(r))
             x == LocationRow(l)
  <2>1. /\ pc[r] = "locations" /\ loc[l] = "active" /\ Share(r, x)
        /\ IF LocationsLeft(r) = {l} THEN pc' = [pc EXCEPT ![r] = "balances"]
                                     ELSE UNCHANGED pc
        /\ UNCHANGED <<call, row, seen, tables>>
    BY <1>2 DEF LockLocation, Goto
  <2>2. /\ c \in MovementCall /\ c.item \in Items /\ LocationsOf(c) \subseteq Locations
        /\ c.op \in MovementOps /\ WellFormed(c)
        /\ LocationsLeft(r) \subseteq LocationsOf(c)
    BY <2>1, LeftTypes DEF Moving
  <2>3. l \in LocationsLeft(r) /\ l \in Locations
    BY <2>1, <2>2, NextIsLeft DEF LedgerInv, OwnLocks
  <2> HIDE DEF l
  <2>4. TypeOK'
    <3>1. x \in LockRows
      BY <2>3, RowTypes
    <3> HIDE DEF x
    <3> QED BY <2>1, <3>1 DEF LedgerInv, TypeOK, tables, PCs, Share
  <2>5. LocksCompatible'
    BY <2>1, ShareKeepsCompatible DEF LedgerInv
  <2>6. /\ shared'[r] = shared[r] \cup {x} /\ excl'[r] = excl[r] /\ row'[r] = row[r]
        /\ pc'[r] = IF LocationsLeft(r) = {l} THEN "balances" ELSE "locations"
    BY <2>1 DEF LedgerInv, TypeOK, Share
  <2>7. RequestInv(r)'
    <3>1. OwnLocks(r)'
      <4>1. LocationsLeft(r) # {l} => LocationsLeft(r)' # {}
        BY <2>1, <2>3, <2>6, RowNames DEF LocationsLeft
      <4>2. \A m \in Locations : BalanceRow(c.item, m) \notin excl[r]
        BY <2>1 DEF LedgerInv, OwnLocks
      <4>3. BalancesLeft(r)' # {}
        BY <2>1, <2>2, <2>6, <4>2, MovementTypes DEF BalancesLeft
      <4> QED BY <2>1, <2>6, <4>1, <4>2, <4>3 DEF OwnLocks, Ended
    <3>2. MovementReads(r)'
      <4>1. \A m \in LocationsOf(c) : LocationRow(m) \in shared'[r] => loc[m] = "active"
        BY <2>1, <2>6, RowNames DEF LedgerInv, MovementReads, ItemLocked, Moving
      <4>2. LocationsLeft(r) = {l} => \A m \in LocationsOf(c) : LocationRow(m) \in shared'[r]
        BY <2>6 DEF LocationsLeft
      <4>3. \A m \in LocationsOf(c) : BalanceRow(c.item, m) \notin excl[r]
        BY <2>1, <2>2 DEF LedgerInv, OwnLocks
      <4>4. /\ ItemRow(c.item) \in shared'[r] \cup excl[r]
            /\ row[r] = item[c.item]
            /\ ItemUsable(c, row[r], ItemRow(c.item) \in excl[r])
        BY <2>1, <2>6 DEF LedgerInv, MovementReads, ItemLocked, Moving
      <4> QED BY <2>1, <2>2, <2>6, <4>1, <4>2, <4>3, <4>4
              DEF MovementReads, Moving, ItemLocked, LocationsLocked, BalancesLocked,
                  tables
    <3>3. MovementChecked(r)' /\ MasterReads(r)'
      BY <2>6 DEF MovementChecked, MasterReads
    <3> QED BY <3>1, <3>2, <3>3 DEF RequestInv
  <2>8. ASSUME NEW q \in Requests \ {r} PROVE RequestInv(q)'
    BY <2>1, <2>8, OthersUndisturbed DEF LedgerInv, RequestInv, TypeOK, Share
  <2> QED BY <2>4, <2>5, <2>7, <2>8 DEF LedgerInv, RequestInv
<1> QED BY <1>1, <1>2

\* Locking the next balance row and reading it keeps the invariant.
LEMMA LockBalanceKeepsInv ==
  ASSUME LedgerInv, NEW r \in Requests, LockBalance(r)
  PROVE  LedgerInv'
<1> DEFINE c == call[r]
           l == NextOf(r, BalancesLeft(r))
           x == BalanceRow(c.item, l)
<1>1. /\ pc[r] = "balances" /\ Exclude(r, x)
      /\ seen' = [seen EXCEPT ![r][l] = bal[<<c.item, l>>]]
      /\ IF BalancesLeft(r) = {l} THEN pc' = [pc EXCEPT ![r] = "check"]
                                  ELSE UNCHANGED pc
      /\ UNCHANGED <<call, row, tables>>
  BY DEF LockBalance, Goto
<1>2. /\ c \in MovementCall /\ c.item \in Items /\ LocationsOf(c) \subseteq Locations
      /\ c.op \in MovementOps /\ WellFormed(c)
      /\ BalancesLeft(r) \subseteq LocationsOf(c)
  BY <1>1, LeftTypes DEF Moving
<1>3. l \in BalancesLeft(r) /\ l \in Locations
  BY <1>1, <1>2, NextIsLeft DEF LedgerInv, OwnLocks
<1> HIDE DEF l
<1>4. TypeOK'
  <2>1. x \in LockRows /\ bal[<<c.item, l>>] \in Int
    BY <1>2, <1>3, RowTypes DEF LedgerInv, TypeOK, Pairs
  <2> HIDE DEF x
  <2>2. seen' \in [Requests -> [Locations -> Int]]
    BY <1>1, <1>3, <2>1 DEF LedgerInv, TypeOK
  <2> QED BY <1>1, <2>1, <2>2 DEF LedgerInv, TypeOK, tables, PCs, Exclude
<1>5. LocksCompatible'
  BY <1>1, ExcludeKeepsCompatible DEF LedgerInv
<1>6. /\ excl'[r] = excl[r] \cup {x} /\ shared'[r] = shared[r] /\ row'[r] = row[r]
      /\ pc'[r] = IF BalancesLeft(r) = {l} THEN "check" ELSE "balances"
      /\ seen'[r][l] = bal[<<c.item, l>>]
      /\ \A m \in Locations \ {l} : seen'[r][m] = seen[r][m]
  BY <1>1, <1>3 DEF LedgerInv, TypeOK, Exclude
<1>7. RequestInv(r)'
  <2>1. OwnLocks(r)'
    <3>1. BalancesLeft(r) # {l} => BalancesLeft(r)' # {}
      BY <1>1, <1>3, <1>6, RowNames DEF BalancesLeft
    <3> QED BY <1>1, <1>6, <3>1 DEF OwnLocks, Ended
  <2>2. MovementReads(r)'
    <3>1. /\ ItemRow(c.item) \in shared[r] \cup excl'[r]
          /\ row[r] = item[c.item]
          /\ ItemUsable(c, row[r], ItemRow(c.item) \in excl'[r])
      BY <1>1, <1>6, RowNames DEF LedgerInv, MovementReads, ItemLocked, Moving
    <3>2. \A m \in LocationsOf(c) : LocationRow(m) \in shared[r] /\ loc[m] = "active"
      BY <1>1 DEF LedgerInv, MovementReads, ItemLocked, Moving, LocationsLocked
    <3>3. \A m \in LocationsOf(c) :
            BalanceRow(c.item, m) \in excl'[r] => seen'[r][m] = bal[<<c.item, m>>]
      BY <1>1, <1>2, <1>6, RowNames DEF LedgerInv, MovementReads, LocationsLocked
    <3>4. BalancesLeft(r) = {l} => \A m \in LocationsOf(c) : BalanceRow(c.item, m) \in excl'[r]
      BY <1>6 DEF BalancesLeft
    <3> QED BY <1>1, <1>2, <1>6, <3>1, <3>2, <3>3, <3>4
            DEF MovementReads, Moving, ItemLocked, LocationsLocked, BalancesLocked, tables
  <2>3. MovementChecked(r)' /\ MasterReads(r)'
    BY <1>6 DEF MovementChecked, MasterReads
  <2> QED BY <2>1, <2>2, <2>3 DEF RequestInv
<1>8. ASSUME NEW q \in Requests \ {r} PROVE RequestInv(q)'
  BY <1>1, <1>8, OthersUndisturbed DEF LedgerInv, RequestInv, TypeOK, Exclude
<1> QED BY <1>4, <1>5, <1>7, <1>8 DEF LedgerInv, RequestInv

\* A step that only moves the program counter of one request.
LEMMA GotoKeepsInv ==
  ASSUME LedgerInv, NEW r \in Requests, NEW label \in PCs, Goto(r, label),
         UNCHANGED <<call, row, seen, shared, excl, tables>>, RequestInv(r)'
  PROVE  LedgerInv'
<1>1. TypeOK'
  BY DEF LedgerInv, TypeOK, tables, Goto
<1>2. LocksCompatible'
  BY DEF LedgerInv, LocksCompatible
<1>3. ASSUME NEW q \in Requests \ {r} PROVE RequestInv(q)'
  BY <1>3, OthersUndisturbed DEF LedgerInv, RequestInv, TypeOK, Goto
<1> QED BY <1>1, <1>2, <1>3 DEF LedgerInv, RequestInv

\* The movement's checks read only rows it holds.
LEMMA CheckKeepsInv ==
  ASSUME LedgerInv, NEW r \in Requests, Check(r)
  PROVE  LedgerInv'
<1>1. CASE Refuse(r)
  BY <1>1, RefuseKeepsInv
<1>2. CASE ~Refuse(r)
  <2> DEFINE c == call[r]
  <2>1. /\ pc[r] = "check" /\ Goto(r, "commit")
        /\ UNCHANGED <<call, row, seen, shared, excl, tables>>
        /\ \A l \in LocationsOf(c) : QtyAccepted(c, l, seen[r][l])
        /\ SerialRoom(c, row[r], seen[r][c.loc], LotNet(RowsOf(ledger, c.item), c.lot))
    BY <1>2 DEF Check
  <2>2. pc'[r] = "commit" /\ "commit" \in PCs
    BY <2>1 DEF LedgerInv, TypeOK, Goto, PCs
  <2>3. OwnLocks(r)' /\ MasterReads(r)'
    BY <2>2 DEF OwnLocks, MasterReads, Ended
  <2>4. MovementReads(r)'
    BY <2>1, <2>2 DEF LedgerInv, MovementReads, Moving, ItemLocked, LocationsLocked,
       BalancesLocked, tables
  <2>5. MovementChecked(r)'
    BY <2>1, <2>2 DEF MovementChecked, tables
  <2> QED BY <2>1, <2>2, <2>3, <2>4, <2>5, GotoKeepsInv DEF RequestInv
<1> QED BY <1>1, <1>2

\* A master-data call that starts holds nothing.
LEMMA StartMasterKeepsInv ==
  ASSUME LedgerInv, NEW r \in Requests, StartMaster(r)
  PROVE  LedgerInv'
<1>1. pc[r] = "new" /\ pc'[r] = "master" /\ "master" \in PCs
  BY DEF StartMaster, LedgerInv, TypeOK, Goto, PCs
<1>2. RequestInv(r)'
  BY <1>1 DEF StartMaster, LedgerInv, RequestInv, OwnLocks, MovementReads,
     MovementChecked, MasterReads, Ended, Moving, ItemLocked, LocationsLocked,
     BalancesLocked
<1> QED BY <1>1, <1>2, GotoKeepsInv DEF StartMaster

\* The row a master-data call locks.
LEMMA MasterTypes ==
  ASSUME LedgerInv, NEW r \in Requests, pc[r] \in {"master", "decide", "write"}
  PROVE  /\ call[r].op \in ItemOps => call[r] \in ItemCall /\ call[r].item \in Items
         /\ call[r].op \notin ItemOps =>
              /\ call[r].op \in LocationOps
              /\ call[r] \in LocationCall /\ call[r].loc \in Locations
         /\ MasterRow(call[r]) \in LockRows
<1>1. call[r] \in Calls /\ call[r].op \in MasterOps
  BY DEF LedgerInv, TypeOK, MasterReads
<1>2. call[r].op \in ItemOps => call[r] \in ItemCall /\ call[r].item \in Items
  BY <1>1, CallTypes DEF ItemCall
<1>3. call[r].op \notin ItemOps =>
        call[r].op \in LocationOps /\ call[r] \in LocationCall /\ call[r].loc \in Locations
  BY <1>1, CallTypes DEF LocationCall, MasterOps
<1> QED BY <1>2, <1>3, RowTypes DEF MasterRow

\* Locking the master row keeps the invariant.
LEMMA LockMasterKeepsInv ==
  ASSUME LedgerInv, NEW r \in Requests, LockMaster(r)
  PROVE  LedgerInv'
<1>1. CASE Refuse(r)
  BY <1>1, RefuseKeepsInv
<1>2. CASE ~Refuse(r)
  <2> DEFINE c == call[r]
             x == MasterRow(c)
             read == IF c.op \in ItemOps THEN item[c.item] ELSE row[r]
  <2>1. /\ pc[r] = "master" /\ pc' = [pc EXCEPT ![r] = "decide"]
        /\ MasterStatus(c) # "gone" /\ Exclude(r, x)
        /\ row' = IF c.op \in ItemOps THEN [row EXCEPT ![r] = item[c.item]] ELSE row
        /\ UNCHANGED <<call, seen, tables>>
    BY <1>2 DEF LockMaster, Goto
  <2>2. /\ x \in LockRows /\ c.op \in MasterOps /\ (c.op \in ItemOps => c.item \in Items)
    BY <2>1, MasterTypes DEF LedgerInv, MasterReads
  <2>3. row' \in [Requests -> ItemRecord] /\ row'[r] = read
        /\ \A q \in Requests \ {r} : row'[q] = row[q]
    <3>1. CASE c.op \in ItemOps
      BY <2>1, <2>2, <3>1 DEF LedgerInv, TypeOK
    <3>2. CASE c.op \notin ItemOps
      BY <2>1, <3>2 DEF LedgerInv, TypeOK
    <3> QED BY <3>1, <3>2
  <2>4. TypeOK'
    <3> HIDE DEF x
    <3> QED BY <2>1, <2>2, <2>3 DEF LedgerInv, TypeOK, tables, PCs, Exclude
  <2>5. LocksCompatible'
    BY <2>1, ExcludeKeepsCompatible DEF LedgerInv
  <2>6. RequestInv(r)'
    <3>1. pc'[r] = "decide" /\ x \in excl'[r]
      BY <2>1 DEF LedgerInv, TypeOK, Exclude
    <3>2. OwnLocks(r)' /\ MovementReads(r)' /\ MovementChecked(r)'
      BY <3>1 DEF OwnLocks, MovementReads, MovementChecked, Ended, Moving, ItemLocked,
         LocationsLocked, BalancesLocked
    <3>3. MasterReads(r)'
      BY <2>1, <2>2, <2>3, <3>1 DEF MasterReads, MasterRow, MasterStatus, tables
    <3> QED BY <3>2, <3>3 DEF RequestInv
  <2>7. ASSUME NEW q \in Requests \ {r} PROVE RequestInv(q)'
    BY <2>1, <2>3, <2>7, OthersUndisturbed DEF LedgerInv, RequestInv, TypeOK, Exclude
  <2> QED BY <2>4, <2>5, <2>6, <2>7 DEF LedgerInv, RequestInv
<1> QED BY <1>1, <1>2

\* The master-data call decides from rows it holds.
LEMMA DecideKeepsInv ==
  ASSUME LedgerInv, NEW r \in Requests, Decide(r)
  PROVE  LedgerInv'
<1>1. CASE Refuse(r)
  BY <1>1, RefuseKeepsInv
<1>2. CASE ~Refuse(r)
  <2> DEFINE c == call[r]
  <2>1. /\ pc[r] = "decide" /\ Goto(r, "write")
        /\ UNCHANGED <<call, row, seen, shared, excl, tables>>
        /\ IF c.op \in ItemOps THEN ItemCallAccepted(c, row[r], bal, ledger)
                               ELSE LocationCallAccepted(c, loc[c.loc], bal, ledger)
    BY <1>2 DEF Decide
  <2>2. pc'[r] = "write" /\ "write" \in PCs
    BY <2>1 DEF LedgerInv, TypeOK, Goto, PCs
  <2>3. OwnLocks(r)' /\ MovementReads(r)' /\ MovementChecked(r)'
    BY <2>2 DEF OwnLocks, MovementReads, MovementChecked, Ended, Moving, ItemLocked,
       LocationsLocked, BalancesLocked
  <2>4. MasterReads(r)'
    BY <2>1, <2>2 DEF LedgerInv, MasterReads, MasterRow, MasterStatus, tables
  <2> QED BY <2>1, <2>2, <2>3, <2>4, GotoKeepsInv DEF RequestInv
<1> QED BY <1>1, <1>2

\* What a master-data write stores has the column's type.
LEMMA WriteMasterTypes ==
  ASSUME LedgerInv, NEW r \in Requests, pc[r] = "write"
  PROVE  /\ call[r].op \in ItemOps =>
              ItemAfter(call[r], item[call[r].item]) \in ItemRecord
         /\ call[r].op \notin ItemOps =>
              LocationAfter(call[r], loc[call[r].loc]) \in Statuses
<1> DEFINE c == call[r]
<1>1. CASE c.op \in ItemOps
  <2>1. c \in ItemCall /\ c.item \in Items /\ item[c.item] \in ItemRecord
    BY <1>1, MasterTypes DEF LedgerInv, TypeOK
  <2>2. c.op = "markOnOrder" => c.qty \in Nat
    <3>1. ItemCallAccepted(c, row[r], bal, ledger)
      BY <1>1 DEF LedgerInv, MasterReads
    <3>2. c.op = "markOnOrder" => c.qty \in 1..QtyMax
      BY <3>1 DEF ItemCallAccepted
    <3> QED BY <3>2, LimitAssumption
  <2> QED BY <1>1, <2>1, <2>2
          DEF ItemAfter, ItemCall, ItemRecord, NewTrack, NewStatus, ItemOps, Statuses
<1>2. CASE c.op \notin ItemOps
  <2>1. c \in LocationCall /\ loc[c.loc] \in Statuses
    BY <1>2, MasterTypes DEF LedgerInv, TypeOK
  <2> QED BY <1>2, <2>1 DEF LocationAfter, LocationCall, NewStatus, Statuses
<1> QED BY <1>1, <1>2

\* What r knows of rows it has locked survives the write of another request.
LEMMA WriteMasterKeepsInv ==
  ASSUME LedgerInv, NEW r \in Requests, WriteMaster(r)
  PROVE  LedgerInv'
<1> DEFINE c == call[r]
           x == MasterRow(c)
<1>1. /\ pc[r] = "write" /\ pc' = [pc EXCEPT ![r] = "done"]
      /\ shared' = [shared EXCEPT ![r] = {}] /\ excl' = [excl EXCEPT ![r] = {}]
      /\ IF c.op \in ItemOps
           THEN item' = [item EXCEPT ![c.item] = ItemAfter(c, @)] /\ UNCHANGED loc
           ELSE loc' = [loc EXCEPT ![c.loc] = LocationAfter(c, @)] /\ UNCHANGED item
      /\ UNCHANGED <<call, row, seen, bal, ledger, expiry>>
  BY DEF WriteMaster, End
<1>2. x \in excl[r]
  BY <1>1 DEF LedgerInv, MasterReads
<1>3. TypeOK'
  <2>1. item' \in [Items -> ItemRecord] /\ loc' \in [Locations -> Statuses]
    BY <1>1, MasterTypes, WriteMasterTypes DEF LedgerInv, TypeOK
  <2> QED BY <1>1, <2>1 DEF LedgerInv, TypeOK, PCs, Ended
<1>4. LocksCompatible'
  BY <1>1 DEF LedgerInv, TypeOK, LocksCompatible
<1>5. RequestInv(r)'
  BY <1>1 DEF LedgerInv, TypeOK, RequestInv, OwnLocks, MovementReads, MovementChecked,
     MasterReads, Ended, Moving, ItemLocked, LocationsLocked, BalancesLocked
<1>6. ASSUME NEW q \in Requests \ {r} PROVE RequestInv(q)'
  <2> DEFINE d == call[q]
  <2>1. /\ pc'[q] = pc[q] /\ row'[q] = row[q] /\ seen'[q] = seen[q]
        /\ shared'[q] = shared[q] /\ excl'[q] = excl[q] /\ call'[q] = call[q]
    BY <1>1 DEF LedgerInv, TypeOK
  <2>2. x \notin shared[q] \cup excl[q]
    BY <1>2 DEF LedgerInv, LocksCompatible
  <2>3. \A i \in Items : ItemRow(i) \in shared[q] \cup excl[q] => item'[i] = item[i]
    BY <1>1, <2>2 DEF LedgerInv, TypeOK, MasterRow
  <2>4. \A l \in Locations : LocationRow(l) \in shared[q] \cup excl[q] => loc'[l] = loc[l]
    BY <1>1, <2>2 DEF LedgerInv, TypeOK, MasterRow
  <2>5. OwnLocks(q)' /\ MovementChecked(q)'
    BY <1>1, <2>1 DEF LedgerInv, OwnLocks, MovementChecked, LocationsLeft, BalancesLeft
  <2>6. MovementReads(q)'
    <3>1. pc[q] \in Moving => d.item \in Items /\ LocationsOf(d) \subseteq Locations
      BY LeftTypes
    <3> QED BY <1>1, <2>1, <2>3, <2>4, <3>1
            DEF LedgerInv, MovementReads, Moving, ItemLocked, LocationsLocked, BalancesLocked
  <2>7. MasterReads(q)'
    <3>1. pc[q] \in {"decide", "write"} =>
            IF d.op \in ItemOps THEN d.item \in Items ELSE d.loc \in Locations
      BY MasterTypes
    <3> QED BY <1>1, <2>1, <2>3, <2>4, <3>1
            DEF LedgerInv, MasterReads, MasterRow, MasterStatus
  <2> QED BY <2>5, <2>6, <2>7 DEF RequestInv
<1> QED BY <1>3, <1>4, <1>5, <1>6 DEF LedgerInv, RequestInv

\* What a movement knows when it commits: everything it read and checked still
\* holds of the tables.
LEMMA AtCommit ==
  ASSUME LedgerInv, NEW r \in Requests, pc[r] = "commit"
  PROVE  LET c == call[r] IN
         /\ c \in MovementCall /\ c.item \in Items /\ c.op \in MovementOps /\ WellFormed(c)
         /\ LocationsOf(c) \subseteq Locations /\ PairsOf(c) \subseteq Pairs
         /\ row[r] = item[c.item]
         /\ ItemUsable(c, row[r], ItemRow(c.item) \in excl[r])
         /\ ItemRow(c.item) \in shared[r] \cup excl[r]
         /\ \A l \in LocationsOf(c) :
              /\ loc[l] = "active" /\ LocationRow(l) \in shared[r]
              /\ BalanceRow(c.item, l) \in excl[r] /\ seen[r][l] = bal[<<c.item, l>>]
              /\ QtyAccepted(c, l, seen[r][l])
         /\ SerialRoom(c, row[r], seen[r][c.loc], LotNet(RowsOf(ledger, c.item), c.lot))
<1> DEFINE c == call[r]
<1>1. pc[r] \in Moving
  BY DEF Moving
<1>2. /\ c \in MovementCall /\ c.item \in Items /\ c.op \in MovementOps /\ WellFormed(c)
      /\ LocationsOf(c) \subseteq Locations /\ PairsOf(c) \subseteq Pairs
  BY <1>1, LeftTypes, MovementTypes
<1> QED BY <1>2 DEF LedgerInv, MovementReads, MovementChecked, ItemLocked, Moving,
                  LocationsLocked, BalancesLocked

\* What a movement stores has the columns' types.
LEMMA PostTypes ==
  ASSUME LedgerInv, NEW r \in Requests, pc[r] = "commit", Post(r)
  PROVE  /\ bal' \in [Pairs -> Int] /\ ledger' \in [Pairs -> Seq(MovementRow)]
         /\ item' \in [Items -> ItemRecord]
         /\ expiry' \in [Items \X Lots -> Expiries \cup {0}]
<1> DEFINE c == call[r]
<1>1. c \in MovementCall /\ c.item \in Items /\ PairsOf(c) \subseteq Pairs
  BY AtCommit
<1>2. \A l \in Locations : seen[r][l] \in Int /\ DeltaAt(c, l, seen[r][l]) \in Int
  BY <1>1, MovementTypes DEF LedgerInv, TypeOK
<1>3. \A p \in Pairs : p[2] \in Locations
  BY DEF Pairs
<1>4. bal' \in [Pairs -> Int]
  BY <1>2, <1>3 DEF Post, BalancesPosted, LedgerInv, TypeOK
<1>5. ledger' \in [Pairs -> Seq(MovementRow)]
  <2>1. \A l \in Locations : RowPosted(r, c, l, seen[r]) \in MovementRow
    BY <1>1, <1>2 DEF RowPosted, MovementRow, MovementCall
  <2>2. \A p \in Pairs : ledger[p] \in Seq(MovementRow)
    BY DEF LedgerInv, TypeOK
  <2>3. \A p \in Pairs : Append(ledger[p], RowPosted(r, c, p[2], seen[r])) \in Seq(MovementRow)
    BY <1>3, <2>1, <2>2
  <2> QED BY <2>2, <2>3 DEF Post, LedgerPosted
<1>6. item' \in [Items -> ItemRecord]
  <2>1. item[c.item] \in ItemRecord /\ c.qty \in Int
    BY <1>1 DEF LedgerInv, TypeOK, MovementCall
  <2>2. Decremented(item[c.item].mark, c.qty) \in Nat
    <3>1. item[c.item].mark \in Nat
      BY <2>1 DEF ItemRecord
    <3>2. CASE c.qty >= 0
      BY <2>1, <3>1, <3>2 DEF Decremented
    <3>3. CASE c.qty < 0
      BY <2>1, <3>1, <3>3 DEF Decremented
    <3> QED BY <2>1, <3>2, <3>3
  <2>3. [item[c.item] EXCEPT !.mark = Decremented(@, c.qty)] \in ItemRecord
    BY <2>1, <2>2 DEF ItemRecord
  <2> QED BY <1>1, <2>3 DEF Post, ItemsPosted, LedgerInv, TypeOK
<1>7. expiry' \in [Items \X Lots -> Expiries \cup {0}]
  <2>1. c.lot \in Lots \cup {NoLot} /\ c.exp \in Expiries \cup {0}
    BY <1>1 DEF MovementCall
  <2>2. CASE c.lot = NoLot
    BY <2>2 DEF Post, ExpiryPosted, LedgerInv, TypeOK
  <2>3. CASE c.lot # NoLot
    <3>1. <<c.item, c.lot>> \in Items \X Lots
      BY <1>1, <2>1, <2>3
    <3>2. expiry[<<c.item, c.lot>>] \in Expiries \cup {0}
      BY <3>1 DEF LedgerInv, TypeOK
    <3>3. ExpiryAfter(c, row[r], expiry[<<c.item, c.lot>>]) \in Expiries \cup {0}
      BY <2>1, <3>2 DEF ExpiryAfter
    <3> QED BY <2>3, <3>3 DEF Post, ExpiryPosted, LedgerInv, TypeOK
  <2> QED BY <2>2, <2>3
<1> QED BY <1>4, <1>5, <1>6, <1>7

\* What a commit changes: only rows the request holds locked.
LEMMA PostEffect ==
  ASSUME LedgerInv, NEW r \in Requests, pc[r] = "commit", Post(r)
  PROVE  LET c == call[r] IN
         /\ loc' = loc
         /\ \A i \in Items : i # c.item => item'[i] = item[i]
         /\ ~NeedsExclusive(c, row[r]) => item' = item
         /\ item'[c.item].status = item[c.item].status
         /\ item'[c.item].track = item[c.item].track
         /\ \A p \in Pairs \ PairsOf(c) : bal'[p] = bal[p] /\ ledger'[p] = ledger[p]
<1> DEFINE c == call[r]
<1>1. c.item \in Items /\ item[c.item] \in ItemRecord
  BY AtCommit DEF LedgerInv, TypeOK
<1>2. \A p \in Pairs \ PairsOf(c) : bal'[p] = bal[p] /\ ledger'[p] = ledger[p]
  BY DEF Post, BalancesPosted, LedgerPosted
<1>3. CASE c.op = "receive" /\ row[r].mark # 0
  <2>1. item' = [item EXCEPT ![c.item].mark = Decremented(@, c.qty)]
    BY <1>3 DEF Post, ItemsPosted
  <2> QED BY <1>1, <1>2, <1>3, <2>1
          DEF Post, NeedsExclusive, LedgerInv, TypeOK, ItemRecord
<1>4. CASE ~(c.op = "receive" /\ row[r].mark # 0)
  BY <1>2, <1>4 DEF Post, ItemsPosted
<1> QED BY <1>3, <1>4

\* A commit leaves what every other request knows of its locked rows true.
LEMMA PostLeavesOthers ==
  ASSUME LedgerInv, NEW r \in Requests, pc[r] = "commit", Post(r), End(r, "done"),
         NEW q \in Requests \ {r}
  PROVE  RequestInv(q)'
<1> DEFINE c == call[r]
           d == call[q]
<1>1. /\ pc'[q] = pc[q] /\ row'[q] = row[q] /\ seen'[q] = seen[q]
      /\ shared'[q] = shared[q] /\ excl'[q] = excl[q] /\ call'[q] = call[q]
  BY DEF End, LedgerInv, TypeOK
<1>2. /\ c \in MovementCall /\ c.item \in Items /\ LocationsOf(c) \subseteq Locations
      /\ ItemRow(c.item) \in shared[r] \cup excl[r]
      /\ NeedsExclusive(c, row[r]) => ItemRow(c.item) \in excl[r]
      /\ \A l \in LocationsOf(c) : LocationRow(l) \in shared[r]
      /\ \A l \in LocationsOf(c) : BalanceRow(c.item, l) \in excl[r]
  BY AtCommit DEF ItemUsable
<1>3. /\ excl[r] \cap (excl[q] \cup shared[q]) = {}
      /\ excl[q] \cap (excl[r] \cup shared[r]) = {}
  BY DEF LedgerInv, LocksCompatible
<1>4. /\ loc' = loc
      /\ \A i \in Items : item'[i].status = item[i].status
      /\ \A i \in Items : ItemRow(i) \in shared[q] \cup excl[q] => item'[i] = item[i]
  BY <1>2, <1>3, PostEffect
<1>5. \A i \in Items : ItemRow(i) \in excl[q] =>
        \A l \in Locations : bal'[<<i, l>>] = bal[<<i, l>>] /\ ledger'[<<i, l>>] = ledger[<<i, l>>]
  BY <1>2, <1>3, PostEffect DEF Pairs, PairsOf
<1>6. \A l \in Locations : LocationRow(l) \in excl[q] =>
        \A i \in Items : bal'[<<i, l>>] = bal[<<i, l>>] /\ ledger'[<<i, l>>] = ledger[<<i, l>>]
  BY <1>2, <1>3, PostEffect DEF Pairs, PairsOf
<1>7. \A i \in Items, l \in Locations :
        BalanceRow(i, l) \in excl[q] => bal'[<<i, l>>] = bal[<<i, l>>]
  BY <1>2, <1>3, PostEffect DEF Pairs, PairsOf
<1>8. OwnLocks(q)'
  BY <1>1 DEF LedgerInv, OwnLocks, LocationsLeft, BalancesLeft
<1>9. pc[q] \in Moving => d.item \in Items /\ LocationsOf(d) \subseteq Locations
  BY LeftTypes
<1>10. MovementReads(q)'
  BY <1>1, <1>4, <1>7, <1>9
     DEF LedgerInv, MovementReads, Moving, ItemLocked, LocationsLocked, BalancesLocked
<1>11. MovementChecked(q)'
  <2>1. SUFFICES ASSUME pc[q] = "commit" PROVE MovementChecked(q)'
    BY <1>1 DEF MovementChecked
  <2>2. row[q].track = "serial" => ItemRow(d.item) \in excl[q]
    BY <2>1, AtCommit DEF LedgerInv, ItemUsable, NeedsExclusive
  <2>3. CASE row[q].track = "serial"
    <3>1. RowsOf(ledger, d.item)' = RowsOf(ledger, d.item)
      BY <1>1, <1>5, <2>2, <2>3, <2>1, AtCommit DEF LedgerInv, RowsOf
    <3> QED BY <1>1, <3>1 DEF LedgerInv, MovementChecked
  <2>4. CASE row[q].track # "serial"
    BY <1>1, <2>4 DEF LedgerInv, MovementChecked, SerialRoom
  <2> QED BY <2>3, <2>4
<1>12. MasterReads(q)'
  <2>1. pc[q] \in {"decide", "write"} =>
          IF d.op \in ItemOps THEN d.item \in Items ELSE d.loc \in Locations
    BY MasterTypes
  <2>2. CASE pc[q] \in {"decide", "write"} /\ d.op \in ItemOps
    <3>1. /\ ItemRow(d.item) \in excl[q] /\ item'[d.item] = item[d.item]
          /\ \A l \in Locations : /\ bal'[<<d.item, l>>] = bal[<<d.item, l>>]
                                /\ ledger'[<<d.item, l>>] = ledger[<<d.item, l>>]
      BY <1>4, <1>5, <2>1, <2>2 DEF LedgerInv, MasterReads, MasterRow
    <3>2. ItemHasStock(bal', d.item) <=> ItemHasStock(bal, d.item)
      BY <3>1 DEF ItemHasStock
    <3>3. ItemCallAccepted(d, row[q], bal', ledger') <=> ItemCallAccepted(d, row[q], bal, ledger)
      BY <3>1, <3>2 DEF ItemCallAccepted
    <3> HIDE DEF d
    <3>4. /\ MasterRow(d)' = MasterRow(d) /\ MasterStatus(d)' = MasterStatus(d)
          /\ (call[q])' = call[q]
      BY <1>1, <2>2, <3>1 DEF MasterRow, MasterStatus, d
    <3> QED BY <1>1, <2>2, <3>1, <3>3, <3>4 DEF LedgerInv, MasterReads, d
  <2>3. CASE pc[q] \in {"decide", "write"} /\ d.op \notin ItemOps
    <3>1. /\ LocationRow(d.loc) \in excl[q]
          /\ \A i \in Items : /\ bal'[<<i, d.loc>>] = bal[<<i, d.loc>>]
                            /\ ledger'[<<i, d.loc>>] = ledger[<<i, d.loc>>]
      BY <1>6, <2>1, <2>3 DEF LedgerInv, MasterReads, MasterRow
    <3>2. LocationHasStock(bal', d.loc) <=> LocationHasStock(bal, d.loc)
      BY <3>1 DEF LocationHasStock
    <3>3. LocationCallAccepted(d, loc[d.loc], bal', ledger')
            <=> LocationCallAccepted(d, loc[d.loc], bal, ledger)
      BY <3>1, <3>2 DEF LocationCallAccepted
    <3> HIDE DEF d
    <3>4. /\ MasterRow(d)' = MasterRow(d) /\ MasterStatus(d)' = MasterStatus(d)
      BY <1>1, <1>4, <2>3 DEF MasterRow, MasterStatus, d
    <3> QED BY <1>1, <1>4, <2>3, <3>1, <3>3, <3>4 DEF LedgerInv, MasterReads, d
  <2>4. CASE pc[q] \notin {"decide", "write"}
    BY <1>1, <2>4 DEF LedgerInv, MasterReads
  <2> QED BY <2>2, <2>3, <2>4
<1> QED BY <1>8, <1>10, <1>11, <1>12 DEF RequestInv

\* A commit keeps the invariant.
LEMMA CommitKeepsInv ==
  ASSUME LedgerInv, NEW r \in Requests, Commit(r)
  PROVE  LedgerInv'
<1>1. CASE Refuse(r)
  BY <1>1, RefuseKeepsInv
<1>2. CASE ~Refuse(r)
  <2>1. pc[r] = "commit" /\ Post(r) /\ End(r, "done")
    BY <1>2 DEF Commit
  <2>2. TypeOK'
    BY <2>1, PostTypes DEF Post, End, LedgerInv, TypeOK, PCs, Ended
  <2>3. LocksCompatible'
    BY <2>1 DEF End, LedgerInv, TypeOK, LocksCompatible
  <2>4. RequestInv(r)'
    BY <2>1 DEF End, LedgerInv, TypeOK, RequestInv, OwnLocks, MovementReads,
       MovementChecked, MasterReads, Ended, Moving, ItemLocked, LocationsLocked,
       BalancesLocked
  <2>5. ASSUME NEW q \in Requests \ {r} PROVE RequestInv(q)'
    BY <2>1, PostLeavesOthers
  <2> QED BY <2>2, <2>3, <2>4, <2>5 DEF LedgerInv, RequestInv
<1> QED BY <1>1, <1>2

--------------------------------------------------------------------------------
\* The invariant holds of every behaviour.

\* The initial state has no lock and no row in the ledger.
LEMMA InitInv == Init => LedgerInv
<1> SUFFICES ASSUME Init PROVE LedgerInv
  OBVIOUS
<1>1. Fresh \in ItemRecord /\ \A t \in StartTracks : [Fresh EXCEPT !.track = t] \in ItemRecord
  BY StartTracksAssumption DEF Fresh, ItemRecord, Statuses, TrackModes
<1>2. TypeOK
  <2>1. item \in [Items -> ItemRecord] /\ row \in [Requests -> ItemRecord]
    BY <1>1 DEF Init
  <2>2. ledger \in [Pairs -> Seq(MovementRow)]
    BY DEF Init
  <2> QED BY <2>1, <2>2 DEF Init, TypeOK, PCs, Statuses
<1>3. LocksCompatible
  BY DEF Init, LocksCompatible
<1>4. ASSUME NEW r \in Requests PROVE RequestInv(r)
  BY DEF Init, RequestInv, OwnLocks, MovementReads, MovementChecked, MasterReads, Moving,
     ItemLocked, LocationsLocked, BalancesLocked
<1> QED BY <1>2, <1>3, <1>4 DEF LedgerInv, RequestInv

\* The invariant is inductive.
LEMMA NextKeepsInv == LedgerInv /\ [Next]_vars => LedgerInv'
<1> SUFFICES ASSUME LedgerInv, [Next]_vars PROVE LedgerInv'
  OBVIOUS
<1>1. CASE UNCHANGED vars
  <2>1. TypeOK' /\ LocksCompatible'
    BY <1>1 DEF vars, request, tables, LedgerInv, TypeOK, LocksCompatible
  <2>2. ASSUME NEW r \in Requests PROVE RequestInv(r)'
    BY <1>1, OthersUndisturbed DEF vars, request, LedgerInv, RequestInv
  <2> QED BY <2>1, <2>2 DEF LedgerInv, RequestInv
<1>2. ASSUME NEW r \in Requests, Step(r) PROVE LedgerInv'
  BY <1>2, StartMovementKeepsInv, LockItemKeepsInv, LockLocationKeepsInv,
     LockBalanceKeepsInv, CheckKeepsInv, CommitKeepsInv, StartMasterKeepsInv,
     LockMasterKeepsInv, DecideKeepsInv, WriteMasterKeepsInv DEF Step
<1>3. ASSUME NEW r \in Requests, Rollback(r) PROVE LedgerInv'
  BY <1>3, RefuseKeepsInv DEF Rollback
<1> QED BY <1>1, <1>2, <1>3 DEF Next, Finished

\* Locks never conflict, what a request read under its locks is still so, and
\* what it checked still holds when it commits.
THEOREM LedgerInvariant == Spec => []LedgerInv
  BY InitInv, NextKeepsInv, PTL DEF Spec

\* Every variable keeps its type.
THEOREM TypeCorrect == Spec => []TypeOK
<1>1. LedgerInv => TypeOK
  BY DEF LedgerInv
<1> QED BY <1>1, LedgerInvariant, PTL

--------------------------------------------------------------------------------
\* Which steps write the tables, and what they write.

\* Only a commit and a master-data write change a table.
LEMMA TableSteps ==
  ASSUME LedgerInv, [Next]_vars
  PROVE  \/ UNCHANGED tables
         \/ \E r \in Requests : pc[r] = "commit" /\ Post(r) /\ End(r, "done")
                              /\ ~ExpiryRefused(call[r], row[r], expiry)
         \/ \E r \in Requests : pc[r] = "write" /\ WriteMaster(r)
<1>1. CASE UNCHANGED vars
  BY <1>1 DEF vars
<1>2. ASSUME NEW r \in Requests, Step(r) \/ Rollback(r), ~UNCHANGED tables
      PROVE  (Commit(r) /\ ~Refuse(r)) \/ WriteMaster(r)
  BY <1>2 DEF Step, Rollback, StartMovement, LockItem, LockLocation, LockBalance, Check,
     Commit, StartMaster, LockMaster, Decide, Refuse
<1>3. ASSUME NEW r \in Requests, Commit(r), ~Refuse(r)
      PROVE  /\ pc[r] = "commit" /\ Post(r) /\ End(r, "done")
             /\ ~ExpiryRefused(call[r], row[r], expiry)
  BY <1>3 DEF Commit
<1>4. ASSUME NEW r \in Requests, WriteMaster(r) PROVE pc[r] = "write"
  BY <1>4 DEF WriteMaster
<1> QED BY <1>1, <1>2, <1>3, <1>4 DEF Next, Finished, vars

--------------------------------------------------------------------------------
\* Balances are the ledger.

\* A movement appends rows that carry the balance on, pair by pair.
LEMMA ChainGrows ==
  ASSUME NEW rows \in Seq(MovementRow), NEW total \in Int, Chained(rows, total),
         NEW new \in MovementRow, new.after = total + new.delta
  PROVE  Chained(Append(rows, new), total + new.delta)
<1> DEFINE longer == Append(rows, new)
<1>1. /\ Len(longer) = Len(rows) + 1 /\ longer # << >>
      /\ DOMAIN longer = 1..(Len(rows) + 1) /\ DOMAIN rows = 1..Len(rows)
      /\ \A k \in 1..Len(rows) : longer[k] = rows[k]
      /\ longer[Len(rows) + 1] = new /\ Len(rows) \in Nat
  OBVIOUS
<1>2. new.delta \in Int /\ new.after \in Int
  BY DEF MovementRow
<1> HIDE DEF longer
<1>3. ASSUME NEW k \in DOMAIN longer
      PROVE  longer[k].after = longer[k].delta + (IF k = 1 THEN 0 ELSE longer[k - 1].after)
  <2>1. CASE k \in 1..Len(rows)
    <3>1. rows[k].after = rows[k].delta + (IF k = 1 THEN 0 ELSE rows[k - 1].after)
      BY <1>1, <2>1 DEF Chained
    <3>2. k # 1 => k - 1 \in 1..Len(rows)
      BY <1>1, <2>1
    <3> QED BY <1>1, <2>1, <3>1, <3>2
  <2>2. CASE k = Len(rows) + 1 /\ rows = << >>
    <3>1. Len(rows) = 0 /\ total = 0
      BY <2>2 DEF Chained
    <3> QED BY <1>1, <1>2, <2>2, <3>1
  <2>3. CASE k = Len(rows) + 1 /\ rows # << >>
    <3>1. Len(rows) # 0 /\ total = rows[Len(rows)].after
      BY <2>3 DEF Chained
    <3> QED BY <1>1, <1>2, <2>3, <3>1
  <2> QED BY <1>1, <2>1, <2>2, <2>3
<1>4. longer[Len(longer)].after = total + new.delta
  BY <1>1
<1> QED BY <1>1, <1>3, <1>4 DEF Chained, longer

\* Every balance is the running total of its movement rows, whatever postings race
\* for it: a balance row is read and written under one exclusive lock.
THEOREM BalancesAreTheLedger == Spec => []BalanceIsLedger
<1>1. Init => BalanceIsLedger
  BY DEF Init, BalanceIsLedger, Chained
<1>2. LedgerInv /\ BalanceIsLedger /\ [Next]_vars => BalanceIsLedger'
  <2> SUFFICES ASSUME LedgerInv, BalanceIsLedger, [Next]_vars PROVE BalanceIsLedger'
    OBVIOUS
  <2>1. CASE UNCHANGED tables
    BY <2>1 DEF BalanceIsLedger, tables
  <2>2. ASSUME NEW r \in Requests, pc[r] = "commit", Post(r) PROVE BalanceIsLedger'
    <3> DEFINE c == call[r]
    <3>1. ASSUME NEW p \in PairsOf(c) PROVE Chained(ledger'[p], bal'[p])
      <4> DEFINE l == p[2]
                 new == RowPosted(r, c, l, seen[r])
      <4>1. p \in Pairs /\ l \in LocationsOf(c) /\ l \in Locations /\ p = <<c.item, l>>
        BY <2>2, <3>1, AtCommit DEF PairsOf
      <4>2. seen[r][l] = bal[p] /\ bal[p] \in Int /\ c \in MovementCall
        BY <2>2, <4>1, AtCommit DEF LedgerInv, TypeOK
      <4>3. DeltaAt(c, l, seen[r][l]) \in Int
        BY <4>1, <4>2, MovementTypes
      <4>4. /\ new \in MovementRow /\ new.delta = DeltaAt(c, l, seen[r][l])
            /\ new.after = bal[p] + new.delta
        BY <4>2, <4>3 DEF RowPosted, MovementRow, MovementCall
      <4>5. ledger'[p] = Append(ledger[p], new) /\ bal'[p] = bal[p] + new.delta
        BY <2>2, <3>1, <4>1, <4>2, <4>4 DEF Post, BalancesPosted, LedgerPosted
      <4>6. ledger[p] \in Seq(MovementRow) /\ Chained(ledger[p], bal[p])
        BY <4>1 DEF LedgerInv, TypeOK, BalanceIsLedger
      <4> HIDE DEF l, new
      <4> QED BY <4>2, <4>4, <4>5, <4>6, ChainGrows
    <3>2. ASSUME NEW p \in Pairs \ PairsOf(c) PROVE Chained(ledger'[p], bal'[p])
      BY <2>2, <3>2, PostEffect DEF BalanceIsLedger
    <3> QED BY <3>1, <3>2 DEF BalanceIsLedger
  <2>3. ASSUME NEW r \in Requests, WriteMaster(r) PROVE BalanceIsLedger'
    BY <2>3 DEF WriteMaster, BalanceIsLedger
  <2> QED BY <2>1, <2>2, <2>3, TableSteps
<1> QED BY <1>1, <1>2, LedgerInvariant, PTL DEF Spec

--------------------------------------------------------------------------------
\* Stock never goes below zero.

\* With the setting off no interleaving takes a balance below zero.
THEOREM StockNotNegative == Spec => []NonNegativeStock
<1>1. Init => NonNegativeStock
  BY DEF Init, NonNegativeStock
<1>2. LedgerInv /\ NonNegativeStock /\ [Next]_vars => NonNegativeStock'
  <2> SUFFICES ASSUME LedgerInv, NonNegativeStock, [Next]_vars, ~AllowNegative
               PROVE  \A p \in Pairs : bal'[p] >= 0
    BY DEF NonNegativeStock
  <2>1. CASE UNCHANGED tables
    BY <2>1 DEF NonNegativeStock, tables
  <2>2. ASSUME NEW r \in Requests, pc[r] = "commit", Post(r), NEW p \in Pairs
        PROVE  bal'[p] >= 0
    <3> DEFINE c == call[r]
               l == p[2]
               before == seen[r][l]
    <3>1. CASE p \in PairsOf(c)
      <4>1. /\ l \in LocationsOf(c) /\ l \in Locations /\ p = <<c.item, l>>
            /\ c \in MovementCall /\ before = bal[p] /\ QtyAccepted(c, l, before)
        BY <2>2, <3>1, AtCommit DEF PairsOf
      <4>2. bal[p] \in Int /\ bal[p] >= 0 /\ DeltaAt(c, l, before) \in Int
        BY <4>1, MovementTypes DEF LedgerInv, TypeOK, NonNegativeStock
      <4>3. bal'[p] = before + DeltaAt(c, l, before)
        BY <2>2, <3>1 DEF Post, BalancesPosted
      <4>4. CASE c.op = "adjustSet"
        <5>1. c.qty >= 0 /\ c.qty \in Int /\ DeltaAt(c, l, before) = c.qty - before
          BY <4>1, <4>4 DEF QtyAccepted, DeltaAt, MovementCall
        <5> QED BY <4>1, <4>2, <4>3, <5>1
      <4>5. CASE c.op # "adjustSet"
        <5>1. ~Insufficient(before, before + DeltaAt(c, l, before))
          BY <4>1, <4>5 DEF QtyAccepted
        <5> HIDE DEF before, l
        <5> QED BY <4>1, <4>2, <4>3, <5>1 DEF Insufficient
      <4> QED BY <4>4, <4>5
    <3>2. CASE p \notin PairsOf(c)
      BY <2>2, <3>2, PostEffect DEF NonNegativeStock
    <3> QED BY <3>1, <3>2
  <2>3. ASSUME NEW r \in Requests, WriteMaster(r) PROVE \A p \in Pairs : bal'[p] >= 0
    BY <2>3 DEF WriteMaster, NonNegativeStock
  <2> QED BY <2>1, <2>2, <2>3, TableSteps
<1> QED BY <1>1, <1>2, LedgerInvariant, PTL DEF Spec

--------------------------------------------------------------------------------
\* Master data and stock.

\* The masters of a movement are active when it commits, and keep their status.
LEMMA PostMasters ==
  ASSUME LedgerInv, NEW r \in Requests, pc[r] = "commit", Post(r)
  PROVE  /\ \A p \in PairsOf(call[r]) : item[p[1]].status = "active" /\ loc[p[2]] = "active"
         /\ \A i \in Items : item'[i].status = item[i].status
         /\ loc' = loc
<1>1. \A p \in PairsOf(call[r]) : item[p[1]].status = "active" /\ loc[p[2]] = "active"
  BY AtCommit DEF PairsOf, ItemUsable
<1> QED BY <1>1, PostEffect, AtCommit

\* An item or location that a write retires holds no stock, and one that it deletes
\* has no movement rows.
LEMMA WriteItemEffect ==
  ASSUME LedgerInv, BalanceIsLedger, NEW r \in Requests, WriteMaster(r),
         call[r].op \in ItemOps, NEW i \in Items, NEW l \in Locations
  PROVE  /\ loc' = loc /\ bal' = bal /\ ledger' = ledger
         /\ item'[i].status # "active" /\ item[i].status = "active" => bal[<<i, l>>] = 0
         /\ item'[i].status = "gone" /\ item[i].status # "gone" => ledger[<<i, l>>] = << >>
<1> DEFINE c == call[r]
<1>1. /\ c \in ItemCall /\ c.item \in Items /\ row[r] = item[c.item]
      /\ ItemCallAccepted(c, row[r], bal, ledger)
  BY MasterTypes DEF LedgerInv, MasterReads, WriteMaster
<1>2. /\ loc' = loc /\ bal' = bal /\ ledger' = ledger
      /\ item' = [item EXCEPT ![c.item] = ItemAfter(c, @)]
  BY DEF WriteMaster
<1>3. CASE i # c.item
  BY <1>1, <1>2, <1>3 DEF LedgerInv, TypeOK
<1>4. CASE i = c.item
  <2>1. item'[i] = ItemAfter(c, item[i]) /\ item[i] \in ItemRecord
    BY <1>1, <1>2, <1>4 DEF LedgerInv, TypeOK
  <2>2. CASE c.op = "updateItem"
    <3>1. /\ item'[i].status = NewStatus(c, item[i].status) /\ c.active \in {"yes", "no", "keep"}
          /\ c.active = "no" /\ item[i].status = "active" => ~ItemHasStock(bal, i)
      BY <1>1, <1>4, <2>1, <2>2 DEF ItemAfter, ItemCallAccepted, ItemRecord, ItemCall
    <3> QED BY <1>2, <3>1 DEF NewStatus, ItemHasStock
  <2>3. CASE c.op = "deleteItem"
    <3>1. ledger[<<i, l>>] = << >>
      BY <1>1, <1>4, <2>3 DEF ItemCallAccepted
    <3>2. bal[<<i, l>>] = 0
      BY <3>1 DEF BalanceIsLedger, Chained, Pairs
    <3> QED BY <1>2, <3>1, <3>2
  <2>4. CASE c.op \in {"markOnOrder", "clearOnOrder"}
    <3>1. item'[i].status = item[i].status
      BY <2>1, <2>4 DEF ItemAfter, ItemRecord
    <3> QED BY <1>2, <3>1
  <2> QED BY <2>2, <2>3, <2>4 DEF ItemOps
<1> QED BY <1>3, <1>4

\* The same for a location.
LEMMA WriteLocationEffect ==
  ASSUME LedgerInv, BalanceIsLedger, NEW r \in Requests, WriteMaster(r),
         call[r].op \notin ItemOps, NEW i \in Items, NEW l \in Locations
  PROVE  /\ item' = item /\ bal' = bal /\ ledger' = ledger
         /\ loc'[l] # "active" /\ loc[l] = "active" => bal[<<i, l>>] = 0
         /\ loc'[l] = "gone" /\ loc[l] # "gone" => ledger[<<i, l>>] = << >>
<1> DEFINE c == call[r]
<1>1. /\ c \in LocationCall /\ c.loc \in Locations /\ c.op \in LocationOps
      /\ LocationCallAccepted(c, loc[c.loc], bal, ledger)
  BY MasterTypes DEF LedgerInv, MasterReads, WriteMaster
<1>2. /\ item' = item /\ bal' = bal /\ ledger' = ledger
      /\ loc' = [loc EXCEPT ![c.loc] = LocationAfter(c, @)]
  BY DEF WriteMaster
<1>3. CASE l # c.loc
  BY <1>1, <1>2, <1>3 DEF LedgerInv, TypeOK
<1>4. CASE l = c.loc
  <2>1. loc'[l] = LocationAfter(c, loc[l])
    BY <1>1, <1>2, <1>4 DEF LedgerInv, TypeOK
  <2>2. CASE c.op = "updateLocation"
    <3>1. /\ loc'[l] = NewStatus(c, loc[l]) /\ c.active \in {"yes", "no", "keep"}
          /\ c.active = "no" /\ loc[l] = "active" => ~LocationHasStock(bal, l)
      BY <1>1, <1>4, <2>1, <2>2 DEF LocationAfter, LocationCallAccepted, LocationCall
    <3> QED BY <1>2, <3>1 DEF NewStatus, LocationHasStock
  <2>3. CASE c.op = "deleteLocation"
    <3>1. ledger[<<i, l>>] = << >>
      BY <1>1, <1>4, <2>3 DEF LocationCallAccepted
    <3>2. bal[<<i, l>>] = 0
      BY <3>1 DEF BalanceIsLedger, Chained, Pairs
    <3> QED BY <1>2, <3>1, <3>2
  <2> QED BY <1>1, <2>2, <2>3 DEF LocationOps
<1> QED BY <1>3, <1>4

MastersMatchStock == RetiredHoldsNoStock /\ RowsHaveMasters

\* Every step keeps masters and the ledger in agreement.
LEMMA MastersStep ==
  LedgerInv /\ BalanceIsLedger /\ MastersMatchStock /\ [Next]_vars => MastersMatchStock'
<1> SUFFICES ASSUME LedgerInv, BalanceIsLedger, MastersMatchStock, [Next]_vars,
                    NEW i \in Items, NEW l \in Locations
             PROVE  /\ item'[i].status # "active" \/ loc'[l] # "active" => bal'[<<i, l>>] = 0
                    /\ ledger'[<<i, l>>] # << >> => item'[i].status # "gone" /\ loc'[l] # "gone"
  BY DEF MastersMatchStock, RetiredHoldsNoStock, RowsHaveMasters, Pairs
<1>1. /\ item[i].status # "active" \/ loc[l] # "active" => bal[<<i, l>>] = 0
      /\ ledger[<<i, l>>] # << >> => item[i].status # "gone" /\ loc[l] # "gone"
  BY DEF MastersMatchStock, RetiredHoldsNoStock, RowsHaveMasters, Pairs
<1>2. CASE UNCHANGED tables
  BY <1>1, <1>2 DEF tables
<1>3. ASSUME NEW r \in Requests, pc[r] = "commit", Post(r)
      PROVE  /\ item'[i].status # "active" \/ loc'[l] # "active" => bal'[<<i, l>>] = 0
             /\ ledger'[<<i, l>>] # << >> => item'[i].status # "gone" /\ loc'[l] # "gone"
  <2>1. CASE <<i, l>> \in PairsOf(call[r])
    BY <1>3, <2>1, PostMasters
  <2>2. CASE <<i, l>> \notin PairsOf(call[r])
    BY <1>1, <1>3, <2>2, PostMasters, PostEffect DEF Pairs
  <2> QED BY <2>1, <2>2
<1>4. ASSUME NEW r \in Requests, WriteMaster(r)
      PROVE  /\ item'[i].status # "active" \/ loc'[l] # "active" => bal'[<<i, l>>] = 0
             /\ ledger'[<<i, l>>] # << >> => item'[i].status # "gone" /\ loc'[l] # "gone"
  <2>1. CASE call[r].op \in ItemOps
    BY <1>1, <1>4, <2>1, WriteItemEffect
  <2>2. CASE call[r].op \notin ItemOps
    BY <1>1, <1>4, <2>2, WriteLocationEffect
  <2> QED BY <2>1, <2>2
<1> QED BY <1>2, <1>3, <1>4, TableSteps

\* Masters and the ledger agree in every reachable state.
LEMMA MastersInvariant == Spec => []MastersMatchStock
<1>1. Init => MastersMatchStock
  BY DEF Init, MastersMatchStock, RetiredHoldsNoStock, RowsHaveMasters
<1> QED BY <1>1, MastersStep, LedgerInvariant, BalancesAreTheLedger, PTL DEF Spec

\* A retired item or location holds no stock, whatever movements were under way
\* while it was retired.
THEOREM RetiredIsEmpty == Spec => []RetiredHoldsNoStock
<1>1. MastersMatchStock => RetiredHoldsNoStock
  BY DEF MastersMatchStock
<1> QED BY <1>1, MastersInvariant, PTL

\* No movement row is left behind by a deleted item or location.
THEOREM RowsKeepTheirMasters == Spec => []RowsHaveMasters
<1>1. MastersMatchStock => RowsHaveMasters
  BY DEF MastersMatchStock
<1> QED BY <1>1, MastersInvariant, PTL

--------------------------------------------------------------------------------
\* What a commit does, as action properties.

\* The step that answers a movement with "done" is its commit.
LEMMA DoneIsPosted ==
  ASSUME LedgerInv, [Next]_vars, NEW r \in Requests, pc[r] = "commit", pc'[r] = "done"
  PROVE  Post(r) /\ ~ExpiryRefused(call[r], row[r], expiry)
<1>1. ASSUME NEW q \in Requests, Refuse(q) PROVE FALSE
  BY <1>1 DEF Refuse, End, LedgerInv, TypeOK
<1>2. ASSUME NEW q \in Requests, q # r PROVE ~Step(q) /\ ~Rollback(q)
  BY <1>1, <1>2 DEF Step, Rollback, StartMovement, LockItem, LockLocation, LockBalance,
     Check, Commit, StartMaster, LockMaster, Decide, WriteMaster, Goto, End, LedgerInv, TypeOK
<1>3. ~UNCHANGED vars /\ ~Finished
  BY DEF vars, request, Finished
<1>4. Step(r)
  BY <1>1, <1>2, <1>3 DEF Next, Rollback
<1> QED BY <1>1, <1>4 DEF Step, StartMovement, LockItem, LockLocation, LockBalance, Check,
           Commit, StartMaster, LockMaster, Decide, WriteMaster

\* A movement is only ever appended, and only while its item and location are active.
THEOREM PostsOnlyWhileActive == Spec => PostedWhileActive
<1>1. LedgerInv /\ [Next]_vars =>
        [\A p \in Pairs : ledger'[p] # ledger[p] =>
           /\ item[p[1]].status = "active" /\ loc[p[2]] = "active"
           /\ Len(ledger'[p]) = Len(ledger[p]) + 1
           /\ SubSeq(ledger'[p], 1, Len(ledger[p])) = ledger[p]]_vars
  <2> SUFFICES ASSUME LedgerInv, [Next]_vars, NEW p \in Pairs, ledger'[p] # ledger[p]
               PROVE  /\ item[p[1]].status = "active" /\ loc[p[2]] = "active"
                      /\ Len(ledger'[p]) = Len(ledger[p]) + 1
                      /\ SubSeq(ledger'[p], 1, Len(ledger[p])) = ledger[p]
    OBVIOUS
  <2>1. PICK r \in Requests : pc[r] = "commit" /\ Post(r)
    BY TableSteps DEF tables, WriteMaster
  <2>2. p \in PairsOf(call[r])
    BY <2>1, PostEffect
  <2>3. item[p[1]].status = "active" /\ loc[p[2]] = "active"
    BY <2>1, <2>2, PostMasters
  <2>4. PICK new : ledger'[p] = Append(ledger[p], new) /\ new \in MovementRow
    <3> DEFINE new == RowPosted(r, call[r], p[2], seen[r])
    <3>1. ledger'[p] = Append(ledger[p], new)
      BY <2>1, <2>2 DEF Post, LedgerPosted
    <3>2. p[2] \in Locations /\ call[r] \in MovementCall
      BY <2>1, AtCommit DEF Pairs
    <3>3. seen[r][p[2]] \in Int /\ DeltaAt(call[r], p[2], seen[r][p[2]]) \in Int
      <4>1. seen[r] \in [Locations -> Int]
        BY DEF LedgerInv, TypeOK
      <4>2. seen[r][p[2]] \in Int
        BY <3>2, <4>1
      <4> QED BY <3>2, <4>2, MovementTypes
    <3>4. new \in MovementRow
      BY <3>2, <3>3 DEF RowPosted, MovementRow, MovementCall
    <3> QED BY <3>1, <3>4
  <2>5. ledger[p] \in Seq(MovementRow)
    BY DEF LedgerInv, TypeOK
  <2> QED BY <2>3, <2>4, <2>5
<1> QED BY <1>1, LedgerInvariant, PTL DEF Spec, PostedWhileActive

\* No receipt is lost to an on-order marker that was set while it was under way.
THEOREM MarkerSeesEveryReceipt == Spec => MarkerFollowsReceipts
<1>1. LedgerInv /\ [Next]_vars =>
        [\A r \in Requests, i \in Items : Posted(r, i) =>
           item'[i].mark = IF call[r].op = "receive"
                             THEN Decremented(item[i].mark, call[r].qty)
                             ELSE item[i].mark]_vars
  <2> SUFFICES ASSUME LedgerInv, [Next]_vars, NEW r \in Requests, NEW i \in Items, Posted(r, i)
               PROVE  item'[i].mark = IF call[r].op = "receive"
                                        THEN Decremented(item[i].mark, call[r].qty)
                                        ELSE item[i].mark
    OBVIOUS
  <2>1. pc[r] = "commit" /\ Post(r) /\ i = call[r].item
    BY DoneIsPosted DEF Posted
  <2>2. /\ row[r] = item[i] /\ item[i] \in ItemRecord /\ call[r] \in MovementCall
        /\ WellFormed(call[r])
    BY <2>1, AtCommit DEF LedgerInv, TypeOK
  <2>3. CASE call[r].op = "receive" /\ row[r].mark # 0
    <3>1. item' = [item EXCEPT ![i].mark = Decremented(@, call[r].qty)]
      BY <2>1, <2>3 DEF Post, ItemsPosted
    <3> QED BY <2>2, <2>3, <3>1 DEF LedgerInv, TypeOK, ItemRecord
  <2>4. CASE call[r].op = "receive" /\ row[r].mark = 0
    <3>1. item' = item /\ call[r].qty >= 0
      BY <2>1, <2>2, <2>4, LimitAssumption DEF Post, ItemsPosted, WellFormed, MovementOps, AdjustOps
    <3> QED BY <2>2, <2>4, <3>1 DEF Decremented
  <2>5. CASE call[r].op # "receive"
    BY <2>1, <2>5 DEF Post, ItemsPosted
  <2> QED BY <2>3, <2>4, <2>5
<1> QED BY <1>1, LedgerInvariant, PTL DEF Spec, MarkerFollowsReceipts

\* A request never changes what it asks for.
LEMMA CallsAreFixed ==
  ASSUME [Next]_vars
  PROVE  call' = call
<1>1. ASSUME NEW r, NEW how, End(r, how) PROVE call' = call
  BY <1>1 DEF End
<1>2. ASSUME NEW r, Refuse(r) PROVE call' = call
  BY <1>1, <1>2 DEF Refuse
<1>3. ASSUME NEW r \in Requests, Step(r) PROVE call' = call
  <2>1. CASE StartMovement(r) \/ StartMaster(r)
    BY <1>2, <2>1 DEF StartMovement, StartMaster
  <2>2. CASE LockItem(r)
    BY <1>2, <2>2 DEF LockItem
  <2>3. CASE LockLocation(r)
    BY <1>2, <2>3 DEF LockLocation
  <2>4. CASE LockBalance(r) \/ Check(r)
    BY <1>2, <2>4 DEF LockBalance, Check
  <2>5. CASE Commit(r)
    BY <1>1, <1>2, <2>5 DEF Commit
  <2>6. CASE LockMaster(r) \/ Decide(r)
    BY <1>2, <2>6 DEF LockMaster, Decide
  <2>7. CASE WriteMaster(r)
    BY <1>1, <2>7 DEF WriteMaster
  <2> QED BY <1>3, <2>1, <2>2, <2>3, <2>4, <2>5, <2>6, <2>7 DEF Step
<1>4. ASSUME NEW r \in Requests, Rollback(r) PROVE call' = call
  BY <1>2, <1>4 DEF Rollback
<1> QED BY <1>3, <1>4 DEF Next, Finished, vars, request

\* Two receipts of one lot never leave different expiries standing.
THEOREM ExpiriesAgree == Spec => []ReceiptsAgreeOnExpiry
<1>1. Init => ReceiptsAgreeOnExpiry
  BY DEF Init, ReceiptsAgreeOnExpiry
<1>2. LedgerInv /\ ReceiptsAgreeOnExpiry /\ [Next]_vars => ReceiptsAgreeOnExpiry'
  <2> SUFFICES ASSUME LedgerInv, ReceiptsAgreeOnExpiry, [Next]_vars
               PROVE  ReceiptsAgreeOnExpiry'
    OBVIOUS
  <2> call' = call
    BY CallsAreFixed
  <2> SUFFICES ASSUME NEW q \in Requests, pc'[q] = "done", call[q].op = "receive",
                      call[q].exp # 0
               PROVE  expiry'[<<call[q].item, call[q].lot>>] = call[q].exp
    BY DEF ReceiptsAgreeOnExpiry
  <2> DEFINE x == <<call[q].item, call[q].lot>>
  <2>1. pc[q] = "done" \/ pc[q] = "commit"
    <3>1. pc[q] # "write"
      BY DEF LedgerInv, MasterReads, MasterOps, ItemOps, LocationOps
    <3> QED BY <3>1 DEF Next, Step, Rollback, Finished, StartMovement, LockItem,
            LockLocation, LockBalance, Check, Commit, StartMaster, LockMaster, Decide,
            WriteMaster, Refuse, Goto, End, vars, request, LedgerInv, TypeOK
  <2>2. CASE pc[q] = "commit"
    <3>1. Post(q) /\ ~ExpiryRefused(call[q], row[q], expiry)
      BY <2>2, DoneIsPosted
    <3>2. /\ call[q] \in MovementCall /\ call[q].item \in Items
          /\ LotFits(call[q], row[q])
      BY <2>2, AtCommit DEF ItemUsable
    <3>3. row[q].track = "lot" /\ call[q].lot # NoLot /\ x \in Items \X Lots
      BY <3>2 DEF LotFits, MovementCall
    <3>4. expiry'[x] = ExpiryAfter(call[q], row[q], expiry[x])
      BY <3>1, <3>3 DEF Post, ExpiryPosted, LedgerInv, TypeOK
    <3> QED BY <3>1, <3>3, <3>4 DEF ExpiryRefused, ExpiryConflict, ExpiryAfter
  <2>3. CASE pc[q] = "done"
    <3>1. expiry[x] = call[q].exp
      BY <2>3 DEF ReceiptsAgreeOnExpiry
    <3>2. CASE UNCHANGED tables
      BY <3>1, <3>2 DEF tables
    <3>3. ASSUME NEW r \in Requests, Post(r) PROVE expiry'[x] = expiry[x]
      <4>1. CASE x = <<call[r].item, call[r].lot>> /\ call[r].lot # NoLot
        BY <3>1, <3>3, <4>1 DEF Post, ExpiryPosted, ExpiryAfter, LedgerInv, TypeOK
      <4>2. CASE ~(x = <<call[r].item, call[r].lot>> /\ call[r].lot # NoLot)
        BY <3>3, <4>2 DEF Post, ExpiryPosted, LedgerInv, TypeOK
      <4> QED BY <4>1, <4>2
    <3>4. ASSUME NEW r \in Requests, WriteMaster(r) PROVE expiry'[x] = expiry[x]
      BY <3>4 DEF WriteMaster
    <3> QED BY <3>1, <3>2, <3>3, <3>4, TableSteps
  <2> QED BY <2>1, <2>2, <2>3
<1> QED BY <1>1, <1>2, LedgerInvariant, PTL DEF Spec

--------------------------------------------------------------------------------
\* Requests take their rows in one order, so they never wait in a circle.

\* What a request holds while it asks for more: its item, the locations below those it
\* has still to lock, and after all of them the balances below those left.
LocksAscend(r) ==
  LET c == call[r]
      Below(left) == {k \in LocationsOf(c) : \A m \in left : k < m}
  IN
  /\ pc[r] = "locations" =>
       shared[r] \cup excl[r] \subseteq
         {ItemRow(c.item)} \cup {LocationRow(l) : l \in Below(LocationsLeft(r))}
  /\ pc[r] = "balances" =>
       shared[r] \cup excl[r] \subseteq
         {ItemRow(c.item)} \cup {LocationRow(l) : l \in LocationsOf(c)}
           \cup {BalanceRow(c.item, l) : l \in Below(BalancesLeft(r))}

\* Locking the lowest row that is left keeps the order.
LEMMA StepAscends ==
  ASSUME LedgerInv, NEW r \in Requests, LocksAscend(r), Step(r)
  PROVE  LocksAscend(r)'
<1> DEFINE c == call[r]
<1> SUFFICES ASSUME pc'[r] \in {"locations", "balances"} PROVE LocksAscend(r)'
  BY DEF LocksAscend
<1> call' = call
  BY CallsAreFixed DEF Next
<1>1. ~Refuse(r) /\ pc \in [Requests -> PCs]
  BY DEF Refuse, End, LedgerInv, TypeOK
<1>2. LockItem(r) \/ LockLocation(r) \/ LockBalance(r)
  BY <1>1 DEF Step, StartMovement, Check, Commit, StartMaster, LockMaster, Decide,
              WriteMaster, Goto, End
<1>3. CASE LockItem(r)
  <2>1. shared[r] = {} /\ excl[r] = {} /\ pc'[r] = "locations"
    BY <1>1, <1>3 DEF LockItem, Goto, LedgerInv, OwnLocks
  <2>2. shared'[r] \cup excl'[r] = {ItemRow(c.item)}
    BY <1>1, <1>3, <2>1 DEF LockItem, Share, Exclude, LedgerInv, TypeOK
  <2> QED BY <2>1, <2>2 DEF LocksAscend
<1>4. CASE LockLocation(r)
  <2> DEFINE l == NextOf(r, LocationsLeft(r))
  <2>1. /\ pc[r] = "locations" /\ Share(r, LocationRow(l))
        /\ IF LocationsLeft(r) = {l} THEN pc' = [pc EXCEPT ![r] = "balances"]
                                     ELSE UNCHANGED pc
    BY <1>1, <1>4 DEF LockLocation, Goto
  <2>2. /\ c \in MovementCall /\ LocationsLeft(r) \subseteq LocationsOf(c)
        /\ LocationsOf(c) \subseteq Nat /\ LocationsLeft(r) # {}
    BY <2>1, LeftTypes, IdAssumption DEF Moving, LedgerInv, OwnLocks
  <2>3. l \in LocationsLeft(r) /\ \A m \in LocationsLeft(r) : l =< m
    BY <2>2, NextIsLeft
  <2> HIDE DEF l
  <2>4. shared'[r] = shared[r] \cup {LocationRow(l)} /\ excl' = excl
    BY <2>1 DEF Share, LedgerInv, TypeOK
  <2>5. LocationsLeft(r)' = LocationsLeft(r) \ {l}
    BY <2>4, RowNames DEF LocationsLeft
  <2>6. \A m \in LocationsLeft(r) \ {l} : l < m
    BY <2>2, <2>3
  <2>7. shared'[r] \cup excl'[r] \subseteq
          {ItemRow(c.item)}
            \cup {LocationRow(k) : k \in {k \in LocationsOf(c) : \A m \in LocationsLeft(r)' : k < m}}
    BY <2>1, <2>2, <2>3, <2>4, <2>5, <2>6 DEF LocksAscend
  <2>8. pc'[r] = "balances" => LocationsLeft(r)' = {}
    BY <1>1, <2>1, <2>5
  <2> QED BY <2>7, <2>8 DEF LocksAscend
<1>5. CASE LockBalance(r)
  <2> DEFINE l == NextOf(r, BalancesLeft(r))
  <2>1. /\ pc[r] = "balances" /\ Exclude(r, BalanceRow(c.item, l))
        /\ pc'[r] = "balances"
    BY <1>1, <1>5 DEF LockBalance, Goto
  <2>2. /\ c \in MovementCall /\ BalancesLeft(r) \subseteq LocationsOf(c)
        /\ LocationsOf(c) \subseteq Nat /\ BalancesLeft(r) # {}
    BY <2>1, LeftTypes, IdAssumption DEF Moving, LedgerInv, OwnLocks
  <2>3. l \in BalancesLeft(r) /\ \A m \in BalancesLeft(r) : l =< m
    BY <2>2, NextIsLeft
  <2> HIDE DEF l
  <2>4. excl'[r] = excl[r] \cup {BalanceRow(c.item, l)} /\ shared' = shared
    BY <2>1 DEF Exclude, LedgerInv, TypeOK
  <2>5. BalancesLeft(r)' = BalancesLeft(r) \ {l}
    BY <2>4, RowNames DEF BalancesLeft
  <2>6. \A m \in BalancesLeft(r) \ {l} : l < m
    BY <2>2, <2>3
  <2> QED BY <2>1, <2>2, <2>3, <2>4, <2>5, <2>6 DEF LocksAscend
<1> QED BY <1>2, <1>3, <1>4, <1>5

\* Every request keeps the order.
LEMMA OrderInvariant == Spec => [](\A r \in Requests : LocksAscend(r))
<1>1. Init => \A r \in Requests : LocksAscend(r)
  BY DEF Init, LocksAscend
<1>2. LedgerInv /\ (\A r \in Requests : LocksAscend(r)) /\ [Next]_vars
        => (\A r \in Requests : LocksAscend(r))'
  <2> SUFFICES ASSUME LedgerInv, \A q \in Requests : LocksAscend(q), [Next]_vars,
                      NEW r \in Requests
               PROVE  LocksAscend(r)'
    OBVIOUS
  <2>1. CASE Step(r)
    BY <2>1, StepAscends
  <2>2. CASE Rollback(r)
    BY <2>2 DEF Rollback, Refuse, End, LocksAscend, LedgerInv, TypeOK
  <2>3. ASSUME ~Step(r), ~Rollback(r)
        PROVE  pc'[r] = pc[r] /\ call'[r] = call[r] /\ shared'[r] = shared[r] /\ excl'[r] = excl[r]
    <3>1. CASE UNCHANGED vars
      BY <3>1 DEF vars, request
    <3>2. ASSUME NEW q \in Requests \ {r}, Step(q) \/ Rollback(q)
          PROVE  pc'[r] = pc[r] /\ call'[r] = call[r] /\ shared'[r] = shared[r] /\ excl'[r] = excl[r]
      <4>1. ASSUME NEW how, End(q, how)
            PROVE  pc'[r] = pc[r] /\ call'[r] = call[r] /\ shared'[r] = shared[r] /\ excl'[r] = excl[r]
        BY <4>1 DEF End, LedgerInv, TypeOK
      <4>2. CASE Refuse(q) \/ Commit(q) \/ WriteMaster(q)
        BY <4>1, <4>2 DEF Refuse, Commit, WriteMaster
      <4>3. CASE ~(Refuse(q) \/ Commit(q) \/ WriteMaster(q))
        BY <3>2, <4>3 DEF Step, Rollback, StartMovement, LockItem, LockLocation, LockBalance,
           Check, StartMaster, LockMaster, Decide, Goto, Share, Exclude, LedgerInv, TypeOK
      <4> QED BY <4>2, <4>3
    <3> QED BY <2>3, <3>1, <3>2 DEF Next, Finished
  <2>4. CASE ~Step(r) /\ ~Rollback(r)
    BY <2>3, <2>4 DEF LocksAscend, LocationsLeft, BalancesLeft
  <2> QED BY <2>1, <2>2, <2>4
<1> QED BY <1>1, <1>2, LedgerInvariant, PTL DEF Spec

\* The place of the row a request wants: items, then locations, then balances.
Kind(r) == IF pc[r] = "item" \/ (pc[r] = "master" /\ call[r].op \in ItemOps) THEN 1
           ELSE IF pc[r] \in {"locations", "master"} THEN 2 ELSE 3
Place(r) == CASE pc[r] = "locations" -> NextOf(r, LocationsLeft(r))
              [] pc[r] = "balances"  -> NextOf(r, BalancesLeft(r))
              [] pc[r] = "master" /\ call[r].op \notin ItemOps -> call[r].loc
              [] OTHER -> 0
Asking == {"item", "locations", "balances", "master"}
WantsLater(r, q) == Kind(r) < Kind(q) \/ (Kind(r) = Kind(q) /\ Place(r) < Place(q))

\* A place is a number.
LEMMA PlaceTypes ==
  ASSUME LedgerInv, NEW r \in Requests, pc[r] \in Asking
  PROVE  Kind(r) \in Nat /\ Place(r) \in Nat
<1>1. CASE pc[r] = "locations"
  <2>1. LocationsLeft(r) # {} /\ call[r] \in MovementCall
        /\ LocationsLeft(r) \subseteq LocationsOf(call[r]) /\ LocationsOf(call[r]) \subseteq Nat
    BY <1>1, LeftTypes, IdAssumption DEF Moving, LedgerInv, OwnLocks
  <2>2. NextOf(r, LocationsLeft(r)) \in Nat
    BY <2>1, NextIsLeft
  <2> QED BY <1>1, <2>2 DEF Kind, Place
<1>2. CASE pc[r] = "balances"
  <2>1. BalancesLeft(r) # {} /\ call[r] \in MovementCall
        /\ BalancesLeft(r) \subseteq LocationsOf(call[r]) /\ LocationsOf(call[r]) \subseteq Nat
    BY <1>2, LeftTypes, IdAssumption DEF Moving, LedgerInv, OwnLocks
  <2>2. NextOf(r, BalancesLeft(r)) \in Nat
    BY <2>1, NextIsLeft
  <2> QED BY <1>2, <2>2 DEF Kind, Place
<1>3. CASE pc[r] = "master"
  <2>1. call[r].op \notin ItemOps => call[r].loc \in Nat
    BY <1>3, MasterTypes, IdAssumption DEF LedgerInv, MasterReads
  <2> QED BY <1>3, <2>1 DEF Kind, Place
<1>4. CASE pc[r] = "item"
  BY <1>4 DEF Kind, Place
<1> QED BY <1>1, <1>2, <1>3, <1>4 DEF Asking

\* Whoever is waited for, and waits himself, wants a later row.
LEMMA WaitsForLater ==
  ASSUME LedgerInv, \A p \in Requests : LocksAscend(p),
         NEW r \in Requests, NEW q \in Requests, WaitsFor(r, q), pc[q] \in Asking
  PROVE  WantsLater(r, q)
<1>1. PICK x \in Wanted(r) : x \in shared[q] \cup excl[q]
  BY DEF WaitsFor
<1>2. pc[q] \in {"locations", "balances"}
  BY <1>1 DEF LedgerInv, OwnLocks, Asking
<1>3. /\ call[q] \in MovementCall /\ LocationsOf(call[q]) \subseteq Nat
      /\ LocationsLeft(q) \subseteq LocationsOf(call[q])
      /\ BalancesLeft(q) \subseteq LocationsOf(call[q])
  BY <1>2, LeftTypes, IdAssumption DEF Moving
<1>4. /\ pc[q] = "locations" => Place(q) \in LocationsLeft(q)
      /\ pc[q] = "balances" => Place(q) \in BalancesLeft(q)
  BY <1>2, <1>3, NextIsLeft DEF LedgerInv, OwnLocks, Place
<1>5. pc[r] \in Asking /\ Kind(r) \in Nat /\ Place(r) \in Nat
  BY <1>1, PlaceTypes DEF Wanted, Asking
<1>6. CASE \E i : x = ItemRow(i)
  <2>1. Kind(r) = 1
    BY <1>1, <1>6, RowNames DEF Wanted, Kind, MasterRow
  <2> QED BY <1>2, <2>1 DEF WantsLater, Kind
<1>7. CASE \E l : x = LocationRow(l)
  <2>1. Kind(r) = 2 /\ x = LocationRow(Place(r))
    BY <1>1, <1>7, RowNames DEF Wanted, Kind, MasterRow, Place
  <2>2. CASE pc[q] = "balances"
    BY <2>1, <2>2 DEF WantsLater, Kind
  <2>3. CASE pc[q] = "locations"
    <3>1. \A m \in LocationsLeft(q) : Place(r) < m
      BY <1>1, <2>1, <2>3, RowNames DEF LocksAscend
    <3> QED BY <1>4, <2>1, <2>3, <3>1 DEF WantsLater, Kind
  <2> QED BY <1>2, <2>2, <2>3
<1>8. CASE \E i, l : x = BalanceRow(i, l)
  <2>1. pc[r] = "balances" /\ x = BalanceRow(call[r].item, Place(r))
    BY <1>1, <1>8, RowNames DEF Wanted, MasterRow, Place
  <2>2. pc[q] = "balances"
    BY <1>1, <1>2, <2>1, RowNames DEF LocksAscend
  <2>3. \A m \in BalancesLeft(q) : Place(r) < m
    BY <1>1, <2>1, <2>2, RowNames DEF LocksAscend
  <2> QED BY <1>4, <2>1, <2>2, <2>3 DEF WantsLater, Kind
<1> QED BY <1>1, <1>6, <1>7, <1>8 DEF Wanted, MasterRow

\* So a circle of waiting requests has no end.
LEMMA NoCircle ==
  ASSUME LedgerInv, \A r \in Requests : LocksAscend(r), IsFiniteSet(Requests)
  PROVE  NoLockCycle
<1> SUFFICES ASSUME NEW group \in (SUBSET Requests) \ {{}},
                    ~ \E r \in group : \A q \in group : ~WaitsFor(r, q)
             PROVE  FALSE
  BY Zenon DEF NoLockCycle
<1> DEFINE Later(r) == {q \in group : WantsLater(r, q)}
           Sets == {Later(r) : r \in group}
           R == StrictSubsetOrdering(group)
<1>1. \A r \in group : r \in Requests /\ pc[r] \in Asking
  BY DEF WaitsFor, Wanted, Asking
<1>2. IsFiniteSet(group)
  BY FS_Subset
<1>3. Sets \subseteq FiniteSubsetsOf(group) /\ Sets # {}
  <2>1. \A r \in group : Later(r) \in SUBSET group /\ IsFiniteSet(Later(r))
    BY <1>2, FS_Subset
  <2>2. group # {}
    OBVIOUS
  <2> HIDE DEF Later
  <2> QED BY <2>1, <2>2 DEF FiniteSubsetsOf
<1>4. PICK least \in Sets : \A s \in Sets : ~(<<s, least>> \in R)
  <2> HIDE DEF Sets, R
  <2>1. IsWellFoundedOn(R, FiniteSubsetsOf(group))
    BY FS_StrictSubsetOrderingWellFounded DEF R
  <2> QED BY <1>3, <2>1, WFMin
<1>5. PICK r \in group : least = Later(r)
  BY <1>4
<1>6. PICK q \in group : WaitsFor(r, q)
  BY <1>5
<1>7. WantsLater(r, q)
  BY <1>1, <1>6, WaitsForLater
<1>8. \A p \in group : Kind(p) \in Nat /\ Place(p) \in Nat
  BY <1>1, PlaceTypes
<1>9. Later(q) \subseteq Later(r)
  BY <1>7, <1>8 DEF WantsLater
<1>10. q \in Later(r) /\ q \notin Later(q)
  BY <1>7, <1>8 DEF WantsLater
<1>11. <<Later(q), Later(r)>> \in R
  BY <1>9, <1>10 DEF StrictSubsetOrdering
<1> QED BY <1>4, <1>5, <1>11

\* Movements and master data calls of any finite number of clients never deadlock on row
\* locks (RowLocking's order: item, locations ascending, balances ascending).
THEOREM NeverDeadlocks == IsFiniteSet(Requests) => (Spec => []NoLockCycle)
<1> SUFFICES ASSUME IsFiniteSet(Requests) PROVE Spec => []NoLockCycle
  OBVIOUS
<1>1. LedgerInv /\ (\A r \in Requests : LocksAscend(r)) => NoLockCycle
  BY NoCircle
<1> QED BY <1>1, LedgerInvariant, OrderInvariant, PTL

--------------------------------------------------------------------------------
\* StockLedger implements AtomicLedger: whatever is locked and read in between, every call
\* takes effect at one step, as if it ran alone.

\* The abstract ledger states its steps with the same rules.

\* What is asked of a movement.
LEMMA SameMovementRules ==
  ASSUME NEW c, NEW x, NEW y, NEW z
  PROVE  /\ Atomic!WellFormed(c) <=> WellFormed(c)
         /\ Atomic!LocationsOf(c) = LocationsOf(c)
         /\ Atomic!LotFits(c, x) <=> LotFits(c, x)
         /\ Atomic!QtyAccepted(c, x, y) <=> QtyAccepted(c, x, y)
         /\ Atomic!SerialRoom(c, x, y, z) <=> SerialRoom(c, x, y, z)
         /\ Atomic!ExpiryRefused(c, x, y) <=> ExpiryRefused(c, x, y)
  BY DEF Atomic!WellFormed, WellFormed, Atomic!LocationsOf, LocationsOf, Atomic!LotFits,
     LotFits, Atomic!QtyAccepted, QtyAccepted, Atomic!DeltaAt, DeltaAt,
     Atomic!Insufficient, Insufficient, Atomic!SerialRoom, SerialRoom,
     Atomic!ExpiryRefused, ExpiryRefused, Atomic!ExpiryConflict, ExpiryConflict,
     Atomic!MovementOps, MovementOps, Atomic!AdjustOps, AdjustOps

\* What is in stock of a lot.
LEMMA SameNet ==
  ASSUME NEW x, NEW i, NEW code
  PROVE  Atomic!LotNet(Atomic!RowsOf(x, i), code) = LotNet(RowsOf(x, i), code)
  BY DEF Atomic!RowsOf, RowsOf, Atomic!LotNet, LotNet, Atomic!MapThenSumSet, MapThenSumSet,
     Atomic!MapThenFoldSet, MapThenFoldSet

\* What a movement posts.
LEMMA SamePosts ==
  ASSUME NEW r, NEW c, NEW x, NEW y
  PROVE  /\ Atomic!BalancesPosted(c, x, y) = BalancesPosted(c, x, y)
         /\ Atomic!LedgerPosted(r, c, x, y) = LedgerPosted(r, c, x, y)
         /\ Atomic!ItemsPosted(c, x, y) = ItemsPosted(c, x, y)
         /\ Atomic!ExpiryPosted(c, x, y) = ExpiryPosted(c, x, y)
  BY DEF Atomic!BalancesPosted, BalancesPosted, Atomic!LedgerPosted, LedgerPosted,
     Atomic!RowPosted, RowPosted, Atomic!ItemsPosted, ItemsPosted, Atomic!Decremented,
     Decremented, Atomic!ExpiryPosted, ExpiryPosted, Atomic!ExpiryAfter, ExpiryAfter,
     Atomic!DeltaAt, DeltaAt, Atomic!PairsOf, PairsOf, Atomic!LocationsOf, LocationsOf,
     Atomic!Pairs, Pairs

\* What is asked of a call on master data, and what it writes.
LEMMA SameMasterRules ==
  ASSUME NEW c, NEW x, NEW y, NEW z
  PROVE  /\ Atomic!ItemCallAccepted(c, x, y, z) <=> ItemCallAccepted(c, x, y, z)
         /\ Atomic!LocationCallAccepted(c, x, y, z) <=> LocationCallAccepted(c, x, y, z)
         /\ Atomic!ItemAfter(c, x) = ItemAfter(c, x)
         /\ Atomic!LocationAfter(c, x) = LocationAfter(c, x)
  BY DEF Atomic!ItemCallAccepted, ItemCallAccepted, Atomic!LocationCallAccepted,
     LocationCallAccepted, Atomic!ItemAfter, ItemAfter, Atomic!LocationAfter, LocationAfter,
     Atomic!ItemHasStock, ItemHasStock, Atomic!LocationHasStock, LocationHasStock,
     Atomic!Rank, Rank, Atomic!NewTrack, NewTrack, Atomic!NewStatus, NewStatus

\* A movement posts from the balances of its own locations and no others.
LEMMA PostsDependOn ==
  ASSUME NEW r, NEW c, NEW x, NEW y, NEW table, \A l \in LocationsOf(c) : x[l] = y[l]
  PROVE  /\ BalancesPosted(c, x, table) = BalancesPosted(c, y, table)
         /\ LedgerPosted(r, c, x, table) = LedgerPosted(r, c, y, table)
<1>1. \A p \in PairsOf(c) : x[p[2]] = y[p[2]]
  BY DEF PairsOf
<1>2. \A p \in Pairs : p \in PairsOf(c) => DeltaAt(c, p[2], x[p[2]]) = DeltaAt(c, p[2], y[p[2]])
  BY <1>1
<1>3. \A p \in Pairs : p \in PairsOf(c) =>
        RowPosted(r, c, p[2], x) = RowPosted(r, c, p[2], y)
  BY <1>1, <1>2 DEF RowPosted
<1> QED BY <1>1, <1>2, <1>3 DEF BalancesPosted, LedgerPosted

--------------------------------------------------------------------------------
\* The mapping.

\* What a client has been answered.
Answers == [r \in Requests |-> IF pc[r] \in Ended THEN pc[r] ELSE "open"]

\* A request that ends is answered, and no other is.
LEMMA EndAnswers ==
  ASSUME LedgerInv, NEW r \in Requests, NEW how \in Ended, pc[r] \notin Ended, End(r, how)
  PROVE  Atomic!Answer(r, how)
<1>1. pc' = [pc EXCEPT ![r] = how] /\ call' = call /\ pc \in [Requests -> PCs]
  BY DEF End, LedgerInv, TypeOK
<1>2. Answers[r] = "open"
  BY DEF Answers
<1>3. Answers' = [Answers EXCEPT ![r] = how]
  BY <1>1 DEF Answers
<1> QED BY <1>1, <1>2, <1>3 DEF Atomic!Answer, Answers

\* A refusal is a refusal.
LEMMA RefuseRefuses ==
  ASSUME LedgerInv, NEW r \in Requests, pc[r] \notin Ended, Refuse(r)
  PROVE  Atomic!Refuse(r)
<1>1. Atomic!Answer(r, "refused")
  BY EndAnswers DEF Refuse, Ended
<1> QED BY <1>1 DEF Refuse, Atomic!Refuse, Atomic!tables, tables

\* A step that ends no request and writes no table shows nothing.
LEMMA SilentStep ==
  ASSUME LedgerInv, NEW r \in Requests, NEW label \in PCs \ Ended, pc[r] \notin Ended,
         pc' = [pc EXCEPT ![r] = label] \/ pc' = pc, UNCHANGED <<call, tables>>
  PROVE  UNCHANGED Atomic!vars
<1>1. Answers' = Answers
  BY DEF Answers, LedgerInv, TypeOK
<1> QED BY <1>1 DEF Answers, Atomic!vars, Atomic!tables, tables

\* A commit posts, in one step, what the abstract movement posts from the balances as they
\* are: those it read are locked and have not moved.
LEMMA CommitMoves ==
  ASSUME LedgerInv, NEW r \in Requests, pc[r] = "commit", Post(r), End(r, "done"),
         ~ExpiryRefused(call[r], row[r], expiry)
  PROVE  Atomic!Move(r)
<1> DEFINE c == call[r]
<1>1. /\ c \in MovementCall /\ c.item \in Items /\ c.op \in MovementOps /\ WellFormed(c)
      /\ LocationsOf(c) \subseteq Locations /\ row[r] = item[c.item]
      /\ ItemUsable(c, row[r], ItemRow(c.item) \in excl[r])
      /\ \A l \in LocationsOf(c) : /\ loc[l] = "active" /\ seen[r][l] = bal[<<c.item, l>>]
                                 /\ QtyAccepted(c, l, seen[r][l])
      /\ SerialRoom(c, row[r], seen[r][c.loc], LotNet(RowsOf(ledger, c.item), c.lot))
  BY AtCommit
<1>2. c.op \in Atomic!MovementOps
  BY <1>1 DEF Atomic!MovementOps, MovementOps, Atomic!AdjustOps, AdjustOps
<1>3. seen[r][c.loc] = bal[<<c.item, c.loc>>]
  <2>1. c.loc \in LocationsOf(c)
    BY DEF LocationsOf
  <2> QED BY <1>1, <2>1
<1>4. Atomic!MovementAccepted(c)
  BY <1>1, <1>3, SameMovementRules, SameNet DEF Atomic!MovementAccepted, ItemUsable
<1>5. \A l \in LocationsOf(c) : seen[r][l] = Atomic!Before(c.item)[l]
  BY <1>1 DEF Atomic!Before
<1>6. /\ bal' = Atomic!BalancesPosted(c, Atomic!Before(c.item), bal)
      /\ ledger' = Atomic!LedgerPosted(r, c, Atomic!Before(c.item), ledger)
  BY <1>5, PostsDependOn, SamePosts DEF Post
<1>7. /\ item' = Atomic!ItemsPosted(c, item[c.item], item)
      /\ expiry' = Atomic!ExpiryPosted(c, item[c.item], expiry)
      /\ UNCHANGED loc
  BY <1>1, SamePosts DEF Post
<1>8. Atomic!Answer(r, "done")
  BY EndAnswers DEF Ended
<1> QED BY <1>2, <1>4, <1>6, <1>7, <1>8 DEF Atomic!Move

\* A master data write is the abstract call: the row it checked is locked, and so is the
\* stock its checks looked at.
LEMMA WriteChanges ==
  ASSUME LedgerInv, NEW r \in Requests, WriteMaster(r)
  PROVE  Atomic!ChangeItem(r) \/ Atomic!ChangeLocation(r)
<1> DEFINE c == call[r]
<1>1. /\ pc[r] = "write" /\ End(r, "done") /\ UNCHANGED <<bal, ledger, expiry>>
      /\ IF c.op \in ItemOps
           THEN item' = [item EXCEPT ![c.item] = ItemAfter(c, item[c.item])] /\ UNCHANGED loc
           ELSE loc' = [loc EXCEPT ![c.loc] = LocationAfter(c, loc[c.loc])] /\ UNCHANGED item
  BY DEF WriteMaster
<1>2. /\ c.op \in MasterOps /\ MasterStatus(c) # "gone"
      /\ c.op \in ItemOps => row[r] = item[c.item]
      /\ IF c.op \in ItemOps THEN ItemCallAccepted(c, row[r], bal, ledger)
                              ELSE LocationCallAccepted(c, loc[c.loc], bal, ledger)
  BY <1>1 DEF LedgerInv, MasterReads
<1>3. Atomic!Answer(r, "done")
  BY <1>1, EndAnswers DEF Ended
<1>4. CASE c.op \in ItemOps
  <2>1. c.op \in Atomic!ItemOps
    BY <1>4 DEF Atomic!ItemOps, ItemOps
  <2> HIDE DEF c
  <2>2. Atomic!ItemCallAccepted(c, item[c.item], bal, ledger) /\ item[c.item].status # "gone"
    BY <1>2, <1>4, SameMasterRules DEF MasterStatus
  <2>3. item' = [item EXCEPT ![c.item] = Atomic!ItemAfter(c, item[c.item])]
    BY <1>1, <1>4, SameMasterRules
  <2> QED BY <1>1, <1>3, <1>4, <2>1, <2>2, <2>3 DEF Atomic!ChangeItem, c
<1>5. CASE c.op \notin ItemOps
  <2>1. c.op \in Atomic!LocationOps
    BY <1>2, <1>5 DEF Atomic!LocationOps, LocationOps, MasterOps
  <2> HIDE DEF c
  <2>2. Atomic!LocationCallAccepted(c, loc[c.loc], bal, ledger) /\ loc[c.loc] # "gone"
    BY <1>2, <1>5, SameMasterRules DEF MasterStatus
  <2>3. loc' = [loc EXCEPT ![c.loc] = Atomic!LocationAfter(c, loc[c.loc])]
    BY <1>1, <1>5, SameMasterRules
  <2> QED BY <1>1, <1>3, <1>5, <2>1, <2>2, <2>3 DEF Atomic!ChangeLocation, c
<1> QED BY <1>4, <1>5

--------------------------------------------------------------------------------
\* The refinement.

\* Nobody is answered, nothing moved and everything is active.
LEMMA InitImplements == Init => Atomic!Init
<1> SUFFICES ASSUME Init PROVE Atomic!Init
  OBVIOUS
<1>1. Answers = [r \in Requests |-> "open"]
  BY DEF Init, Answers, Ended
<1>2. item \in [Items -> [status: {"active"}, track: StartTracks, mark: {0}]]
  BY DEF Init, Fresh
<1> QED BY <1>1, <1>2 DEF Init, Answers, Atomic!Init, Atomic!Pairs, Pairs

\* A step of a request is one abstract step, or shows nothing.
LEMMA StepImplements ==
  ASSUME LedgerInv, NEW r \in Requests, Step(r)
  PROVE  [Atomic!Next]_(Atomic!vars)
<1>1. pc[r] \notin Ended
  BY DEF Step, StartMovement, LockItem, LockLocation, LockBalance, Check, Commit,
         StartMaster, LockMaster, Decide, WriteMaster, Ended
<1>2. CASE Refuse(r)
  BY <1>1, <1>2, RefuseRefuses DEF Atomic!Next
<1>3. CASE Commit(r) /\ ~Refuse(r)
  BY <1>3, CommitMoves DEF Commit, Atomic!Next
<1>4. CASE WriteMaster(r)
  BY <1>4, WriteChanges DEF Atomic!Next
<1>5. CASE ~Refuse(r) /\ ~Commit(r) /\ ~WriteMaster(r)
  <2>1. \E label \in PCs \ Ended :
          /\ pc' = [pc EXCEPT ![r] = label] \/ pc' = pc
          /\ UNCHANGED <<call, tables>>
    <3>1. CASE StartMovement(r)
      BY <1>5, <3>1 DEF StartMovement, Goto, PCs, Ended
    <3>2. CASE LockItem(r)
      BY <1>5, <3>2 DEF LockItem, Goto, PCs, Ended
    <3>3. CASE LockLocation(r)
      BY <1>5, <3>3 DEF LockLocation, Goto, PCs, Ended
    <3>4. CASE LockBalance(r)
      BY <1>5, <3>4 DEF LockBalance, Goto, PCs, Ended
    <3>5. CASE Check(r)
      BY <1>5, <3>5 DEF Check, Goto, PCs, Ended
    <3>6. CASE StartMaster(r)
      BY <1>5, <3>6 DEF StartMaster, Goto, PCs, Ended
    <3>7. CASE LockMaster(r)
      BY <1>5, <3>7 DEF LockMaster, Goto, PCs, Ended
    <3>8. CASE Decide(r)
      BY <1>5, <3>8 DEF Decide, Goto, PCs, Ended
    <3> QED BY <1>5, <3>1, <3>2, <3>3, <3>4, <3>5, <3>6, <3>7, <3>8 DEF Step
  <2> QED BY <1>1, <2>1, SilentStep
<1> QED BY <1>2, <1>3, <1>4, <1>5

\* So is every step of the whole.
LEMMA NextImplements == LedgerInv /\ [Next]_vars => [Atomic!Next]_(Atomic!vars)
<1> SUFFICES ASSUME LedgerInv, [Next]_vars PROVE [Atomic!Next]_(Atomic!vars)
  OBVIOUS
<1>1. CASE UNCHANGED vars
  <2>1. Answers' = Answers
    BY <1>1 DEF vars, request, Answers
  <2> QED BY <1>1, <2>1 DEF vars, request, tables, Answers, Atomic!vars, Atomic!tables
<1>2. ASSUME NEW r \in Requests, Rollback(r) PROVE [Atomic!Next]_(Atomic!vars)
  BY <1>2, RefuseRefuses DEF Rollback, Atomic!Next
<1> QED BY <1>1, <1>2, StepImplements DEF Next, Finished

\* Movements and master data calls of any number of clients are serializable at their
\* commit: each has the effect it would have alone on the tables as they then are, with
\* all its checks, or none (inTransaction, RowLocking, MovementService).
THEOREM Serializable == Spec => AtomicSpec
<1>1. Atomic!Init /\ [][Atomic!Next]_(Atomic!vars) => AtomicSpec
  BY DEF AtomicSpec, Atomic!Spec
<1> QED BY <1>1, InitImplements, NextImplements, LedgerInvariant, PTL DEF Spec

--------------------------------------------------------------------------------
\* Sums over finite sets of integers.

SumOf(f, S) == MapThenSumSet(LAMBDA x : f[x], S)
Chosen(s) == CHOOSE x \in s : TRUE

\* One step of the recursion that MapThenSumSet is defined by, and its solutions.
SumStep(f, S, g) ==
  [s \in SUBSET S |-> IF s = {} THEN 0 ELSE f[Chosen(s)] + g[s \ {Chosen(s)}]]
Sums(f, S) == {g \in [SUBSET S -> Int] : g = SumStep(f, S, g)}

\* Among subsets of a finite set there is one that contains no other.
LEMMA LeastSubset ==
  ASSUME NEW S, IsFiniteSet(S), NEW T \in SUBSET SUBSET S, T # {}
  PROVE  \E U \in T : \A V \in T : V \subseteq U => V = U
<1> DEFINE R == StrictSubsetOrdering(S)
<1>1. T \subseteq FiniteSubsetsOf(S)
  BY FS_Subset DEF FiniteSubsetsOf
<1>2. PICK U \in T : \A V \in T : ~(<<V, U>> \in R)
  <2>1. IsWellFoundedOn(R, FiniteSubsetsOf(S))
    BY FS_StrictSubsetOrderingWellFounded
  <2> HIDE DEF R
  <2> QED BY <1>1, <2>1, WFMin
<1> QED BY <1>2 DEF StrictSubsetOrdering

\* A chosen member is one.
LEMMA ChosenIn == ASSUME NEW s, s # {} PROVE Chosen(s) \in s
BY DEF Chosen

\* Two solutions agree where both are defined.
LEMMA SumsAgree ==
  ASSUME NEW f, NEW S, IsFiniteSet(S), NEW T \in SUBSET S,
         NEW g, g = SumStep(f, S, g), NEW h, h = SumStep(f, T, h)
  PROVE  \A s \in SUBSET T : g[s] = h[s]
<1> DEFINE Differ == {s \in SUBSET T : g[s] # h[s]}
<1> SUFFICES ASSUME Differ # {} PROVE FALSE
  OBVIOUS
<1>1. PICK U \in Differ : \A V \in Differ : V \subseteq U => V = U
  <2>1. Differ \in SUBSET SUBSET S
    OBVIOUS
  <2> HIDE DEF Differ
  <2> QED BY <2>1, LeastSubset
<1> DEFINE x == Chosen(U)
<1>2. CASE U = {}
  BY <1>1, <1>2 DEF SumStep
<1>3. CASE U # {}
  <2>1. x \in U
    BY <1>3, ChosenIn
  <2>2. g[U \ {x}] = h[U \ {x}]
    BY <1>1, <2>1
  <2>3. g[U] = f[x] + g[U \ {x}] /\ h[U] = f[x] + h[U \ {x}]
    BY <1>1, <1>3, <2>1 DEF SumStep
  <2> QED BY <1>1, <2>2, <2>3
<1> QED BY <1>2, <1>3

\* A solution for a set is one for its subsets too.
LEMMA SumsNarrow ==
  ASSUME NEW f, NEW S, NEW T \in SUBSET S, NEW g \in Sums(f, S)
  PROVE  [s \in SUBSET T |-> g[s]] \in Sums(f, T)
<1> DEFINE h == [s \in SUBSET T |-> g[s]]
<1>1. h \in [SUBSET T -> Int]
  BY DEF Sums
<1>2. ASSUME NEW s \in SUBSET T
      PROVE  h[s] = IF s = {} THEN 0 ELSE f[Chosen(s)] + h[s \ {Chosen(s)}]
  BY DEF Sums, SumStep
<1>3. h = SumStep(f, T, h)
  <2> HIDE DEF h
  <2> QED BY <1>1, <1>2 DEF SumStep
<1> QED BY <1>1, <1>3 DEF Sums

\* Every finite set has a solution: the first set without one would get it from the
\* solutions of its parts.
LEMMA SumsExist ==
  ASSUME NEW S, IsFiniteSet(S), NEW f, \A x \in S : f[x] \in Int
  PROVE  Sums(f, S) # {}
<1> DEFINE Without == {s \in SUBSET S : Sums(f, s) = {}}
<1> SUFFICES ASSUME Without # {} PROVE FALSE
  <2>1. ASSUME Sums(f, S) = {} PROVE S \in Without
    BY <2>1
  <2> QED BY <2>1
<1>1. PICK U \in Without : \A V \in Without : V \subseteq U => V = U
  <2>1. Without \in SUBSET SUBSET S
    OBVIOUS
  <2> HIDE DEF Without
  <2> QED BY <2>1, LeastSubset
<1>2. \A V \in SUBSET U : V # U => Sums(f, V) # {}
  BY <1>1
<1> DEFINE G(V) == (CHOOSE g : g \in Sums(f, V))[V]
           h == [s \in SUBSET U |-> IF s = {} THEN 0 ELSE f[Chosen(s)] + G(s \ {Chosen(s)})]
<1>3. \A V \in SUBSET U : V # U => \E g \in Sums(f, V) : G(V) = g[V]
  BY <1>2
<1>4. \A V \in SUBSET U : V # U => G(V) \in Int
  BY <1>3 DEF Sums
<1>5. \A s \in SUBSET U : s # {} => /\ Chosen(s) \in s /\ f[Chosen(s)] \in Int
                                    /\ s \ {Chosen(s)} \in SUBSET U /\ s \ {Chosen(s)} # U
  BY <1>1, ChosenIn
<1>6. h \in [SUBSET U -> Int]
  <2> HIDE DEF G
  <2> QED BY <1>4, <1>5
<1>7. ASSUME NEW V \in SUBSET U, V # U PROVE h[V] = G(V)
  <2>1. PICK g \in Sums(f, V) : G(V) = g[V]
    BY <1>3, <1>7
  <2>2. g = SumStep(f, V, g)
    BY <2>1 DEF Sums
  <2>3. CASE V = {}
    BY <2>1, <2>2, <2>3 DEF SumStep
  <2>4. CASE V # {}
    <3> DEFINE W == V \ {Chosen(V)}
    <3>1. W \in SUBSET U /\ W # U /\ W \in SUBSET V /\ IsFiniteSet(V)
      BY <1>1, <1>5, <2>4, FS_Subset
    <3>2. PICK k \in Sums(f, W) : G(W) = k[W]
      BY <1>3, <3>1
    <3>3. g[W] = k[W]
      <4>1. k = SumStep(f, W, k)
        BY <3>2 DEF Sums
      <4> HIDE DEF W, G
      <4> QED BY <2>2, <3>1, <4>1, SumsAgree
    <3>4. g[V] = f[Chosen(V)] + g[W]
      BY <2>2, <2>4 DEF SumStep
    <3>5. h[V] = f[Chosen(V)] + G(W)
      BY <2>4
    <3> QED BY <2>1, <3>2, <3>3, <3>4, <3>5
  <2> QED BY <2>3, <2>4
<1>8. \A s \in SUBSET U : h[s] = IF s = {} THEN 0 ELSE f[Chosen(s)] + h[s \ {Chosen(s)}]
  <2> TAKE s \in SUBSET U
  <2>1. CASE s = {}
    BY <2>1
  <2>2. CASE s # {}
    <3>1. h[s] = f[Chosen(s)] + G(s \ {Chosen(s)})
      BY <2>2
    <3> HIDE DEF h, G
    <3> QED BY <1>5, <1>7, <2>2, <3>1
  <2> QED BY <2>1, <2>2
<1>9. h \in Sums(f, U)
  <2> HIDE DEF h
  <2> QED BY <1>6, <1>8 DEF Sums, SumStep
<1> QED BY <1>1, <1>9

\* The sum is what any solution says.
LEMMA SumIsSolution ==
  ASSUME NEW S, IsFiniteSet(S), NEW f, \A x \in S : f[x] \in Int
  PROVE  /\ SumOf(f, S) \in Int
         /\ \A g : g = SumStep(f, S, g) => SumOf(f, S) = g[S]
<1> DEFINE sum == CHOOSE g : g = SumStep(f, S, g)
<1>1. SumOf(f, S) = sum[S]
  BY DEF SumOf, MapThenSumSet, MapThenFoldSet, SumStep, Chosen
<1>2. PICK h \in [SUBSET S -> Int] : h = SumStep(f, S, h)
  BY SumsExist DEF Sums
<1>3. sum = SumStep(f, S, sum)
  <2>1. \E g : g = SumStep(f, S, g)
    BY <1>2
  <2> QED BY <2>1, Zenon
<1>4. \A g : g = SumStep(f, S, g) => g[S] = sum[S]
  <2> HIDE DEF sum
  <2> QED BY <1>3, SumsAgree
<1> HIDE DEF sum
<1> QED BY <1>1, <1>2, <1>4

\* The sum over no members, and over some: the chosen one and the rest.
LEMMA SumTakesChosen ==
  ASSUME NEW S, IsFiniteSet(S), NEW f, \A x \in S : f[x] \in Int
  PROVE  /\ S = {} => SumOf(f, S) = 0
         /\ S # {} => SumOf(f, S) = f[Chosen(S)] + SumOf(f, S \ {Chosen(S)})
<1>1. PICK g \in [SUBSET S -> Int] : g = SumStep(f, S, g)
  BY SumsExist DEF Sums
<1>2. SumOf(f, S) = g[S]
  BY <1>1, SumIsSolution
<1>3. g[S] = IF S = {} THEN 0 ELSE f[Chosen(S)] + g[S \ {Chosen(S)}]
  BY <1>1 DEF SumStep
<1>4. ASSUME S # {} PROVE SumOf(f, S \ {Chosen(S)}) = g[S \ {Chosen(S)}]
  <2> DEFINE T == S \ {Chosen(S)}
             h == [s \in SUBSET T |-> g[s]]
  <2>1. T \in SUBSET S /\ IsFiniteSet(T)
    BY FS_Subset
  <2>2. h \in Sums(f, T)
    <3>1. g \in Sums(f, S)
      BY <1>1 DEF Sums
    <3> HIDE DEF T
    <3> QED BY <2>1, <3>1, SumsNarrow
  <2>3. h = SumStep(f, T, h) /\ h[T] = g[T]
    BY <2>2 DEF Sums
  <2>4. \A x \in T : f[x] \in Int
    BY <2>1
  <2> HIDE DEF T, h
  <2>5. SumOf(f, T) = h[T]
    BY <2>1, <2>3, <2>4, SumIsSolution
  <2> QED BY <2>3, <2>5 DEF T
<1> QED BY <1>2, <1>3, <1>4

\* Any member may be taken first.
LEMMA SumTakesAny ==
  ASSUME NEW S, IsFiniteSet(S), NEW f, \A x \in S : f[x] \in Int
  PROVE  \A x \in S : SumOf(f, S) = f[x] + SumOf(f, S \ {x})
<1> DEFINE Fails == {s \in SUBSET S : \E x \in s : SumOf(f, s) # f[x] + SumOf(f, s \ {x})}
<1> SUFFICES ASSUME Fails # {} PROVE FALSE
  <2>1. ASSUME NEW x \in S, SumOf(f, S) # f[x] + SumOf(f, S \ {x}) PROVE S \in Fails
    BY <2>1
  <2> QED BY <2>1
<1>1. PICK U \in Fails : \A V \in Fails : V \subseteq U => V = U
  <2>1. Fails \in SUBSET SUBSET S
    OBVIOUS
  <2> HIDE DEF Fails
  <2> QED BY <2>1, LeastSubset
<1>2. PICK x \in U : SumOf(f, U) # f[x] + SumOf(f, U \ {x})
  BY <1>1
<1>3. \A V \in SUBSET U : V # U => \A y \in V : SumOf(f, V) = f[y] + SumOf(f, V \ {y})
  BY <1>1
<1>4. \A V \in SUBSET U : IsFiniteSet(V) /\ \A y \in V : f[y] \in Int
  BY <1>1, FS_Subset
<1> DEFINE y == Chosen(U)
<1>5. y \in U
  BY <1>2, ChosenIn
<1>6. SumOf(f, U) = f[y] + SumOf(f, U \ {y})
  BY <1>2, <1>4, SumTakesChosen
<1> HIDE DEF Fails, y
<1>7. x # y
  BY <1>2, <1>6
<1>8. SumOf(f, U \ {y}) = f[x] + SumOf(f, (U \ {y}) \ {x})
  BY <1>3, <1>5, <1>7
<1>9. SumOf(f, U \ {x}) = f[y] + SumOf(f, (U \ {x}) \ {y})
  BY <1>2, <1>3, <1>5, <1>7
<1>10. (U \ {y}) \ {x} = (U \ {x}) \ {y}
  OBVIOUS
<1>11. SumOf(f, (U \ {x}) \ {y}) \in Int /\ f[x] \in Int /\ f[y] \in Int
  BY <1>2, <1>4, <1>5, SumIsSolution
<1>12. \A a, b, c \in Int : a + (b + c) = b + (a + c)
  OBVIOUS
<1>13. SumOf(f, U) = f[y] + (f[x] + SumOf(f, (U \ {x}) \ {y}))
  BY ONLY <1>6, <1>8, <1>10
<1>14. f[x] + SumOf(f, U \ {x}) = f[x] + (f[y] + SumOf(f, (U \ {x}) \ {y}))
  BY ONLY <1>9
<1> QED BY ONLY <1>2, <1>11, <1>12, <1>13, <1>14


\* Only the members' own summands count.
LEMMA SumSame ==
  ASSUME NEW S, IsFiniteSet(S), NEW f, NEW g, \A x \in S : f[x] \in Int /\ f[x] = g[x]
  PROVE  SumOf(f, S) = SumOf(g, S)
<1>1. PICK h \in [SUBSET S -> Int] : h = SumStep(f, S, h)
  BY SumsExist DEF Sums
<1>2. SumStep(f, S, h) = SumStep(g, S, h)
  <2>1. \A s \in SUBSET S : s # {} => f[Chosen(s)] = g[Chosen(s)]
    BY ChosenIn
  <2> QED BY <2>1 DEF SumStep
<1>3. SumOf(f, S) = h[S]
  BY <1>1, SumIsSolution
<1>4. SumOf(g, S) = h[S]
  <2>1. \A x \in S : g[x] \in Int
    OBVIOUS
  <2> QED BY <1>1, <1>2, <2>1, SumIsSolution
<1> QED BY <1>3, <1>4

--------------------------------------------------------------------------------
\* What is in stock of a lot.

\* The movement rows of an item by location and place in the ledger, those of a lot,
\* and the quantity of each.
Entries(rows) == UNION {{l} \X DOMAIN rows[l] : l \in Locations}
OfLot(rows, code) == {x \in Entries(rows) : rows[x[1]][x[2]].lot = code}
DeltaOf(rows) == [x \in Entries(rows) |-> rows[x[1]][x[2]].delta]
ItemRows == [Locations -> Seq(MovementRow)]
With(rows, l, new) == [rows EXCEPT ![l] = Append(@, new)]

\* Every row of an item has an integer quantity.
LEMMA EntryTypes ==
  ASSUME NEW rows \in ItemRows, NEW x \in Entries(rows)
  PROVE  /\ x[1] \in Locations /\ x[2] \in DOMAIN rows[x[1]] /\ x = <<x[1], x[2]>>
         /\ DeltaOf(rows)[x] = rows[x[1]][x[2]].delta
         /\ DeltaOf(rows)[x] \in Int
<1>1. PICK l \in Locations : x \in {l} \X DOMAIN rows[l]
  BY DEF Entries
<1>2. rows[l] \in Seq(MovementRow)
  BY DEF ItemRows
<1>3. rows[l][x[2]] \in MovementRow
  BY <1>1, <1>2
<1> QED BY <1>1, <1>3 DEF DeltaOf, MovementRow

\* The net of a lot is the sum over its rows.
LEMMA NetIs ==
  ASSUME NEW rows \in ItemRows, IsFiniteSet(Entries(rows)), NEW code
  PROVE  LotNet(rows, code) = SumOf(DeltaOf(rows), OfLot(rows, code))
<1> DEFINE T == OfLot(rows, code)
<1>1. /\ T \subseteq Entries(rows) /\ IsFiniteSet(T)
      /\ T = {x \in UNION {{l} \X DOMAIN rows[l] : l \in Locations} :
                rows[x[1]][x[2]].lot = code}
  <2>1. T \subseteq Entries(rows)
    BY DEF OfLot
  <2> QED BY <2>1, FS_Subset DEF OfLot, Entries
<1>2. \A x \in T : DeltaOf(rows)[x] \in Int /\ DeltaOf(rows)[x] = rows[x[1]][x[2]].delta
  BY <1>1, EntryTypes
<1> DEFINE StepOf(g) ==
             [s \in SUBSET T |-> IF s = {} THEN 0
                                 ELSE rows[Chosen(s)[1]][Chosen(s)[2]].delta + g[s \ {Chosen(s)}]]
           sum == CHOOSE g : g = StepOf(g)
<1>3. LotNet(rows, code) = sum[T]
  BY DEF LotNet, MapThenSumSet, MapThenFoldSet, Chosen, OfLot, Entries
<1>4. \A g : StepOf(g) = SumStep(DeltaOf(rows), T, g)
  <2> TAKE g
  <2>1. \A s \in SUBSET T : s # {} =>
          DeltaOf(rows)[Chosen(s)] = rows[Chosen(s)[1]][Chosen(s)[2]].delta
    BY <1>2, ChosenIn
  <2> HIDE DEF T
  <2> QED BY <2>1 DEF SumStep
<1>5. PICK h : h = SumStep(DeltaOf(rows), T, h)
  <2> DEFINE f == DeltaOf(rows)
  <2>1. \A x \in T : f[x] \in Int
    BY <1>2
  <2> HIDE DEF T, f
  <2>2. Sums(f, T) # {}
    BY <1>1, <2>1, SumsExist
  <2> QED BY <2>2 DEF Sums, f
<1>6. sum = StepOf(sum)
  <2>1. \E g : g = StepOf(g)
    BY <1>4, <1>5
  <2> QED BY <2>1, Zenon
<1>7. sum = SumStep(DeltaOf(rows), T, sum)
  BY <1>4, <1>6
<1> HIDE DEF sum, T
<1>8. SumOf(DeltaOf(rows), T) = sum[T]
  BY <1>1, <1>2, <1>7, SumIsSolution
<1> QED BY <1>3, <1>8 DEF T

\* A row that is appended adds its quantity to its own lot and to no other.
LEMMA NetGrows ==
  ASSUME NEW rows \in ItemRows, IsFiniteSet(Entries(rows)), NEW l \in Locations,
         NEW new \in MovementRow, NEW code,
         NEW more, more = With(rows, l, new)
  PROVE  /\ more \in ItemRows /\ IsFiniteSet(Entries(more))
         /\ LotNet(rows, code) \in Int
         /\ LotNet(more, code) = LotNet(rows, code) + (IF new.lot = code THEN new.delta ELSE 0)
<1> DEFINE n == Len(rows[l]) + 1
           e == <<l, n>>
<1>1. /\ rows[l] \in Seq(MovementRow) /\ Append(rows[l], new) \in Seq(MovementRow)
      /\ DOMAIN Append(rows[l], new) = DOMAIN rows[l] \cup {n} /\ n \notin DOMAIN rows[l]
      /\ Append(rows[l], new)[n] = new
      /\ \A k \in DOMAIN rows[l] : Append(rows[l], new)[k] = rows[l][k]
  BY DEF ItemRows
<1>2. more \in ItemRows
  BY <1>1 DEF ItemRows, With
<1>3. /\ more[l] = Append(rows[l], new)
      /\ \A m \in Locations : m # l => more[m] = rows[m]
  BY DEF ItemRows, With
<1> HIDE DEF n
<1>4. Entries(more) = Entries(rows) \cup {e} /\ e \notin Entries(rows)
  <2>1. \A m \in Locations : {m} \X DOMAIN more[m] =
          ({m} \X DOMAIN rows[m]) \cup (IF m = l THEN {e} ELSE {})
    BY <1>1, <1>3
  <2> QED BY <1>1, <2>1 DEF Entries
<1>5. IsFiniteSet(Entries(more))
  BY <1>4, FS_AddElement
<1>6. \A x \in Entries(rows) : more[x[1]][x[2]] = rows[x[1]][x[2]]
  <2> TAKE x \in Entries(rows)
  <2>1. x[1] \in Locations /\ x[2] \in DOMAIN rows[x[1]]
    BY EntryTypes
  <2> QED BY <1>1, <1>3, <2>1
<1>7. more[e[1]][e[2]] = new
  BY <1>1, <1>3
<1> DEFINE T == OfLot(rows, code)
           U == OfLot(more, code)
<1>8. T \subseteq Entries(rows) /\ IsFiniteSet(T)
  <2>1. T \subseteq Entries(rows)
    BY DEF OfLot
  <2> QED BY <2>1, FS_Subset
<1>9. U = IF new.lot = code THEN T \cup {e} ELSE T
  BY <1>4, <1>6, <1>7 DEF OfLot
<1>10. IsFiniteSet(U) /\ \A x \in U : DeltaOf(more)[x] \in Int
  <2>1. U \subseteq Entries(more)
    BY DEF OfLot
  <2> QED BY <1>2, <1>5, <2>1, FS_Subset, EntryTypes
<1>11. \A x \in T : DeltaOf(rows)[x] \in Int /\ DeltaOf(rows)[x] = DeltaOf(more)[x]
  <2> TAKE x \in T
  <2>1. x \in Entries(rows) /\ x \in Entries(more)
    BY <1>4, <1>8
  <2>2. DeltaOf(rows)[x] \in Int /\ DeltaOf(rows)[x] = rows[x[1]][x[2]].delta
    BY <2>1, EntryTypes
  <2>3. DeltaOf(more)[x] = more[x[1]][x[2]].delta
    BY <1>2, <2>1, EntryTypes
  <2> QED BY <1>6, <2>1, <2>2, <2>3
<1>12. DeltaOf(more)[e] = new.delta /\ e \notin T
  BY <1>4, <1>7, <1>8 DEF DeltaOf
<1>13. /\ LotNet(rows, code) = SumOf(DeltaOf(rows), T)
       /\ LotNet(more, code) = SumOf(DeltaOf(more), U)
  BY <1>2, <1>5, NetIs
<1> HIDE DEF T, U, e
<1>14. SumOf(DeltaOf(rows), T) = SumOf(DeltaOf(more), T) /\ SumOf(DeltaOf(rows), T) \in Int
  BY <1>8, <1>11, SumSame, SumIsSolution
<1>15. CASE new.lot = code
  <2>1. SumOf(DeltaOf(more), U) = DeltaOf(more)[e] + SumOf(DeltaOf(more), U \ {e})
    BY <1>9, <1>10, <1>15, SumTakesAny
  <2>2. U \ {e} = T
    BY <1>9, <1>12, <1>15
  <2>3. new.delta \in Int
    BY DEF MovementRow
  <2>4. LotNet(more, code) = LotNet(rows, code) + new.delta
    <3>1. LotNet(more, code) = new.delta + LotNet(rows, code)
      BY ONLY <1>12, <1>13, <1>14, <2>1, <2>2
    <3>2. LotNet(rows, code) \in Int
      BY <1>13, <1>14
    <3> QED BY ONLY <2>3, <3>1, <3>2
  <2> QED BY <1>2, <1>5, <1>13, <1>14, <1>15, <2>4
<1>16. CASE new.lot # code
  BY <1>2, <1>5, <1>9, <1>13, <1>14, <1>16
<1> QED BY <1>15, <1>16

--------------------------------------------------------------------------------
\* Serial numbers.

\* An item turned into a serial item has no code in stock twice.  ItemService::update
\* does not look: it asks only that the item has no stock.
UpgradesFindNoDuplicate ==
  \A i \in Items : item[i].track # "serial" /\ item'[i].track = "serial" =>
    \A code \in Lots : LotNet(RowsOf(ledger, i), code) <= SerialUnit

RowsFinite == \A i \in Items : IsFiniteSet(Entries(RowsOf(ledger, i)))

\* Rows of an item are a row sequence for each location.
LEMMA RowsTypes ==
  ASSUME TypeOK, NEW i \in Items
  PROVE  RowsOf(ledger, i) \in ItemRows
  BY DEF TypeOK, Pairs, RowsOf, ItemRows

\* What a commit appends to its item: one row, or one for each end of a transfer.
LEMMA CommitAppends ==
  ASSUME LedgerInv, RowsFinite, NEW r \in Requests, pc[r] = "commit", Post(r), NEW code
  PROVE  LET c == call[r]
             net == LotNet(RowsOf(ledger, c.item), code)
             delta == DeltaAt(c, c.loc, seen[r][c.loc])
         IN  /\ IsFiniteSet(Entries(RowsOf(ledger', c.item)))
             /\ net \in Int /\ delta \in Int
             /\ LotNet(RowsOf(ledger', c.item), code) =
                  IF c.lot = code /\ c.op # "transfer" THEN net + delta ELSE net
<1> DEFINE c == call[r]
           rows == RowsOf(ledger, c.item)
           At(l) == RowPosted(r, c, l, seen[r])
           one == With(rows, c.loc, At(c.loc))
           two == With(one, c.to, At(c.to))
<1>1. /\ c \in MovementCall /\ c.item \in Items /\ c.loc \in Locations /\ c.to \in Locations
      /\ c.op \in MovementOps /\ WellFormed(c) /\ LocationsOf(c) \subseteq Locations
  BY AtCommit DEF MovementCall
<1>2. rows \in ItemRows /\ IsFiniteSet(Entries(rows))
  BY <1>1, RowsTypes DEF LedgerInv, RowsFinite
<1>3. \A l \in Locations : /\ seen[r][l] \in Int /\ DeltaAt(c, l, seen[r][l]) \in Int
                           /\ At(l) \in MovementRow /\ At(l).lot = c.lot
                           /\ At(l).delta = DeltaAt(c, l, seen[r][l])
  <2> TAKE l \in Locations
  <2>1. seen[r] \in [Locations -> Int]
    BY DEF LedgerInv, TypeOK
  <2>2. seen[r][l] \in Int
    BY <2>1
  <2>3. DeltaAt(c, l, seen[r][l]) \in Int
    BY <1>1, <2>2, MovementTypes
  <2> QED BY <1>1, <2>2, <2>3 DEF RowPosted, MovementRow, MovementCall
<1>4. \A l \in Locations : ledger'[<<c.item, l>>] =
        IF l \in LocationsOf(c) THEN Append(ledger[<<c.item, l>>], At(l))
                                ELSE ledger[<<c.item, l>>]
  <2> TAKE l \in Locations
  <2>1. <<c.item, l>> \in Pairs /\ (<<c.item, l>> \in PairsOf(c) <=> l \in LocationsOf(c))
    BY <1>1 DEF Pairs, PairsOf
  <2> QED BY <2>1 DEF Post, LedgerPosted
<1>5. RowsOf(ledger', c.item) = IF c.op = "transfer" THEN two ELSE one
  <2>1. /\ rows \in [Locations -> Seq(MovementRow)]
        /\ rows = [l \in Locations |-> ledger[<<c.item, l>>]]
        /\ RowsOf(ledger', c.item) = [l \in Locations |-> ledger'[<<c.item, l>>]]
    BY <1>2 DEF RowsOf, ItemRows
  <2>2. LocationsOf(c) = (IF c.op = "transfer" THEN {c.loc, c.to} ELSE {c.loc})
    BY DEF LocationsOf
  <2>3. c.op = "transfer" => c.loc # c.to
    BY <1>1 DEF WellFormed
  <2> HIDE DEF rows, At
  <2>4. CASE c.op # "transfer"
    <3>1. \A l \in Locations : one[l] = ledger'[<<c.item, l>>]
      BY <1>1, <1>4, <2>1, <2>2, <2>4 DEF With
    <3> QED BY <2>1, <2>4, <3>1 DEF With
  <2>5. CASE c.op = "transfer"
    <3>1. \A l \in Locations : two[l] = ledger'[<<c.item, l>>]
      BY <1>1, <1>4, <2>1, <2>2, <2>3, <2>5 DEF With
    <3> QED BY <2>1, <2>5, <3>1 DEF With
  <2> QED BY <2>4, <2>5
<1>6. /\ one \in ItemRows /\ IsFiniteSet(Entries(one))
      /\ LotNet(rows, code) \in Int
      /\ LotNet(one, code) = LotNet(rows, code)
           + (IF c.lot = code THEN DeltaAt(c, c.loc, seen[r][c.loc]) ELSE 0)
  <2> DEFINE new == At(c.loc)
  <2>1. /\ new \in MovementRow /\ new.lot = c.lot
        /\ new.delta = DeltaAt(c, c.loc, seen[r][c.loc])
    BY <1>1, <1>3
  <2>2. one = With(rows, c.loc, new)
    OBVIOUS
  <2> HIDE DEF rows, one, new
  <2>3. /\ one \in ItemRows /\ IsFiniteSet(Entries(one)) /\ LotNet(rows, code) \in Int
        /\ LotNet(one, code) = LotNet(rows, code) + (IF new.lot = code THEN new.delta ELSE 0)
    BY ONLY <1>1, <1>2, <2>1, <2>2, NetGrows
  <2> QED BY ONLY <2>1, <2>3
<1>7. CASE c.op # "transfer"
  <2>1. RowsOf(ledger', c.item) = one
    BY <1>5, <1>7
  <2> HIDE DEF one, rows
  <2> QED BY <1>1, <1>3, <1>6, <1>7, <2>1 DEF rows
<1>8. CASE c.op = "transfer"
  <2>1. RowsOf(ledger', c.item) = two
    BY <1>5, <1>8
  <2>3. /\ IsFiniteSet(Entries(two))
        /\ LotNet(two, code) = LotNet(one, code)
             + (IF c.lot = code THEN DeltaAt(c, c.to, seen[r][c.to]) ELSE 0)
    <3> DEFINE new == At(c.to)
    <3>1. /\ new \in MovementRow /\ new.lot = c.lot
          /\ new.delta = DeltaAt(c, c.to, seen[r][c.to])
      BY <1>1, <1>3
    <3>2. two = With(one, c.to, new)
      OBVIOUS
    <3> HIDE DEF one, two, new
    <3>3. /\ IsFiniteSet(Entries(two))
          /\ LotNet(two, code) = LotNet(one, code) + (IF new.lot = code THEN new.delta ELSE 0)
      BY ONLY <1>1, <1>6, <3>1, <3>2, NetGrows
    <3> QED BY ONLY <3>1, <3>3
  <2>4. /\ DeltaAt(c, c.loc, seen[r][c.loc]) = -c.qty
        /\ DeltaAt(c, c.to, seen[r][c.to]) = c.qty
    BY <1>1, <1>8 DEF DeltaAt, WellFormed, AdjustOps
  <2>5. c.qty \in Int
    BY <1>1 DEF MovementCall
  <2> HIDE DEF one, two, rows
  <2>6. LotNet(two, code) = LotNet(rows, code)
    BY ONLY <1>6, <2>3, <2>4, <2>5
  <2> QED BY <1>1, <1>3, <1>6, <1>8, <2>1, <2>3, <2>6 DEF rows
<1> QED BY <1>7, <1>8

\* A movement of a serial item never brings a code into stock a second time.
LEMMA CommitKeepsSerials ==
  ASSUME LedgerInv, RowsFinite, SerialUnique,
         NEW r \in Requests, pc[r] = "commit", Post(r)
  PROVE  SerialUnique'
<1> DEFINE c == call[r]
<1>1. /\ c \in MovementCall /\ c.item \in Items /\ c.op \in MovementOps /\ WellFormed(c)
      /\ row[r] = item[c.item] /\ LotFits(c, item[c.item])
      /\ SerialRoom(c, item[c.item], seen[r][c.loc], LotNet(RowsOf(ledger, c.item), c.lot))
  BY AtCommit DEF ItemUsable
<1> SUFFICES ASSUME NEW i \in Items, NEW code \in Lots, item'[i].track = "serial"
             PROVE  LotNet(RowsOf(ledger', i), code) <= SerialUnit
  BY DEF SerialUnique
<1>2. item[i].track = "serial"
  BY <1>1, PostEffect
<1>3. LotNet(RowsOf(ledger, i), code) <= SerialUnit
  BY <1>2 DEF SerialUnique
<1>4. CASE i # c.item
  <2>1. \A l \in Locations : ledger'[<<i, l>>] = ledger[<<i, l>>]
    BY <1>4, PostEffect DEF Pairs, PairsOf
  <2>2. RowsOf(ledger', i) = RowsOf(ledger, i)
    BY <2>1 DEF RowsOf
  <2> QED BY <1>3, <2>2
<1>5. CASE i = c.item
  <2> DEFINE net == LotNet(RowsOf(ledger, i), code)
             after == LotNet(RowsOf(ledger', i), code)
             delta == DeltaAt(c, c.loc, seen[r][c.loc])
  <2>1. /\ net \in Int /\ delta \in Int
        /\ after = IF c.lot = code /\ c.op # "transfer" THEN net + delta ELSE net
    BY <1>5, CommitAppends
  <2>2. SerialUnit \in Int
    BY LimitAssumption
  <2>3. CASE c.lot # code \/ c.op = "transfer"
    <3> HIDE DEF net, after, delta, c
    <3> QED BY <1>3, <2>1, <2>3 DEF net, after
  <2>4. CASE c.lot = code /\ c.op = "issue"
    <3>1. delta = -c.qty /\ c.qty \in 1..QtyMax /\ QtyMax \in Nat
      BY <1>1, <2>4, LimitAssumption DEF DeltaAt, WellFormed, MovementOps, AdjustOps
    <3>2. after <= net
      BY ONLY <2>1, <2>4, <3>1
    <3> QED BY ONLY <1>3, <2>1, <2>2, <2>4, <3>1, <3>2
  <2>5. CASE c.lot = code /\ c.op \in {"receive"} \cup AdjustOps
    <3>1. delta > 0 => net + delta <= SerialUnit
      BY <1>1, <1>2, <1>5, <2>5 DEF SerialRoom
    <3>2. after = net + delta
      BY <2>1, <2>5 DEF AdjustOps
    <3>3. net <= SerialUnit
      BY <1>3
    <3> HIDE DEF net, after, delta
    <3>4. after <= SerialUnit
      BY ONLY <2>1, <2>2, <3>1, <3>2, <3>3
    <3> QED BY <3>4 DEF after
  <2> QED BY <1>1, <2>3, <2>4, <2>5 DEF MovementOps
<1> QED BY <1>4, <1>5

\* A serial number is in stock at most once, however receipts and counts of it race,
\* unless an item that has one twice is made a serial item: every posting of a serial
\* item looks under the exclusive lock of its row (checkSerialCapacity).
THEOREM SerialsAreUnique == Spec /\ [][UpgradesFindNoDuplicate]_vars => []SerialUnique
<1>1. Init => SerialUnique /\ RowsFinite
  <2> SUFFICES ASSUME Init PROVE SerialUnique /\ RowsFinite
    OBVIOUS
  <2>1. LedgerInv
    BY InitInv
  <2>2. ASSUME NEW i \in Items PROVE Entries(RowsOf(ledger, i)) = {}
    <3>1. \A l \in Locations : RowsOf(ledger, i)[l] = << >>
      BY DEF Init, RowsOf, Pairs
    <3>2. \A l \in Locations : {l} \X DOMAIN RowsOf(ledger, i)[l] = {}
      BY <3>1
    <3> QED BY <3>2 DEF Entries
  <2>3. RowsFinite
    BY <2>2, FS_EmptySet DEF RowsFinite
  <2>4. ASSUME NEW i \in Items, NEW code \in Lots
        PROVE  LotNet(RowsOf(ledger, i), code) <= SerialUnit
    <3> DEFINE rows == RowsOf(ledger, i)
    <3>1. rows \in ItemRows /\ IsFiniteSet(Entries(rows)) /\ OfLot(rows, code) = {}
      BY <2>1, <2>2, <2>3, RowsTypes DEF LedgerInv, RowsFinite, OfLot
    <3> HIDE DEF rows
    <3>2. LotNet(rows, code) = SumOf(DeltaOf(rows), {})
      BY <3>1, NetIs
    <3>3. SumOf(DeltaOf(rows), {}) = 0
      BY FS_EmptySet, SumTakesChosen
    <3> QED BY <3>2, <3>3, LimitAssumption DEF rows
  <2> QED BY <2>3, <2>4 DEF SerialUnique
<1>2. LedgerInv /\ (SerialUnique /\ RowsFinite) /\ [Next]_vars /\ [UpgradesFindNoDuplicate]_vars
        => (SerialUnique /\ RowsFinite)'
  <2> SUFFICES ASSUME LedgerInv, SerialUnique, RowsFinite, [Next]_vars,
                      [UpgradesFindNoDuplicate]_vars
               PROVE  SerialUnique' /\ RowsFinite'
    OBVIOUS
  <2>1. CASE UNCHANGED tables
    BY <2>1 DEF tables, SerialUnique, RowsFinite
  <2>2. ASSUME NEW r \in Requests, pc[r] = "commit", Post(r) PROVE SerialUnique' /\ RowsFinite'
    <3>1. SerialUnique'
      BY <2>2, CommitKeepsSerials
    <3>2. ASSUME NEW i \in Items PROVE IsFiniteSet(Entries(RowsOf(ledger', i)))
      <4>1. CASE i = call[r].item
        BY <2>2, <4>1, CommitAppends
      <4>2. CASE i # call[r].item
        <5>1. \A l \in Locations : ledger'[<<i, l>>] = ledger[<<i, l>>]
          BY <2>2, <4>2, PostEffect DEF Pairs, PairsOf
        <5>2. RowsOf(ledger', i) = RowsOf(ledger, i)
          BY <5>1 DEF RowsOf
        <5> QED BY <5>2 DEF RowsFinite
      <4> QED BY <4>1, <4>2
    <3> QED BY <3>1, <3>2 DEF RowsFinite
  <2>3. ASSUME NEW r \in Requests, WriteMaster(r), ~UNCHANGED tables
        PROVE  SerialUnique' /\ RowsFinite'
    <3>1. ledger' = ledger
      BY <2>3 DEF WriteMaster
    <3>2. UpgradesFindNoDuplicate
      BY <2>3 DEF vars
    <3> QED BY <3>1, <3>2 DEF SerialUnique, RowsFinite, UpgradesFindNoDuplicate
  <2> QED BY <2>1, <2>2, <2>3, TableSteps
<1> QED BY <1>1, <1>2, LedgerInvariant, PTL DEF Spec

\* So it is when no call makes an item a serial item.
THEOREM SerialsWithoutUpgrades ==
  ASSUME \A c \in Calls : c.op = "updateItem" => c.track # "serial"
  PROVE  Spec => []SerialUnique
<1>1. LedgerInv /\ [Next]_vars => [UpgradesFindNoDuplicate]_vars
  <2> SUFFICES ASSUME LedgerInv, [Next]_vars, NEW i \in Items, item[i].track # "serial"
               PROVE  item'[i].track # "serial"
    BY DEF UpgradesFindNoDuplicate
  <2>1. CASE UNCHANGED tables
    BY <2>1 DEF tables
  <2>2. ASSUME NEW r \in Requests, pc[r] = "commit", Post(r) PROVE item'[i].track # "serial"
    <3>1. call[r].item \in Items
      BY <2>2, AtCommit
    <3> QED BY <2>2, <3>1, PostEffect
  <2>3. ASSUME NEW r \in Requests, WriteMaster(r) PROVE item'[i].track # "serial"
    <3> DEFINE c == call[r]
    <3>1. c \in Calls /\ item \in [Items -> ItemRecord]
      BY DEF LedgerInv, TypeOK
    <3>2. CASE c.op \in ItemOps /\ i = c.item
      <4>1. item'[i] = ItemAfter(c, item[i]) /\ item[i] \in ItemRecord
        BY <2>3, <3>1, <3>2 DEF WriteMaster
      <4>2. c.op = "updateItem" => item'[i].track = NewTrack(c, item[i])
        BY <4>1 DEF ItemAfter, ItemRecord
      <4>3. c.op # "updateItem" => item'[i].track = item[i].track
        BY <3>2, <4>1 DEF ItemAfter, ItemRecord, ItemOps
      <4> QED BY <3>1, <4>2, <4>3 DEF NewTrack
    <3>3. CASE ~(c.op \in ItemOps /\ i = c.item)
      BY <2>3, <3>1, <3>3 DEF WriteMaster
    <3> QED BY <3>2, <3>3
  <2> QED BY <2>1, <2>2, <2>3, TableSteps
<1>2. Spec => [][UpgradesFindNoDuplicate]_vars
  BY <1>1, LedgerInvariant, PTL DEF Spec
<1> QED BY <1>2, SerialsAreUnique, PTL
================================================================================
