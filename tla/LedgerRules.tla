------------------------------ MODULE LedgerRules ------------------------------
(***************************************************************************)
(* The pure rules of the movement ledger: what a client may ask for, which *)
(* rows a call locks, what it posts and when it is refused.  Everything is *)
(* an operator over the rows it reads, so that the transaction model       *)
(* (StockLedger) and the abstract ledger (AtomicLedger) share them.        *)
(*                                                                         *)
(* NULL columns: an on-order marker or an expiry of 0 stands for NULL (the *)
(* code accepts only positive values for both).  A row that was deleted    *)
(* has status "gone"; ids are never used again.                            *)
(***************************************************************************)
EXTENDS Integers, Sequences, FiniteSets, FiniteSetsExt

CONSTANTS
  Items,          \* item ids
  Locations,      \* location ids; the locking order is their numeric order
  Lots,           \* lot and serial codes
  NoLot,          \* a lot_code that is NULL
  Expiries,       \* expiry dates a client may send
  Calls,          \* the calls clients may make
  AllowNegative,  \* the "allow negative stock" setting
  QtyMax,         \* QtyScale::maxStorage
  BalanceMax,     \* MovementMath::BALANCE_MAX
  SerialUnit      \* QtyScale::serialUnit: one display unit in storage units

TrackModes == {"none", "lot", "serial"}
Statuses == {"active", "inactive", "gone"}
Pairs == Items \X Locations

AdjustOps == {"adjustSet", "adjustDelta"}
MovementOps == {"receive", "issue", "transfer"} \cup AdjustOps
ItemOps == {"updateItem", "deleteItem", "markOnOrder", "clearOnOrder"}
LocationOps == {"updateLocation", "deleteLocation"}
MasterOps == ItemOps \cup LocationOps

MovementCall == [op: MovementOps, item: Items, loc: Locations, to: Locations,
                 qty: Int, lot: Lots \cup {NoLot}, exp: Expiries \cup {0}]
\* A field an update leaves out of its payload is "keep".
ItemCall == [op: ItemOps, item: Items, active: {"yes", "no", "keep"},
             track: TrackModes \cup {"keep"}, qty: Int]
LocationCall == [op: LocationOps, loc: Locations, active: {"yes", "no", "keep"}]

ASSUME IdAssumption == /\ Items \subseteq Nat \ {0}
                       /\ Locations \subseteq Nat \ {0}
                       /\ Expiries \subseteq Nat \ {0}
ASSUME LotAssumption == NoLot \notin Lots
ASSUME LimitAssumption == /\ AllowNegative \in BOOLEAN
                          /\ QtyMax \in Nat /\ BalanceMax \in Nat
                          /\ SerialUnit \in Nat
ASSUME CallAssumption == Calls \subseteq MovementCall \cup ItemCall \cup LocationCall

--------------------------------------------------------------------------------
\* The checks a movement makes before it opens its transaction.
WellFormed(c) ==
  /\ c.op \in MovementOps \ AdjustOps => c.qty \in 1..QtyMax
  /\ c.op = "transfer" => c.loc # c.to

\* The locations a movement touches.
LocationsOf(c) == IF c.op = "transfer" THEN {c.loc, c.to} ELSE {c.loc}

\* Broken variant: serial items are locked no harder than others.
NeedsExclusiveForMarkersOnly(c, row) == c.op = "receive" /\ row.mark # 0

\* lockActiveItemForMovement: the strength of the item lock for a row read so.
NeedsExclusive(c, row) ==
  \/ row.track = "serial"
  \/ c.op = "receive" /\ row.mark # 0

\* enforceTrackMode, and the expiry guard of postSingle.
LotFits(c, row) ==
  /\ (row.track = "none") <=> (c.lot = NoLot)
  /\ row.track = "serial" /\ c.op \notin AdjustOps => c.qty = SerialUnit
  /\ c.exp # 0 => row.track = "lot"

\* The signed quantity posted at location l over a balance of before.
DeltaAt(c, l, before) ==
  CASE c.op \in {"receive", "adjustDelta"}    -> c.qty
    [] c.op = "adjustSet"                     -> c.qty - before
    [] c.op = "issue"                         -> -c.qty
    [] c.op = "transfer"                      -> IF l = c.loc THEN -c.qty ELSE c.qty

\* Broken variant: off by one.
InsufficientOffByOne(before, after) == ~AllowNegative /\ after < -1 /\ after < before

\* MovementMath::isInsufficientStock.
Insufficient(before, after) == ~AllowNegative /\ after < 0 /\ after < before

\* The quantity checks of a movement once the balance is known.
QtyAccepted(c, l, before) ==
  LET delta == DeltaAt(c, l, before)
  IN /\ before + delta \in -BalanceMax..BalanceMax
     /\ c.op \in AdjustOps => delta # 0 /\ c.qty \in -QtyMax..QtyMax
     /\ IF c.op = "adjustSet" THEN AllowNegative \/ c.qty >= 0
                              ELSE ~Insufficient(before, before + delta)

\* checkSerialCapacity, for the callers that reach it.  net is the signed total
\* of the lot's movements.
SerialRoom(c, row, before, net) ==
  LET delta == DeltaAt(c, c.loc, before)
  IN row.track = "serial" /\ c.op \in {"receive"} \cup AdjustOps /\ delta > 0
       => net + delta <= SerialUnit

\* sumQtyDeltaByItemAndLot over the movement rows of one item, by location.
RowsOf(ledger, i) == [l \in Locations |-> ledger[<<i, l>>]]

LotNet(rows, code) ==
  LET ofLot == {x \in UNION {{l} \X DOMAIN rows[l] : l \in Locations} :
                  rows[x[1]][x[2]].lot = code}
      Delta(x) == rows[x[1]][x[2]].delta
  IN MapThenSumSet(Delta, ofLot)

\* Broken variant: an over-delivery is not capped.
DecrementedUncapped(mark, qty) == mark - qty

\* decrementOnOrder: a covered marker is cleared, a NULL one stays NULL.
Decremented(mark, qty) == IF mark <= qty THEN 0 ELSE mark - qty

\* Broken variant: any expiry is accepted.
ExpiryNeverConflicts(c, row, known) == FALSE

\* LotMapper::upsertForReceive: a differing expiry is refused, NULL keeps.
ExpiryConflict(c, row, known) ==
  c.op = "receive" /\ row.track = "lot" /\ c.exp # 0 /\ known # 0 /\ known # c.exp

ExpiryAfter(c, row, known) ==
  IF c.op = "receive" /\ row.track = "lot" /\ known = 0 THEN c.exp ELSE known

\* The rows a movement of request r writes over the balances before: updateBalance
\* and insertMovement for every location it touches.
PairsOf(c) == {<<c.item, l>> : l \in LocationsOf(c)}

BalancesPosted(c, before, bal) ==
  [p \in Pairs |-> IF p \in PairsOf(c)
                      THEN before[p[2]] + DeltaAt(c, p[2], before[p[2]])
                      ELSE bal[p]]

RowPosted(r, c, l, before) ==
  [delta |-> DeltaAt(c, l, before[l]), after |-> before[l] + DeltaAt(c, l, before[l]),
   lot |-> c.lot, by |-> r]

LedgerPosted(r, c, before, ledger) ==
  [p \in Pairs |-> IF p \in PairsOf(c)
                      THEN Append(ledger[p], RowPosted(r, c, p[2], before))
                      ELSE ledger[p]]

\* The on-order marker is read from the locked row, and decremented in place.
ItemsPosted(c, locked, item) ==
  IF c.op = "receive" /\ locked.mark # 0
    THEN [item EXCEPT ![c.item].mark = Decremented(@, c.qty)]
    ELSE item

ExpiryPosted(c, locked, expiry) ==
  IF c.lot = NoLot THEN expiry
  ELSE [expiry EXCEPT ![<<c.item, c.lot>>] = ExpiryAfter(c, locked, @)]

ExpiryRefused(c, locked, expiry) ==
  c.lot # NoLot /\ ExpiryConflict(c, locked, expiry[<<c.item, c.lot>>])

--------------------------------------------------------------------------------
\* BalanceMapper / ItemMapper / LocationMapper: any balance but 0 is stock.
ItemHasStock(bal, i) == \E l \in Locations : bal[<<i, l>>] # 0
LocationHasStock(bal, l) == \E i \in Items : bal[<<i, l>>] # 0

Rank(track) == CASE track = "none" -> 0 [] track = "lot" -> 1 [] track = "serial" -> 2

\* What an update writes over a column.
NewTrack(c, row) == IF c.track = "keep" THEN row.track ELSE c.track
NewStatus(c, status) == CASE c.active = "yes"  -> "active"
                          [] c.active = "no"   -> "inactive"
                          [] c.active = "keep" -> status

\* The checks of an item call against the locked row.
ItemCallAccepted(c, row, bal, ledger) ==
  CASE c.op = "updateItem"   ->
         /\ c.active = "no" /\ row.status = "active" => ~ItemHasStock(bal, c.item)
         /\ Rank(NewTrack(c, row)) > Rank(row.track) => ~ItemHasStock(bal, c.item)
    [] c.op = "deleteItem"   -> \A l \in Locations : ledger[<<c.item, l>>] = << >>
    [] c.op = "markOnOrder"  -> row.status = "active" /\ c.qty \in 1..QtyMax
    [] c.op = "clearOnOrder" -> TRUE

ItemAfter(c, row) ==
  CASE c.op = "updateItem"   -> [row EXCEPT !.status = NewStatus(c, @),
                                            !.track = NewTrack(c, row)]
    [] c.op = "deleteItem"   -> [row EXCEPT !.status = "gone"]
    [] c.op = "markOnOrder"  -> [row EXCEPT !.mark = c.qty]
    [] c.op = "clearOnOrder" -> [row EXCEPT !.mark = 0]

\* The checks of a location call against the locked row.
LocationCallAccepted(c, status, bal, ledger) ==
  CASE c.op = "updateLocation" ->
         c.active = "no" /\ status = "active" => ~LocationHasStock(bal, c.loc)
    [] c.op = "deleteLocation" -> \A i \in Items : ledger[<<i, c.loc>>] = << >>

LocationAfter(c, status) ==
  IF c.op = "deleteLocation" THEN "gone" ELSE NewStatus(c, status)
================================================================================
