------------------------------ MODULE LedgerRebuild ------------------------------
(***************************************************************************)
(* RebuildBalancesCommand: occ inventorycheck:rebuild-balances recomputes  *)
(* iv_balances from the movement ledger, one transaction per item, after   *)
(* the two drifted apart.  The command may be killed between any two       *)
(* statements and run again.                                               *)
(*                                                                         *)
(* It runs in maintenance mode, when nobody else writes, or with --force,  *)
(* when movements go on; StockLedger shows that each takes effect at once. *)
(***************************************************************************)
EXTENDS Integers, FiniteSets

CONSTANTS
  Items,       \* item ids
  Locations,   \* location ids
  Absent,      \* no row
  Forced,      \* --force outside maintenance mode: movements go on
  Deltas,      \* what they add to a pair
  RowLimit,    \* rows of iv_balances the command lists at most
  Most         \* bound: the most a pair may hold in movements and at the start

Pairs == Items \X Locations
Amounts == 0..Most

ASSUME IdAssumption == /\ Items \subseteq Nat /\ IsFiniteSet(Items)
                       /\ Locations \subseteq Nat /\ IsFiniteSet(Locations)
ASSUME ForcedAssumption == Forced \in BOOLEAN /\ RowLimit \in Nat
ASSUME AmountAssumption == Most \in Nat /\ Absent \notin Int /\ Deltas \subseteq Int

VARIABLES
  ledger,  \* SUM(qty_delta) of each pair that has movements
  bal,     \* iv_balances
  pc,      \* where the command is
  total,   \* what it will make of each pair
  todo,    \* items it has still to do
  item,    \* the item it does
  left,    \* pairs of the item it has still to look at
  pair,    \* the pair it looks at
  fixed,   \* pairs written and not committed
  drift,   \* whether it wrote any
  start,   \* history: the balances when it was started
  cut,     \* history: pairs of no movement whose balance it did not list
  moved    \* history: pairs with a movement since

tables == <<ledger, bal>>
vars == <<ledger, bal, pc, total, todo, item, left, pair, fixed, drift, start, cut, moved>>

Value(x) == IF x = Absent THEN 0 ELSE x
Agrees(p) == Value(bal[p]) = Value(ledger[p])
PairsOf(i) == {i} \X Locations

\* What is in a variable the command is not using.
NoTotal == [p \in Pairs |-> Absent]
NoItem == CHOOSE i \in Items : TRUE
NoPair == CHOOSE p \in Pairs : TRUE

\* Rows hold quantities, and the command works on the pairs of its item.
TypeOK ==
  /\ ledger \in [Pairs -> Amounts \cup {Absent}]
  /\ bal \in [Pairs -> Int \cup {Absent}]
  /\ pc \in {"off", "list", "items", "pairs", "write", "done"}
  /\ total \in [Pairs -> Amounts \cup {Absent}]
  /\ todo \subseteq Items
  /\ item \in Items \cup {NoItem}
  /\ left \subseteq Pairs /\ fixed \subseteq Pairs
  /\ pair \in Pairs \cup {NoPair}
  /\ drift \in BOOLEAN
  /\ start \in [Pairs -> Int \cup {Absent}]
  /\ cut \subseteq Pairs /\ moved \subseteq Pairs
  /\ pc \in {"pairs", "write"} => left \subseteq PairsOf(item) /\ fixed \subseteq PairsOf(item)

Init ==
  /\ ledger \in [Pairs -> Amounts \cup {Absent}]
  /\ bal \in [Pairs -> Amounts \cup {Absent}]
  /\ pc = "off"
  /\ total = NoTotal
  /\ todo = {}
  /\ item = NoItem
  /\ left = {} /\ fixed = {}
  /\ pair = NoPair
  /\ drift = FALSE
  /\ start = bal
  /\ cut = {} /\ moved = {}

--------------------------------------------------------------------------------
\* The sums of the ledger are read once, at the start.
ReadSums ==
  /\ pc \in {"off", "done"}
  /\ pc' = "list"
  /\ total' = ledger
  /\ drift' = FALSE
  /\ start' = bal
  /\ cut' = {} /\ moved' = {}
  /\ UNCHANGED <<tables, todo, item, left, pair, fixed>>

\* balances->search: the first RowLimit rows by item and location.
Stored == {p \in Pairs : bal[p] # Absent}
Before(p) == {q \in Stored : q[1] < p[1] \/ (q[1] = p[1] /\ q[2] < p[2])}
Listed == {p \in Stored : Cardinality(Before(p)) < RowLimit}

\* Broken variant: balances that no movement explains are not looked for.
ListSumsOnly ==
  /\ pc = "list"
  /\ todo' = {i \in Items : \E p \in PairsOf(i) : total[p] # Absent}
  /\ pc' = "items"
  /\ UNCHANGED <<tables, total, item, left, pair, fixed, drift, start, cut, moved>>

\* Pairs that have a listed balance and no movement are to become 0.
ListBalances ==
  /\ pc = "list"
  /\ total' = [p \in Pairs |-> IF total[p] = Absent /\ p \in Listed THEN 0 ELSE total[p]]
  /\ cut' = {p \in Stored \ Listed : total[p] = Absent}
  /\ todo' = {i \in Items : \E p \in PairsOf(i) : total'[p] # Absent}
  /\ pc' = "items"
  /\ UNCHANGED <<tables, item, left, pair, fixed, drift, start, moved>>

\* Broken variant: one transaction for all the items.
BeginItemWithAll(i) ==
  /\ pc = "items"
  /\ i \in todo
  /\ item' = i
  /\ todo' = {}
  /\ left' = {p \in Pairs : total[p] # Absent}
  /\ pc' = "pairs"
  /\ UNCHANGED <<tables, total, pair, fixed, drift, start, cut, moved>>

BeginItem(i) ==
  /\ pc = "items"
  /\ i \in todo
  /\ item' = i
  /\ todo' = todo \ {i}
  /\ left' = {p \in PairsOf(i) : total[p] # Absent}
  /\ pc' = "pairs"
  /\ UNCHANGED <<tables, total, pair, fixed, drift, start, cut, moved>>

\* Broken variant: a missing row is taken for a wrong one.
RightIfThere(p) == bal[p] = total[p]
\* findPair reads without a lock; a missing row is right when the sum is 0.
Right(p) == Value(bal[p]) = total[p]

Look(p) ==
  /\ pc = "pairs"
  /\ p \in left
  /\ left' = left \ {p}
  /\ IF Right(p) THEN pc' = "pairs" /\ UNCHANGED pair
                 ELSE pc' = "write" /\ pair' = p
  /\ UNCHANGED <<tables, total, todo, item, fixed, drift, start, cut, moved>>

\* Broken variant: the update is committed on its own.
WriteAtOnce ==
  /\ pc = "write"
  /\ bal' = [bal EXCEPT ![pair] = total[pair]]
  /\ drift' = TRUE
  /\ pc' = "pairs"
  /\ UNCHANGED <<ledger, total, todo, item, left, pair, fixed, start, cut, moved>>

\* The update sets the quantity, whatever it has become since it was read.
Write ==
  /\ pc = "write"
  /\ fixed' = fixed \cup {pair}
  /\ drift' = TRUE
  /\ pair' = NoPair
  /\ pc' = "pairs"
  /\ UNCHANGED <<tables, total, todo, item, left, start, cut, moved>>

CommitItem ==
  /\ pc = "pairs"
  /\ left = {}
  /\ bal' = [p \in Pairs |-> IF p \in fixed THEN total[p] ELSE bal[p]]
  /\ fixed' = {}
  /\ item' = NoItem
  /\ pc' = "items"
  /\ UNCHANGED <<ledger, total, todo, left, pair, drift, start, cut, moved>>

Finish ==
  /\ pc = "items"
  /\ todo = {}
  /\ pc' = "done"
  /\ total' = NoTotal
  /\ UNCHANGED <<tables, todo, item, left, pair, fixed, drift, start, cut, moved>>

\* A failing statement or a kill: the open transaction is rolled back.
Die ==
  /\ pc \notin {"off", "done"}
  /\ pc' = "off"
  /\ total' = NoTotal /\ item' = NoItem /\ pair' = NoPair
  /\ todo' = {} /\ left' = {} /\ fixed' = {}
  /\ drift' = FALSE
  /\ UNCHANGED <<tables, start, cut, moved>>

\* A movement waits for the rows the command wrote.
Movement(p, delta) ==
  /\ Forced
  /\ p \notin fixed
  /\ Value(bal[p]) + delta \in Amounts
  /\ Value(ledger[p]) + delta \in Amounts
  /\ bal' = [bal EXCEPT ![p] = Value(@) + delta]
  /\ ledger' = [ledger EXCEPT ![p] = Value(@) + delta]
  /\ moved' = moved \cup {p}
  /\ UNCHANGED <<pc, total, todo, item, left, pair, fixed, drift, start, cut>>

--------------------------------------------------------------------------------
Next ==
  \/ ReadSums \/ ListBalances \/ Write \/ CommitItem \/ Finish \/ Die
  \/ \E i \in Items : BeginItem(i)
  \/ \E p \in Pairs : Look(p)
  \/ \E p \in Pairs, delta \in Deltas : Movement(p, delta)

Spec == Init /\ [][Next]_vars

--------------------------------------------------------------------------------
\* Properties.

\* When the command ends the balance of every pair nobody moved since its start is the
\* pair's ledger sum, balances that no movement explains and earlier runs that were killed
\* included.  What it misses are balances that no movement explains and that the list of
\* rows left out, which takes more rows than that list may have.  Without movements it ends
\* with 1, drift fixed, exactly when a balance it does not miss was wrong as it started
\* (execute); so it may say "No drift." of those it misses.
WasWrong(p) == Value(start[p]) # Value(ledger[p])
RepairedWhenDone ==
  pc = "done" =>
    /\ \A p \in Pairs \ (moved \cup cut) : Agrees(p)
    /\ cut # {} => Cardinality(moved \cup {p \in Pairs : start[p] # Absent}) > RowLimit
    /\ moved = {} => (drift <=> \E p \in Pairs \ cut : WasWrong(p))

\* The balances of an item nobody moves are the ones the command found or all repaired but
\* for those it does not list, wherever it is killed (S13: one transaction per item).
ItemsAreWhole ==
  \A i \in Items : PairsOf(i) \cap moved = {} =>
    \/ \A p \in PairsOf(i) : bal[p] = start[p]
    \/ \A p \in PairsOf(i) \ cut : Agrees(p)

\* What every reachable state is like.
RebuildInv == TypeOK /\ ItemsAreWhole

\* Refuted when there are more rows than are listed: all that nobody moved is right.
AllIsRepaired == pc = "done" => \A p \in Pairs \ moved : Agrees(p)

\* Neither the command nor a movement makes a right balance wrong.
NothingDrifts == [][\A p \in Pairs : Agrees(p) => Agrees(p)']_vars
================================================================================
