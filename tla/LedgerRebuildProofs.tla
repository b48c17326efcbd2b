-------------------------- MODULE LedgerRebuildProofs --------------------------
(***************************************************************************)
(* Theorems about LedgerRebuild for any items, locations and amounts.      *)
(***************************************************************************)
EXTENDS LedgerRebuild, FiniteSetTheorems, TLAPS

--------------------------------------------------------------------------------
\* What the command knows of the pairs nobody moved since it started.
Unmoved == Pairs \ moved
AtStart(p) == bal[p] = start[p]

\* What each pair is to become, by the sums it read and the rows it listed.
Target(p) ==
  IF ledger[p] = Absent /\ start[p] # Absent /\ p \notin cut THEN 0 ELSE ledger[p]

InItem == pc \in {"pairs", "write"}

\* The item under way, and the pairs it deals with, have a total.
Working ==
  /\ InItem => /\ item \in Items \ todo
               /\ \A p \in left \cup fixed : total[p] # Absent
  /\ pc = "write" => pair \in PairsOf(item) /\ total[pair] # Absent
  /\ pc \notin {"pairs", "write"} => fixed = {}

\* The sums it works from are still those of the pairs nobody moved.
TotalsHold ==
  /\ pc = "list" => \A p \in Unmoved : total[p] = ledger[p] /\ AtStart(p)
  /\ pc \in {"items", "pairs", "write"} => \A p \in Unmoved : total[p] = Target(p)

\* An item is as it was found until its transaction commits, and right from then on.
Progress ==
  /\ pc \in {"items", "pairs", "write"} =>
       \A p \in Unmoved : IF p[1] \in todo \/ (InItem /\ p[1] = item)
                            THEN AtStart(p) ELSE Agrees(p) \/ p \in cut
  /\ pc = "done" => \A p \in Unmoved \ cut : Agrees(p)

\* Within the item, a pair that was looked at is right or among those written.
Looked ==
  /\ InItem => \A p \in PairsOf(item) \ moved :
       \/ p \in left \/ p \in fixed \/ p \in cut \/ Agrees(p)
       \/ pc = "write" /\ p = pair
  /\ \A p \in fixed \ moved : WasWrong(p)
  /\ pc = "write" /\ pair \notin moved => WasWrong(pair)

\* Without movements, drift tells whether anything was wrong at the start.
DriftTells ==
  pc # "off" /\ moved = {} =>
    /\ drift => pc # "list" /\ \E p \in Pairs \ cut : WasWrong(p)
    /\ ~drift => fixed = {} /\ \A p \in Pairs : AtStart(p)

\* What was not listed has no movements, and was beyond the limit.
CutTells ==
  /\ pc = "list" => cut = {}
  /\ \A p \in cut \ moved : ledger[p] = Absent
  /\ cut # {} => Cardinality(moved \cup {p \in Pairs : start[p] # Absent}) > RowLimit

IInv == RebuildInv /\ Working /\ TotalsHold /\ Progress /\ Looked /\ DriftTells /\ CutTells

--------------------------------------------------------------------------------
\* Facts about the data.

\* A pair belongs to its item.
LEMMA PairTypes ==
  /\ \A p \in Pairs : p[1] \in Items /\ p \in PairsOf(p[1])
  /\ \A i \in Items : PairsOf(i) = {p \in Pairs : p[1] = i}
  BY DEF Pairs, PairsOf

\* A pair that is to become its target agrees with the ledger.
LEMMA TargetAgrees ==
  ASSUME NEW p \in Pairs
  PROVE  Value(Target(p)) = Value(ledger[p])
  BY DEF Target, Value

\* There are finitely many pairs.
LEMMA FinitePairs == IsFiniteSet(Pairs)
  BY IdAssumption, FS_Product DEF Pairs

\* While there are no more rows than are listed, every row is.
LEMMA ListedAll ==
  ASSUME Cardinality(Stored) <= RowLimit
  PROVE  Stored \subseteq Listed
<1> SUFFICES ASSUME NEW p \in Stored PROVE Cardinality(Before(p)) < RowLimit
  BY DEF Listed
<1>1. IsFiniteSet(Stored) /\ Cardinality(Stored) \in Nat
  BY FinitePairs, FS_Subset, FS_CardinalityType DEF Stored
<1>2. p[1] \in Nat /\ p[2] \in Nat
  BY IdAssumption DEF Stored, Pairs
<1>3. Before(p) \subseteq Stored \ {p}
  BY <1>2 DEF Before
<1>4. /\ IsFiniteSet(Stored \ {p})
      /\ Cardinality(Stored \ {p}) = Cardinality(Stored) - 1
  BY <1>1, FS_RemoveElement
<1>5. /\ Cardinality(Before(p)) <= Cardinality(Stored \ {p})
      /\ Cardinality(Before(p)) \in Nat
  BY <1>3, <1>4, FS_Subset, FS_CardinalityType
<1> QED BY <1>1, <1>4, <1>5, ForcedAssumption

\* Steps that leave the tables and the history alone.
LEMMA WholeUndisturbed ==
  ASSUME ItemsAreWhole, UNCHANGED <<tables, start, moved>>, cut \subseteq cut'
  PROVE  ItemsAreWhole'
  BY DEF ItemsAreWhole, tables, PairsOf, Agrees, Pairs

--------------------------------------------------------------------------------
\* The invariant.

\* The command is off, and a balance may be anything, at the start.
LEMMA InitInv == Init => IInv
<1> SUFFICES ASSUME Init PROVE IInv
  OBVIOUS
<1>1. TypeOK
  <2>1. bal \in [Pairs -> Int \cup {Absent}]
    BY AmountAssumption DEF Init, Amounts
  <2>2. NoTotal \in [Pairs -> Amounts \cup {Absent}]
    BY DEF NoTotal
  <2> QED BY <2>1, <2>2 DEF Init, TypeOK
<1>2. ItemsAreWhole
  BY DEF Init, ItemsAreWhole, Pairs, PairsOf
<1>3. Working /\ TotalsHold /\ Progress /\ Looked /\ DriftTells /\ CutTells
  BY DEF Init, Working, TotalsHold, Progress, Looked, DriftTells, CutTells, InItem
<1> QED BY <1>1, <1>2, <1>3 DEF IInv, RebuildInv

\* Reading the sums starts the history anew.
LEMMA ReadSumsInv == IInv /\ ReadSums => IInv'
<1> SUFFICES ASSUME IInv, ReadSums PROVE IInv'
  OBVIOUS
<1> USE DEF IInv, RebuildInv
<1>1. TypeOK'
  BY DEF ReadSums, TypeOK, tables
<1>2. ItemsAreWhole'
  BY DEF ReadSums, ItemsAreWhole, TypeOK, tables, PairsOf, Pairs
<1>3. Working' /\ TotalsHold' /\ Progress' /\ Looked'
  BY DEF ReadSums, Working, TotalsHold, Progress, Looked, InItem, tables, Unmoved, AtStart
<1>4. DriftTells' /\ CutTells'
  BY DEF ReadSums, DriftTells, CutTells, Working, tables, AtStart
<1> QED BY <1>1, <1>2, <1>3, <1>4

\* A pair without movements that has a balance gets the target 0, and an item with
\* nothing to look at is right already.
LEMMA ListBalancesInv == IInv /\ ListBalances => IInv'
<1> SUFFICES ASSUME IInv, ListBalances PROVE IInv'
  OBVIOUS
<1> USE DEF IInv, RebuildInv
<1>1. TypeOK'
  <2>1. cut' \subseteq Pairs
    BY DEF ListBalances, Stored
  <2> QED BY <2>1, AmountAssumption DEF ListBalances, TypeOK, tables, Amounts
<1>2. ItemsAreWhole'
  BY WholeUndisturbed DEF ListBalances, CutTells
<1>3. Working' /\ Looked'
  BY DEF ListBalances, Working, Looked, InItem
<1>4. \A p \in Unmoved' : total'[p] = Target(p)' /\ AtStart(p)'
  <2>1. Listed \subseteq Stored /\ Stored = {p \in Pairs : bal[p] # Absent}
    BY DEF Listed, Stored
  <2> QED BY <2>1, AmountAssumption
          DEF ListBalances, TotalsHold, tables, Unmoved, AtStart, Target
<1>5. TotalsHold'
  BY <1>4 DEF ListBalances, TotalsHold
<1>6. Progress'
  <2>1. ASSUME NEW p \in Unmoved', p[1] \notin todo' PROVE Agrees(p)' \/ p \in cut'
    <3>1. total'[p] = Absent
      BY <2>1, PairTypes DEF ListBalances, Unmoved
    <3>2. ledger'[p] = Absent /\ (start'[p] = Absent \/ p \in cut')
      BY <1>4, <2>1, <3>1, AmountAssumption DEF Target
    <3> QED BY <1>4, <2>1, <3>2 DEF Agrees, AtStart
  <2> QED BY <1>4, <2>1 DEF ListBalances, Progress, InItem
<1>7. DriftTells'
  BY DEF ListBalances, DriftTells, tables, AtStart
<1>8. CutTells'
  <2>1. cut' \subseteq Stored \ Listed /\ moved' = moved /\ ledger' = ledger /\ start' = start
    BY DEF ListBalances, tables
  <2>2. \A p \in cut' \ moved' : ledger'[p] = Absent
    BY <2>1 DEF ListBalances, TotalsHold, Unmoved, Stored
  <2>3. ASSUME cut' # {} PROVE Cardinality(moved \cup {p \in Pairs : start[p] # Absent}) > RowLimit
    <3> DEFINE S == moved \cup {p \in Pairs : start[p] # Absent}
    <3>1. IsFiniteSet(S) /\ IsFiniteSet(Stored)
      BY FinitePairs, FS_Subset DEF Stored, TypeOK
    <3>2. Stored \subseteq S
      BY DEF Stored, ListBalances, TotalsHold, Unmoved, AtStart
    <3>3. ~(Cardinality(Stored) <= RowLimit)
      BY <2>1, <2>3, ListedAll
    <3>4. Cardinality(Stored) <= Cardinality(S) /\ Cardinality(S) \in Nat
          /\ Cardinality(Stored) \in Nat
      BY <3>1, <3>2, FS_Subset, FS_CardinalityType
    <3> HIDE DEF S
    <3>5. Cardinality(S) > RowLimit
      BY <3>3, <3>4, ForcedAssumption
    <3> QED BY <3>5 DEF S
  <2> QED BY <2>1, <2>2, <2>3 DEF CutTells, ListBalances
<1> QED BY <1>1, <1>2, <1>3, <1>5, <1>6, <1>7, <1>8

\* An item's transaction begins with its balances as they were found.
LEMMA BeginItemInv == IInv /\ (\E i \in Items : BeginItem(i)) => IInv'
<1> SUFFICES ASSUME IInv, NEW i \in Items, BeginItem(i) PROVE IInv'
  OBVIOUS
<1> USE DEF IInv, RebuildInv
<1>1. TypeOK'
  BY PairTypes DEF BeginItem, TypeOK, tables, Working, InItem
<1>2. ItemsAreWhole'
  BY WholeUndisturbed DEF BeginItem
<1>3. Working'
  BY DEF BeginItem, Working, InItem
<1>4. TotalsHold'
  BY DEF BeginItem, TotalsHold, tables, Unmoved, Target
<1>5. Progress'
  BY DEF BeginItem, Progress, InItem, tables, Unmoved, AtStart, Agrees
<1>6. Looked'
  <2>1. ASSUME NEW p \in PairsOf(i), p \notin moved, total[p] = Absent
        PROVE  Agrees(p) \/ p \in cut
    <3>1. p \in Unmoved /\ p[1] = i
      BY <2>1, PairTypes DEF Unmoved
    <3>2. ledger[p] = Absent /\ (start[p] = Absent \/ p \in cut)
      BY <2>1, <3>1, AmountAssumption DEF TotalsHold, BeginItem, Target
    <3>3. AtStart(p)
      BY <3>1 DEF Progress, BeginItem
    <3> QED BY <3>2, <3>3 DEF Agrees, AtStart
  <2> QED BY <2>1 DEF BeginItem, Looked, Working, InItem, tables, Agrees, WasWrong
<1>7. DriftTells' /\ CutTells'
  BY DEF BeginItem, DriftTells, CutTells, tables, AtStart, WasWrong
<1> QED BY <1>1, <1>2, <1>3, <1>4, <1>5, <1>6, <1>7

\* A pair that is looked at is right, or was wrong from the start.
LEMMA LookInv == IInv /\ (\E p \in Pairs : Look(p)) => IInv'
<1> SUFFICES ASSUME IInv, NEW p \in Pairs, Look(p) PROVE IInv'
  OBVIOUS
<1> USE DEF IInv, RebuildInv
<1>1. InItem /\ p \in PairsOf(item) /\ item \in Items /\ p[1] = item /\ total[p] # Absent
  BY PairTypes DEF Look, InItem, TypeOK, Working
<1>2. TypeOK'
  BY DEF Look, TypeOK, tables
<1>3. ItemsAreWhole'
  BY WholeUndisturbed DEF Look
<1>4. Working'
  BY <1>1 DEF Look, Working, InItem
<1>5. TotalsHold'
  BY DEF Look, TotalsHold, tables, Unmoved, Target
<1>6. Progress'
  BY <1>1 DEF Look, Progress, InItem, tables, Unmoved, AtStart, Agrees
<1>7. p \notin moved => total[p] = Value(ledger[p]) /\ AtStart(p)
  <2> HAVE p \notin moved
  <2>1. total[p] = Target(p) /\ AtStart(p)
    BY <1>1 DEF TotalsHold, Progress, Unmoved, Look
  <2>2. Value(total[p]) = total[p]
    BY <1>1 DEF Value
  <2> QED BY <2>1, <2>2, TargetAgrees
<1>8. Looked'
  <2>1. CASE Right(p)
    BY <1>1, <1>7, <2>1 DEF Look, Looked, InItem, tables, Agrees, WasWrong, Right
  <2>2. CASE ~Right(p)
    BY <1>1, <1>7, <2>2 DEF Look, Looked, InItem, tables, Agrees, WasWrong, Right, AtStart
  <2> QED BY <2>1, <2>2
<1>9. DriftTells' /\ CutTells'
  BY DEF Look, DriftTells, CutTells, tables, AtStart, WasWrong
<1> QED BY <1>2, <1>3, <1>4, <1>5, <1>6, <1>8, <1>9

\* A pair that is written was wrong.
LEMMA WriteInv == IInv /\ Write => IInv'
<1> SUFFICES ASSUME IInv, Write PROVE IInv'
  OBVIOUS
<1> USE DEF IInv, RebuildInv
<1>1. InItem /\ item \in Items /\ pair \in PairsOf(item) /\ pair \in Pairs /\ total[pair] # Absent
  BY PairTypes DEF Write, InItem, Working
<1>2. TypeOK'
  BY <1>1 DEF Write, TypeOK, tables
<1>3. ItemsAreWhole'
  BY WholeUndisturbed DEF Write
<1>4. Working'
  BY <1>1 DEF Write, Working, InItem
<1>5. TotalsHold'
  BY DEF Write, TotalsHold, tables, Unmoved, Target
<1>6. Progress'
  BY <1>1 DEF Write, Progress, InItem, tables, Unmoved, AtStart, Agrees
<1>7. Looked'
  BY <1>1 DEF Write, Looked, InItem, tables, Agrees, WasWrong
<1>8. DriftTells' /\ CutTells'
  <2>1. moved = {} => WasWrong(pair) /\ pair \notin cut
    BY <1>1, AmountAssumption DEF Write, Looked, TotalsHold, CutTells, Unmoved, Target
  <2> QED BY <1>1, <2>1 DEF Write, DriftTells, CutTells, tables, AtStart, WasWrong, TypeOK
<1> QED BY <1>2, <1>3, <1>4, <1>5, <1>6, <1>7, <1>8

\* Committing an item whose pairs were all looked at makes them right.
LEMMA CommitItemInv == IInv /\ CommitItem => IInv'
<1> SUFFICES ASSUME IInv, CommitItem PROVE IInv'
  OBVIOUS
<1> USE DEF IInv, RebuildInv
<1>1. InItem /\ item \in Items \ todo /\ fixed \subseteq PairsOf(item)
  BY DEF CommitItem, InItem, TypeOK, Working
<1>2. TypeOK'
  BY DEF CommitItem, TypeOK, tables, Amounts
<1>3. \A p \in Unmoved : p[1] = item => Agrees(p)' \/ p \in cut
  <2> TAKE p \in Unmoved
  <2> HAVE p[1] = item
  <2>1. p \in Pairs /\ p \in PairsOf(item) \ moved
    BY <1>1, PairTypes DEF Unmoved
  <2>2. CASE p \in fixed
    BY <2>1, <2>2, TargetAgrees DEF CommitItem, TotalsHold, Agrees
  <2>3. CASE p \notin fixed
    BY <1>1, <2>1, <2>3 DEF CommitItem, Looked, Agrees
  <2> QED BY <2>2, <2>3
<1>4. \A p \in Pairs : p[1] # item => bal'[p] = bal[p]
  BY <1>1, PairTypes DEF CommitItem
<1>5. ItemsAreWhole'
  <2> SUFFICES ASSUME NEW i \in Items, PairsOf(i) \cap moved = {}
               PROVE  \/ \A p \in PairsOf(i) : bal'[p] = start[p]
                      \/ \A p \in PairsOf(i) \ cut : Agrees(p)'
    BY DEF ItemsAreWhole, CommitItem, PairsOf
  <2>1. CASE i = item
    BY <1>3, <2>1, PairTypes DEF Unmoved
  <2>2. CASE i # item
    BY <1>4, <2>2, PairTypes DEF ItemsAreWhole, CommitItem, Agrees
  <2> QED BY <2>1, <2>2
<1>6. Working' /\ Looked'
  BY DEF CommitItem, Working, Looked, InItem
<1>7. TotalsHold'
  BY DEF CommitItem, TotalsHold, Unmoved, Target
<1>8. Progress'
  <2>1. ASSUME NEW p \in Unmoved, p[1] # item
        PROVE  IF p[1] \in todo THEN AtStart(p)' ELSE Agrees(p)' \/ p \in cut
    BY <1>1, <1>4, <2>1 DEF Progress, CommitItem, Unmoved, AtStart, Agrees
  <2> QED BY <1>1, <1>3, <2>1 DEF Progress, CommitItem, Unmoved, InItem
<1>9. DriftTells' /\ CutTells'
  BY DEF CommitItem, DriftTells, CutTells, AtStart, WasWrong, TypeOK
<1> QED BY <1>2, <1>5, <1>6, <1>7, <1>8, <1>9

\* The command ends when no item is left.
LEMMA FinishInv == IInv /\ Finish => IInv'
<1> SUFFICES ASSUME IInv, Finish PROVE IInv'
  OBVIOUS
<1> USE DEF IInv, RebuildInv
<1>1. TypeOK'
  BY DEF Finish, TypeOK, tables, NoTotal
<1>2. ItemsAreWhole'
  BY WholeUndisturbed DEF Finish
<1>3. Working' /\ TotalsHold' /\ Looked'
  BY DEF Finish, Working, TotalsHold, Looked, InItem
<1>4. Progress'
  BY DEF Finish, Progress, InItem, tables, Unmoved, Agrees
<1>5. DriftTells' /\ CutTells'
  BY DEF Finish, DriftTells, CutTells, tables, AtStart, WasWrong
<1> QED BY <1>1, <1>2, <1>3, <1>4, <1>5

\* A killed command leaves the items it committed and no more.
LEMMA DieInv == IInv /\ Die => IInv'
<1> SUFFICES ASSUME IInv, Die PROVE IInv'
  OBVIOUS
<1> USE DEF IInv, RebuildInv
<1>1. TypeOK'
  BY DEF Die, TypeOK, tables, NoTotal
<1>2. ItemsAreWhole'
  BY WholeUndisturbed DEF Die
<1>3. Working' /\ TotalsHold' /\ Progress' /\ Looked' /\ DriftTells' /\ CutTells'
  BY DEF Die, Working, TotalsHold, Progress, Looked, DriftTells, CutTells, InItem, tables
<1> QED BY <1>1, <1>2, <1>3

\* A movement takes its pair out of what is claimed, and touches no other.
LEMMA MovementInv == IInv /\ (\E p \in Pairs, delta \in Deltas : Movement(p, delta)) => IInv'
<1> SUFFICES ASSUME IInv, NEW p \in Pairs, NEW delta \in Deltas, Movement(p, delta)
             PROVE  IInv'
  OBVIOUS
<1> USE DEF IInv, RebuildInv
<1>1. TypeOK'
  BY DEF Movement, TypeOK, Amounts
<1>2. /\ \A q \in Pairs : q # p => bal'[q] = bal[q] /\ ledger'[q] = ledger[q]
      /\ moved' = moved \cup {p} /\ Unmoved' = Unmoved \ {p}
      /\ UNCHANGED <<pc, total, todo, item, left, pair, fixed, drift, start, cut>>
  BY DEF Movement, TypeOK, Unmoved
<1>3. \A q \in Unmoved' : /\ q \in Unmoved /\ q \in Pairs
                         /\ Target(q)' = Target(q) /\ AtStart(q)' = AtStart(q)
                         /\ Agrees(q)' = Agrees(q) /\ WasWrong(q)' = WasWrong(q)
  BY <1>2 DEF Unmoved, Target, AtStart, Agrees, WasWrong
<1>4. ItemsAreWhole'
  BY <1>2, PairTypes DEF ItemsAreWhole, Agrees
<1>5. Working'
  BY <1>2 DEF Working, InItem
<1>6. TotalsHold'
  BY <1>2, <1>3 DEF TotalsHold, AtStart, Unmoved
<1>7. Progress'
  BY <1>2, <1>3 DEF Progress, InItem
<1>8. Looked'
  <2>1. InItem => \A q \in PairsOf(item) \ moved' : q \in Unmoved'
    BY PairTypes DEF Unmoved, Working
  <2>2. \A q \in fixed \ moved' : q \in Unmoved'
    BY DEF Unmoved, TypeOK
  <2>3. pc = "write" /\ pair \notin moved' => pair \in Unmoved'
    BY PairTypes DEF Unmoved, Working, InItem
  <2> QED BY <1>2, <1>3, <2>1, <2>2, <2>3 DEF Looked, InItem, Unmoved
<1>9. DriftTells'
  BY <1>2 DEF DriftTells
<1>10. CutTells'
  <2> DEFINE S == moved \cup {q \in Pairs : start[q] # Absent}
  <2>1. IsFiniteSet(S) /\ IsFiniteSet(S \cup {p})
    BY FinitePairs, FS_Subset, FS_AddElement DEF TypeOK
  <2>2. Cardinality(S) \in Nat /\ Cardinality(S \cup {p}) \in Nat
        /\ Cardinality(S) <= Cardinality(S \cup {p})
    BY <2>1, FS_Subset, FS_CardinalityType
  <2>3. moved' \cup {q \in Pairs : start'[q] # Absent} = S \cup {p} /\ cut' = cut
    BY <1>2 DEF Movement
  <2>4. cut # {} => Cardinality(S) > RowLimit
    BY DEF CutTells
  <2> HIDE DEF S
  <2>5. cut' # {} => Cardinality(S \cup {p}) > RowLimit
    BY <2>2, <2>3, <2>4, ForcedAssumption
  <2>6. \A q \in cut' \ moved' : ledger'[q] = Absent
    BY <1>2, <2>3 DEF CutTells, TypeOK
  <2> QED BY <1>2, <2>3, <2>5, <2>6 DEF CutTells
<1> QED BY <1>1, <1>4, <1>5, <1>6, <1>7, <1>8, <1>9, <1>10

\* Every step keeps the invariant.
LEMMA NextInv == IInv /\ [Next]_vars => IInv'
<1> SUFFICES ASSUME IInv, [Next]_vars PROVE IInv'
  OBVIOUS
<1>1. CASE UNCHANGED vars
  BY <1>1 DEF vars, tables, IInv, RebuildInv, TypeOK, ItemsAreWhole, Working, TotalsHold,
              Progress, Looked, DriftTells, CutTells, InItem, Unmoved, AtStart, WasWrong, Target,
              Agrees
<1> QED BY <1>1, ReadSumsInv, ListBalancesInv, BeginItemInv, LookInv, WriteInv,
           CommitItemInv, FinishInv, DieInv, MovementInv DEF Next

--------------------------------------------------------------------------------
\* The theorems.

\* Every reachable state satisfies the inductive invariant.
THEOREM Inductive == Spec => []IInv
  BY InitInv, NextInv, PTL DEF Spec

\* Wherever the command is killed, the balances of an item nobody moves are as it found
\* them or all repaired (S13: one transaction per item, RebuildBalancesCommand).
THEOREM RebuildInvariant == Spec => []RebuildInv
<1>1. IInv => RebuildInv
  BY DEF IInv
<1> QED BY <1>1, Inductive, PTL

\* When the command ends every pair nobody moved since its start is right, after any
\* number of killed runs, but for balances no movement explains that were beyond the limit of
\* what it lists, and only if there were more rows than that; without movements its exit code
\* tells whether any other balance was wrong (execute).
THEOREM Repairs == Spec => []RepairedWhenDone
<1>1. IInv => RepairedWhenDone
  <2> SUFFICES ASSUME IInv, pc = "done"
               PROVE  /\ \A p \in Pairs \ (moved \cup cut) : Agrees(p)
                      /\ moved = {} => (drift <=> \E p \in Pairs \ cut : WasWrong(p))
    BY DEF RepairedWhenDone, IInv, CutTells
  <2>1. \A p \in Pairs \ (moved \cup cut) : Agrees(p)
    BY DEF IInv, Progress, Unmoved
  <2>2. ASSUME moved = {} PROVE drift <=> \E p \in Pairs \ cut : WasWrong(p)
    <3>1. ~drift => \A p \in Pairs \ cut : ~WasWrong(p)
      BY <2>1, <2>2 DEF IInv, DriftTells, AtStart, WasWrong, Agrees
    <3> QED BY <2>2, <3>1 DEF IInv, DriftTells, RebuildInv, TypeOK
  <2> QED BY <2>1, <2>2
<1> QED BY <1>1, Inductive, PTL

\* In maintenance mode nobody moves anything.
LEMMA NobodyMoves == ~Forced => (Spec => [](moved = {}))
<1> SUFFICES ASSUME ~Forced PROVE Spec => [](moved = {})
  OBVIOUS
<1>1. Init => moved = {}
  BY DEF Init
<1>2. moved = {} /\ [Next]_vars => (moved = {})'
  BY DEF Next, ReadSums, ListBalances, Write, CommitItem, Finish, Die, BeginItem, Look,
         Movement, vars
<1> QED BY <1>1, <1>2, PTL DEF Spec

\* In maintenance mode the command never makes a right balance wrong, wherever it is
\* killed and however often it is started again.
THEOREM MaintenanceIsSafe == ~Forced => (Spec => NothingDrifts)
<1> SUFFICES ASSUME ~Forced PROVE Spec => NothingDrifts
  OBVIOUS
<1>1. ASSUME IInv, moved = {}, [Next]_vars
      PROVE  [\A p \in Pairs : Agrees(p) => Agrees(p)']_vars
  <2>1. CASE CommitItem
    <3>1. \A p \in Pairs : Value(total[p]) = Value(ledger[p])
      BY <1>1, <2>1, TargetAgrees DEF IInv, TotalsHold, CommitItem, Unmoved
    <3> QED BY <2>1, <3>1 DEF CommitItem, Agrees
  <2>2. CASE ~CommitItem
    <3>1. UNCHANGED tables
      BY <1>1, <2>2 DEF Next, ReadSums, ListBalances, Write, Finish, Die, BeginItem, Look,
                        Movement, vars, tables
    <3> QED BY <3>1 DEF tables, Agrees
  <2> QED BY <2>1, <2>2
<1> QED BY <1>1, Inductive, NobodyMoves, PTL DEF NothingDrifts, Spec
================================================================================
