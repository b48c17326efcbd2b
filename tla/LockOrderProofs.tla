----------------------------- MODULE LockOrderProofs -----------------------------
(***************************************************************************)
(* When every transaction takes its locks in the global order, no          *)
(* transactions wait for each other in a circle: whatever the number of    *)
(* workers, the rows, the plans, and whether lock requests queue.          *)
(*                                                                         *)
(* Of two workers in a circle, the one waited for has a pending request    *)
(* itself: on a later row, or on the same row and earlier in its queue.    *)
(* Prior(w) collects the requests of a circle that come before w's in that *)
(* sense; it shrinks along every edge of the circle, so a worker whose     *)
(* Prior is smallest waits for nobody in it.                               *)
(***************************************************************************)
EXTENDS LockOrder, FiniteSetTheorems, WellFoundedInduction, TLAPS

\* Requests queue in one order, and a pending request is for a lock its transaction does
\* not have.
QueueInv ==
  /\ \A w \in Workers : w \notin ahead[w]
  /\ \A w \in Workers \ waiting : ahead[w] = {}
  /\ \A u, v, w \in Workers : u \in ahead[v] /\ v \in ahead[w] => u \in ahead[w]
  /\ \A w \in waiting : ~HasIt(w)

LockInv == TypeOK /\ QueueInv

\* A plan is a non-empty sequence of lock requests, so the next lock is one of them.
LEMMA PlanFacts ==
  ASSUME TypeOK, NEW w \in Workers
  PROVE  /\ plan[w] \in Seq(LockRequest)
         /\ Len(plan[w]) \in Nat
         /\ pos[w] \in Nat /\ pos[w] <= Len(plan[w])
         /\ \A k \in 1..Len(plan[w]) : plan[w][k] \in LockRequest
         /\ plan[w] # <<>> => plan[w] \in Plans
<1>1. plan[w] \in Plans \cup {<<>>}
  BY DEF TypeOK
<1>2. <<>> \in Seq(LockRequest)
  OBVIOUS
<1>3. plan[w] \in Seq(LockRequest)
  BY <1>1, <1>2, PlanAssumption
<1>. QED
  BY <1>1, <1>3 DEF TypeOK

\* The initial states satisfy the invariant.
LEMMA InitInv == Init => LockInv
<1>. SUFFICES ASSUME Init PROVE LockInv
  OBVIOUS
<1>1. TypeOK
  BY DEF Init, TypeOK
<1>2. QueueInv
  BY DEF Init, QueueInv
<1>. QED
  BY <1>1, <1>2 DEF LockInv

\* Beginning a transaction changes no request.
LEMMA BeginInv ==
  ASSUME LockInv, NEW w \in Workers, NEW p \in Plans, Begin(w, p)
  PROVE  LockInv'
<1>. USE DEF LockInv
<1>1. Len(p) \in Nat /\ Len(plan[w]) = 0
  BY PlanAssumption DEF Begin
<1>2. w \notin waiting /\ pos[w] = 0
  BY <1>1 DEF TypeOK
<1>3. plan' \in [Workers -> Plans \cup {<<>>}] /\ \A v \in Workers \ {w} : plan'[v] = plan[v]
  BY DEF Begin, TypeOK
<1>4. plan'[w] = p
  BY DEF Begin, TypeOK
<1>5. TypeOK'
  BY <1>1, <1>2, <1>3, <1>4 DEF Begin, TypeOK
<1>6. ASSUME NEW v \in waiting PROVE ~HasIt(v)'
  <2>1. ~HasIt(v) /\ v \in Workers /\ v # w
    BY <1>2, <1>6 DEF QueueInv, TypeOK
  <2>2. plan'[v] = plan[v] /\ pos'[v] = pos[v]
    BY <1>3, <2>1 DEF Begin
  <2>. QED
    BY <2>1, <2>2 DEF HasIt, Wanted
<1>7. QueueInv'
  BY <1>6 DEF Begin, QueueInv
<1>. QED
  BY <1>5, <1>7

\* A lock granted at once: the worker was not waiting and does not wait.
LEMMA LockStepInv ==
  ASSUME LockInv, NEW w \in Workers, Lock(w)
  PROVE  LockInv'
<1>. USE DEF LockInv
<1>1. Len(plan[w]) \in Nat /\ pos[w] \in Nat /\ pos[w] < Len(plan[w]) /\ w \notin waiting
  BY PlanFacts DEF Lock, Unfinished
<1>2. /\ pos' \in [Workers -> Nat]
      /\ pos'[w] = pos[w] + 1
      /\ \A v \in Workers \ {w} : pos'[v] = pos[v]
  BY <1>1 DEF Lock, TypeOK
<1>3. TypeOK'
  BY <1>1, <1>2 DEF Lock, TypeOK
<1>4. ASSUME NEW v \in waiting PROVE ~HasIt(v)'
  <2>1. ~HasIt(v) /\ v \in Workers /\ v # w
    BY <1>1, <1>4 DEF QueueInv, TypeOK
  <2>2. plan'[v] = plan[v] /\ pos'[v] = pos[v]
    BY <1>2, <2>1 DEF Lock
  <2>. QED
    BY <2>1, <2>2 DEF HasIt, Wanted
<1>5. QueueInv'
  BY <1>4 DEF Lock, QueueInv
<1>. QED
  BY <1>3, <1>5

\* A request that has to wait goes behind all that wait.
LEMMA WaitInv ==
  ASSUME LockInv, NEW w \in Workers, Wait(w)
  PROVE  LockInv'
<1>. USE DEF LockInv
<1>1. pos[w] < Len(plan[w]) /\ w \notin waiting /\ ~HasIt(w)
  BY DEF Wait, Unfinished, CanGrant
<1>2. ahead'[w] = waiting /\ \A v \in Workers \ {w} : ahead'[v] = ahead[v]
  BY DEF Wait, TypeOK
<1>3. TypeOK'
  BY <1>1, <1>2 DEF Wait, TypeOK
<1>4. \A v \in waiting' : ~HasIt(v)'
  BY <1>1 DEF Wait, QueueInv, HasIt, Wanted
<1>5. ASSUME NEW u \in Workers, NEW v \in Workers, NEW x \in Workers,
             u \in ahead'[v], v \in ahead'[x]
      PROVE  u \in ahead'[x]
  <2>1. v # w
    BY <1>1, <1>2, <1>5 DEF TypeOK
  <2>2. u \in ahead[v]
    BY <1>2, <1>5, <2>1
  <2>3. CASE x = w
    BY <1>2, <2>2, <2>3 DEF TypeOK
  <2>4. CASE x # w
    BY <1>2, <1>5, <2>2, <2>4 DEF QueueInv
  <2>. QED
    BY <2>3, <2>4
<1>6. \A v \in Workers : v \notin ahead'[v]
  BY <1>1, <1>2 DEF QueueInv
<1>7. \A v \in Workers \ waiting' : ahead'[v] = {}
  BY <1>2 DEF Wait, QueueInv
<1>8. QueueInv'
  BY <1>4, <1>5, <1>6, <1>7 DEF QueueInv
<1>. QED
  BY <1>3, <1>8

\* A worker that leaves the queue leaves the order of the others as it is.
LEMMA UnqueueInv ==
  ASSUME LockInv, NEW w \in Workers, Unqueue(w)
  PROVE  /\ waiting' \subseteq Workers
         /\ ahead' \in [Workers -> SUBSET Workers]
         /\ \A v \in Workers : ahead'[v] \subseteq waiting'
         /\ \A v \in Workers : v \notin ahead'[v]
         /\ \A v \in Workers \ waiting' : ahead'[v] = {}
         /\ \A u, v, x \in Workers : u \in ahead'[v] /\ v \in ahead'[x] => u \in ahead'[x]
<1>1. \A v \in Workers : ahead'[v] = IF v = w THEN {} ELSE ahead[v] \ {w}
  BY DEF Unqueue
<1>2. waiting' = waiting \ {w}
  BY DEF Unqueue
<1>. QED
  BY <1>1, <1>2 DEF Unqueue, LockInv, TypeOK, QueueInv

\* The other workers' requests are as they were.
LEMMA OthersWait ==
  ASSUME LockInv, NEW w \in Workers, waiting' = waiting \ {w},
         \A v \in Workers \ {w} : plan'[v] = plan[v] /\ pos'[v] = pos[v]
  PROVE  \A v \in waiting' : ~HasIt(v)'
<1>. SUFFICES ASSUME NEW v \in waiting' PROVE ~HasIt(v)'
  OBVIOUS
<1>1. v \in Workers \ {w} /\ ~HasIt(v)
  BY DEF LockInv, TypeOK, QueueInv
<1>. QED
  BY <1>1 DEF HasIt, Wanted

\* A pending request that is granted.
LEMMA GrantInv ==
  ASSUME LockInv, NEW w \in Workers, Grant(w)
  PROVE  LockInv'
<1>. USE DEF LockInv
<1>1. /\ Len(plan[w]) \in Nat /\ pos[w] \in Nat /\ pos[w] < Len(plan[w])
      /\ waiting' = waiting \ {w} /\ plan' = plan
  BY PlanFacts DEF Grant, Unqueue, TypeOK
<1>2. /\ pos' \in [Workers -> Nat]
      /\ pos'[w] = pos[w] + 1
      /\ \A v \in Workers \ {w} : pos'[v] = pos[v]
  BY <1>1 DEF Grant, TypeOK
<1>3. Unqueue(w)
  BY DEF Grant
<1>4. TypeOK'
  <2>1. \A v \in Workers : pos'[v] <= Len(plan'[v])
    BY <1>1, <1>2 DEF TypeOK
  <2>2. \A v \in waiting' : pos'[v] < Len(plan'[v])
    BY <1>1, <1>2 DEF TypeOK
  <2>3. plan' \in [Workers -> Plans \cup {<<>>}]
    BY <1>1 DEF TypeOK
  <2>. QED
    BY <1>2, <1>3, <2>1, <2>2, <2>3, UnqueueInv DEF TypeOK
<1>5. \A v \in waiting' : ~HasIt(v)'
  BY <1>1, <1>2, OthersWait
<1>6. QueueInv'
  BY <1>3, <1>5, UnqueueInv DEF QueueInv
<1>. QED
  BY <1>4, <1>6

\* What the end of a transaction does to the transactions.
LEMMA EndFacts ==
  ASSUME LockInv, NEW w \in Workers, End(w)
  PROVE  /\ plan' \in [Workers -> Plans \cup {<<>>}]
         /\ pos' \in [Workers -> Nat]
         /\ \A v \in Workers : pos'[v] <= Len(plan'[v])
         /\ \A v \in Workers \ {w} : plan'[v] = plan[v] /\ pos'[v] = pos[v]
<1>1. /\ plan' \in [Workers -> Plans \cup {<<>>}] /\ plan'[w] = <<>>
      /\ pos' \in [Workers -> Nat] /\ pos'[w] = 0
      /\ \A v \in Workers \ {w} : plan'[v] = plan[v] /\ pos'[v] = pos[v]
  BY DEF End, LockInv, TypeOK
<1>2. Len(plan'[w]) = 0
  BY <1>1
<1>. QED
  BY <1>1, <1>2 DEF LockInv, TypeOK

\* A commit: the worker was not waiting.
LEMMA CommitInv ==
  ASSUME LockInv, NEW w \in Workers, Commit(w)
  PROVE  LockInv'
<1>. USE DEF LockInv
<1>1. End(w) /\ waiting' = waiting /\ ahead' = ahead /\ w \notin waiting
  <2>1. Len(plan[w]) \in Nat /\ pos[w] = Len(plan[w])
    BY PlanFacts DEF Commit
  <2>. QED
    BY <2>1 DEF Commit, TypeOK
<1>2. waiting' = waiting \ {w}
  BY <1>1
<1>3. \A v \in waiting' : ~HasIt(v)'
  BY <1>1, <1>2, EndFacts, OthersWait
<1>4. TypeOK'
  BY <1>1, EndFacts DEF TypeOK
<1>5. QueueInv'
  BY <1>1, <1>3 DEF QueueInv
<1>. QED
  BY <1>4, <1>5

\* A rollback, of a waiting transaction or another.
LEMMA RollbackInv ==
  ASSUME LockInv, NEW w \in Workers, Rollback(w)
  PROVE  LockInv'
<1>. USE DEF LockInv
<1>1. End(w) /\ Unqueue(w) /\ waiting' = waiting \ {w}
  BY DEF Rollback, Unqueue
<1>2. \A v \in waiting' : ~HasIt(v)'
  BY <1>1, EndFacts, OthersWait
<1>3. \A v \in waiting' : pos'[v] < Len(plan'[v])
  BY <1>1, EndFacts DEF TypeOK
<1>4. TypeOK'
  BY <1>1, <1>3, EndFacts, UnqueueInv DEF TypeOK
<1>5. QueueInv'
  BY <1>1, <1>2, UnqueueInv DEF QueueInv
<1>. QED
  BY <1>4, <1>5

\* The invariant is inductive.
LEMMA NextInv == LockInv /\ [Next]_vars => LockInv'
<1>. SUFFICES ASSUME LockInv, [Next]_vars PROVE LockInv'
  OBVIOUS
<1>1. ASSUME NEW w \in Workers, NEW p \in Plans, Begin(w, p) PROVE LockInv'
  BY <1>1, BeginInv
<1>2. ASSUME NEW w \in Workers, Step(w) PROVE LockInv'
  BY <1>2, LockStepInv, WaitInv, GrantInv, CommitInv DEF Step
<1>3. ASSUME NEW w \in Workers, Rollback(w) PROVE LockInv'
  BY <1>3, RollbackInv
<1>4. CASE UNCHANGED vars
  BY <1>4 DEF vars, LockInv, TypeOK, QueueInv, HasIt, Wanted
<1>. QED
  BY <1>1, <1>2, <1>3, <1>4 DEF Next

\* The inductive invariant of the lock table.
LEMMA LockInvariant == Spec => []LockInv
<1>. QED
  BY InitInv, NextInv, PTL DEF Spec

\* The lock table and its queue stay well-formed: only transactions with locks to take
\* wait, and only behind requests that are pending (RowLocking).
THEOREM TypesCorrect == Spec => []TypeOK
<1>1. LockInv => TypeOK
  BY DEF LockInv
<1>. QED
  BY <1>1, LockInvariant, PTL

--------------------------------------------------------------------------------
\* The requests of a circle that come before w's.
Prior(circle, w) ==
  {v \in circle : \/ Wanted(v).row > Wanted(w).row
                  \/ Wanted(v).row = Wanted(w).row /\ v \in ahead[w]}

\* A waiting worker wants a lock on some row, after all the rows it has locked.
LEMMA WantedIsLast ==
  ASSUME LockInv, AllInOrder, NEW w \in waiting
  PROVE  /\ w \in Workers
         /\ Wanted(w).row \in Nat
         /\ \A k \in 1..pos[w] : plan[w][k].row < Wanted(w).row
<1>1. /\ w \in Workers /\ pos[w] \in Nat /\ Len(plan[w]) \in Nat /\ pos[w] < Len(plan[w])
      /\ plan[w] \in Plans
  <2>1. w \in Workers /\ pos[w] < Len(plan[w])
    BY DEF LockInv, TypeOK
  <2>2. plan[w] # <<>>
    BY <2>1, PlanFacts DEF LockInv
  <2>. QED
    BY <2>1, <2>2, PlanFacts DEF LockInv
<1>2. pos[w] + 1 \in 1..Len(plan[w]) /\ (pos[w] + 1) - 1 = pos[w]
  BY <1>1
<1>3. Wanted(w) \in LockRequest
  BY <1>1, <1>2, PlanFacts DEF LockInv, Wanted
<1>4. ~\E k \in 1..pos[w] : Covers(plan[w][k], Wanted(w))
  BY DEF LockInv, QueueInv, HasIt
<1>5. \A j \in 1..pos[w] : plan[w][j].row < Wanted(w).row
  BY <1>1, <1>2, <1>4 DEF AllInOrder, InOrder, Wanted
<1>. QED
  BY <1>1, <1>3, <1>5 DEF LockRequest

\* Along an edge between waiting workers the prior requests become fewer.
LEMMA PriorShrinks ==
  ASSUME LockInv, AllInOrder, NEW circle \in SUBSET waiting,
         NEW w \in circle, NEW v \in circle, WaitsFor(w, v)
  PROVE  Prior(circle, v) \subseteq Prior(circle, w) /\ Prior(circle, v) # Prior(circle, w)
<1>1. v \in Workers /\ w \in Workers /\ Wanted(v).row \in Nat /\ Wanted(w).row \in Nat
  BY WantedIsLast
<1>2. v \in Prior(circle, w)
  <2>1. CASE HoldsAgainst(v, w)
    <3>1. PICK k \in 1..pos[v] : Conflict(plan[v][k], Wanted(w))
      BY <2>1 DEF HoldsAgainst
    <3>2. Wanted(w).row < Wanted(v).row
      BY <3>1, WantedIsLast DEF Conflict
    <3>. QED
      BY <1>1, <3>2 DEF Prior
  <2>2. CASE v \in ahead[w] /\ Conflict(Wanted(v), Wanted(w))
    BY <2>2 DEF Prior, Conflict
  <2>. QED
    BY <2>1, <2>2 DEF WaitsFor
<1>3. v \notin Prior(circle, v)
  BY <1>1 DEF Prior, LockInv, QueueInv
<1>4. ASSUME NEW u \in Prior(circle, v) PROVE u \in Prior(circle, w)
  <2>1. u \in circle /\ u \in Workers /\ Wanted(u).row \in Nat
    BY WantedIsLast DEF Prior
  <2>2. u \in ahead[v] /\ v \in ahead[w] => u \in ahead[w]
    BY <1>1, <2>1 DEF LockInv, QueueInv
  <2>. QED
    BY <1>1, <1>2, <1>4, <2>1, <2>2 DEF Prior
<1>. QED
  BY <1>2, <1>3, <1>4

\* When the plans are in order no circle of waiting workers exists.
LEMMA NoCircle == LockInv /\ AllInOrder => NoLockCycle
<1>. SUFFICES ASSUME LockInv, AllInOrder,
                     NEW circle \in SUBSET Workers, circle # {},
                     \A w \in circle : \E v \in circle : WaitsFor(w, v)
              PROVE  FALSE
  BY DEF NoLockCycle
<1>1. circle \in SUBSET waiting
  BY DEF WaitsFor
<1>. DEFINE Size(w) == Cardinality(Prior(circle, w))
            Sizes == {Size(w) : w \in circle}
<1>2. \A w \in circle : IsFiniteSet(Prior(circle, w)) /\ Size(w) \in Nat
  <2>1. TAKE w \in circle
  <2>2. Prior(circle, w) \in SUBSET Workers
    BY DEF Prior
  <2>3. IsFiniteSet(Prior(circle, w))
    BY <2>2, FS_Subset, WorkersAssumption
  <2>. QED
    BY <2>3, FS_CardinalityType
<1>3. Sizes \subseteq Nat /\ Sizes # {}
  BY <1>2
<1>. DEFINE Less == OpToRel(<, Nat)
<1>4. IsWellFoundedOn(Less, Nat)
  BY NatLessThanWellFounded
<1>5. \A m, n \in Nat : m < n => <<m, n>> \in Less
  BY DEF OpToRel
<1>6. PICK n \in Sizes : \A m \in Sizes : ~(<<m, n>> \in Less)
  <2>. HIDE DEF Sizes, Less
  <2>. QED
    BY <1>3, <1>4, WFMin
<1>7. PICK w \in circle : n = Size(w)
  OBVIOUS
<1>8. PICK v \in circle : WaitsFor(w, v)
  OBVIOUS
<1>9. Size(v) < Size(w)
  <2>1. Prior(circle, v) \in SUBSET Prior(circle, w) /\ Prior(circle, v) # Prior(circle, w)
    BY <1>1, <1>8, PriorShrinks
  <2>2. /\ Cardinality(Prior(circle, v)) <= Cardinality(Prior(circle, w))
        /\ Cardinality(Prior(circle, w)) = Cardinality(Prior(circle, v))
             => Prior(circle, w) = Prior(circle, v)
    BY <1>2, <2>1, FS_Subset
  <2>. QED
    BY <1>2, <2>1, <2>2
<1>10. <<Size(v), Size(w)>> \in Less
  <2>. HIDE DEF Size, Less
  <2>. QED
    BY <1>2, <1>9, <1>5
<1>. QED
  BY <1>6, <1>7, <1>10

\* Transactions whose plans keep the global order never wait for each other in a circle,
\* with queueing lock requests and without (RowLocking's lock protocol).
THEOREM OrderedPlansNeverCycle == AllInOrder => (Spec => []NoLockCycle)
<1>. SUFFICES ASSUME AllInOrder PROVE Spec => []NoLockCycle
  OBVIOUS
<1>1. LockInv => NoLockCycle
  BY NoCircle
<1>. QED
  BY <1>1, LockInvariant, PTL
================================================================================
