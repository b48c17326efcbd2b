-------------------------------- MODULE LockOrder --------------------------------
(***************************************************************************)
(* The row locks of the application's transactions: RowLocking's FOR       *)
(* UPDATE and LOCK IN SHARE MODE, which last until commit or rollback.     *)
(*                                                                         *)
(* A transaction is the plan of the locks it takes, in their order;        *)
(* LockPlans has the plans of the code.  Rows are numbered in the global   *)
(* order of the lock protocol.  With Queued a request waits behind the     *)
(* conflicting requests before it, as in InnoDB; without, a request is     *)
(* only held up by locks that are granted.                                 *)
(***************************************************************************)
EXTENDS Integers, Sequences, FiniteSets

CONSTANTS
  Workers,  \* PHP workers
  Plans,    \* what transactions lock, in order
  Queued    \* whether lock requests queue

LockRequest == [row: Nat, exclusive: BOOLEAN]

ASSUME WorkersAssumption == IsFiniteSet(Workers)
ASSUME PlanAssumption == Plans \subseteq Seq(LockRequest) \ {<<>>}
ASSUME QueuedAssumption == Queued \in BOOLEAN

VARIABLES
  plan,     \* the plan of each worker's transaction, <<>> outside one
  pos,      \* how many of its locks it was granted
  waiting,  \* workers whose request for the next lock is pending
  ahead     \* workers that were pending when they began to wait, and still are

vars == <<plan, pos, waiting, ahead>>

\* Only a transaction with locks to take waits, and for workers that wait as well.
TypeOK ==
  /\ plan \in [Workers -> Plans \cup {<<>>}]
  /\ pos \in [Workers -> Nat]
  /\ waiting \subseteq Workers
  /\ ahead \in [Workers -> SUBSET Workers]
  /\ \A w \in Workers : pos[w] <= Len(plan[w])
  /\ \A w \in waiting : pos[w] < Len(plan[w])
  /\ \A w \in Workers : ahead[w] \subseteq waiting

Init ==
  /\ plan = [w \in Workers |-> <<>>]
  /\ pos = [w \in Workers |-> 0]
  /\ waiting = {}
  /\ ahead = [w \in Workers |-> {}]

--------------------------------------------------------------------------------
Conflict(a, b) == a.row = b.row /\ (a.exclusive \/ b.exclusive)
\* A lock a transaction has already, at least as strong as the one it asks for.
Covers(a, b) == a.row = b.row /\ (a.exclusive \/ ~b.exclusive)

Wanted(w) == plan[w][pos[w] + 1]
Unfinished(w) == plan[w] # <<>> /\ pos[w] < Len(plan[w])
HasIt(w) == \E k \in 1..pos[w] : Covers(plan[w][k], Wanted(w))
HoldsAgainst(v, w) == \E k \in 1..pos[v] : Conflict(plan[v][k], Wanted(w))

\* Broken variant: a request overtakes the ones that wait.
CanGrantOvertaking(w, before) == HasIt(w) \/ \A v \in Workers \ {w} : ~HoldsAgainst(v, w)
CanGrant(w, before) ==
  \/ HasIt(w)
  \/ /\ \A v \in Workers \ {w} : ~HoldsAgainst(v, w)
     /\ Queued => \A v \in before : ~Conflict(Wanted(v), Wanted(w))

Begin(w, p) ==
  /\ plan[w] = <<>>
  /\ plan' = [plan EXCEPT ![w] = p]
  /\ UNCHANGED <<pos, waiting, ahead>>

Lock(w) ==
  /\ Unfinished(w) /\ w \notin waiting
  /\ CanGrant(w, waiting)
  /\ pos' = [pos EXCEPT ![w] = @ + 1]
  /\ UNCHANGED <<plan, waiting, ahead>>

Wait(w) ==
  /\ Unfinished(w) /\ w \notin waiting
  /\ ~CanGrant(w, waiting)
  /\ ahead' = [ahead EXCEPT ![w] = waiting]
  /\ waiting' = waiting \cup {w}
  /\ UNCHANGED <<plan, pos>>

\* Broken variant: the requests behind it keep waiting for it.
UnqueueAlone(w) == waiting' = waiting \ {w} /\ ahead' = [ahead EXCEPT ![w] = {}]
\* The worker no longer waits, and nobody waits behind it.
Unqueue(w) ==
  /\ waiting' = waiting \ {w}
  /\ ahead' = [v \in Workers |-> IF v = w THEN {} ELSE ahead[v] \ {w}]

Grant(w) ==
  /\ w \in waiting
  /\ CanGrant(w, ahead[w])
  /\ pos' = [pos EXCEPT ![w] = @ + 1]
  /\ Unqueue(w)
  /\ UNCHANGED plan

\* Commit and rollback release every lock; a rollback may come at any time.
End(w) ==
  /\ plan' = [plan EXCEPT ![w] = <<>>]
  /\ pos' = [pos EXCEPT ![w] = 0]

Commit(w) == plan[w] # <<>> /\ pos[w] = Len(plan[w]) /\ End(w) /\ UNCHANGED <<waiting, ahead>>
Rollback(w) == plan[w] # <<>> /\ End(w) /\ Unqueue(w)

--------------------------------------------------------------------------------
Step(w) == Lock(w) \/ Wait(w) \/ Grant(w) \/ Commit(w)

Next == \E w \in Workers : (\E p \in Plans : Begin(w, p)) \/ Step(w) \/ Rollback(w)

Spec == Init /\ [][Next]_vars

\* A worker goes on with its transaction, and a lock that can be granted is.
FairSpec == Spec /\ \A w \in Workers : WF_vars(Step(w))

--------------------------------------------------------------------------------
\* Properties.
WaitsFor(w, v) ==
  /\ w \in waiting /\ v # w
  /\ \/ HoldsAgainst(v, w)
     \/ Queued /\ v \in ahead[w] /\ Conflict(Wanted(v), Wanted(w))

\* No transactions wait for each other in a circle (RowLocking: deadlock-free by global
\* ordering).
NoLockCycle ==
  ~\E circle \in SUBSET Workers :
     circle # {} /\ \A w \in circle : \E v \in circle : WaitsFor(w, v)

\* Every transaction ends: none is overtaken for ever, none waits in a circle.
EveryoneGetsThrough == \A w \in Workers : plan[w] # <<>> ~> plan[w] = <<>>

\* A plan in the global order: each lock is covered by one the transaction has, or is on
\* a row after all of those it has.
InOrder(p) ==
  \A k \in 1..Len(p) :
    (\E j \in 1..(k - 1) : Covers(p[j], p[k])) \/ (\A j \in 1..(k - 1) : p[j].row < p[k].row)

AllInOrder == \A p \in Plans : InOrder(p)
================================================================================
