---------------------------- MODULE CycleCountProofs ----------------------------
(***************************************************************************)
(* Theorems about CycleCount for any workers, items, campaigns and counts. *)
(***************************************************************************)
EXTENDS CycleCount, WellFoundedInduction, TLAPS

--------------------------------------------------------------------------------
\* What a worker may rely on, and the lock that lets it.
LocksCompatible == \A v, w \in Workers : v # w => excl[v] \cap (excl[w] \cup shared[w]) = {}

Closing == {"items", "balances"}
Usable(i) == item[i] = [status |-> "active", track |-> "none"]

\* An idle worker holds nothing.
IdleIsFree(w) == pc[w] = "idle" => shared[w] = {} /\ excl[w] = {}

\* create() holds the location from its first read to its only write.
CreateHolds(w) ==
  pc[w] \in {"page", "lines"} => PlaceRow \in excl[w] /\ loc = "active"

\* close() holds its campaign: nobody counts a line or closes it meanwhile.
CloseHolds(w) ==
  pc[w] \in Closing =>
    /\ call[w].op = "close"
    /\ CampaignRow(call[w].camp) \in excl[w]
    /\ camp[call[w].camp].status = "counting"
    /\ page[w] = camp[call[w].camp].lines
    /\ todo[w] \subseteq page[w]
    /\ ~Incomplete(call[w].camp, call[w].abandon)

\* It holds the items it checked, later the location, and the balances it read.
ItemsHeld(w) ==
  /\ pc[w] = "items" => \A i \in page[w] \ todo[w] : ItemRow(i) \in shared[w] /\ Usable(i)
  /\ pc[w] = "balances" => \A i \in page[w] : ItemRow(i) \in shared[w] /\ Usable(i)
BalancesHeld(w) ==
  pc[w] = "balances" =>
    /\ PlaceRow \in shared[w] /\ loc = "active"
    /\ \A i \in page[w] \ todo[w] : BalanceRow(i) \in excl[w] /\ seen[w][i] = bal[i]

\* A master data call holds its row, and what it found of the campaigns stays so.
MasterHolds(w) ==
  pc[w] = "write" =>
    /\ call[w].op \in {"item", "location"}
    /\ call[w].op = "item" => ItemRow(call[w].item) \in excl[w]
    /\ call[w].op = "location" => /\ PlaceRow \in excl[w]
                                  /\ call[w].to # "active" => Running = {}

WorkerInv(w) == /\ IdleIsFree(w) /\ CreateHolds(w) /\ CloseHolds(w)
                /\ ItemsHeld(w) /\ BalancesHeld(w) /\ MasterHolds(w)

\* Nothing of a worker changed.
Same(v) == /\ pc'[v] = pc[v] /\ call'[v] = call[v] /\ page'[v] = page[v]
           /\ todo'[v] = todo[v] /\ seen'[v] = seen[v]
           /\ shared'[v] = shared[v] /\ excl'[v] = excl[v]

IInv == CountInv /\ LocksCompatible /\ \A w \in Workers : WorkerInv(w)

--------------------------------------------------------------------------------
\* Facts about the data.

\* Ids are natural numbers, so the least of some of them is one of them.
LEMMA LeastIsOne ==
  ASSUME NEW S \in SUBSET Nat, S # {}
  PROVE  Min(S) \in S
<1> DEFINE R == OpToRel(<, Nat)
<1>1. \A m, n \in Nat : m < n => <<m, n>> \in R
  BY DEF OpToRel
<1>2. IsWellFoundedOn(R, Nat)
  BY NatLessThanWellFounded
<1>3. \E x \in S : \A y \in S : x =< y
  <2> HIDE DEF R
  <2>1. PICK x \in S : \A y \in S : ~(<<y, x>> \in R)
    BY <1>2, WFMin
  <2>2. ASSUME NEW y \in S PROVE x =< y
    <3>1. x \in Nat /\ y \in Nat /\ ~(y < x)
      BY <1>1, <2>1
    <3> QED BY <3>1
  <2> QED BY <2>2
<1> QED BY <1>3 DEF Min

\* Rows are distinct.
LEMMA RowNames ==
  ASSUME NEW x, NEW y
  PROVE  /\ ItemRow(x) = ItemRow(y) => x = y
         /\ BalanceRow(x) = BalanceRow(y) => x = y
         /\ CampaignRow(x) = CampaignRow(y) => x = y
         /\ ItemRow(x) # BalanceRow(y) /\ ItemRow(x) # CampaignRow(y)
         /\ BalanceRow(x) # CampaignRow(y)
         /\ PlaceRow \notin {ItemRow(x), BalanceRow(x), CampaignRow(x)}
  BY DEF ItemRow, BalanceRow, CampaignRow, PlaceRow

\* A row of an item, of a campaign or of the location can be locked.
LEMMA RowTypes ==
  /\ PlaceRow \in LockRows
  /\ \A i \in Items : ItemRow(i) \in LockRows /\ BalanceRow(i) \in LockRows
  /\ \A c \in Campaigns : CampaignRow(c) \in LockRows
  BY DEF LockRows

\* What a call of each kind names.
LEMMA CallTypes ==
  ASSUME NEW c \in Call
  PROVE  /\ c.op = "close" => /\ c.camp \in Campaigns
                              /\ c.abandon \in BOOLEAN /\ c.acknowledge \in BOOLEAN
         /\ c.op = "item" => c.item \in Items /\ c.to \in ItemTargets
         /\ c.op = "location" => c.to \in PlaceTargets
  BY DEF Call

\* The calls workers make are calls.
LEMMA CallsAreCalls ==
  /\ NoCall \in Call
  /\ \A c \in Campaigns, a, k \in BOOLEAN :
       [op |-> "close", camp |-> c, abandon |-> a, acknowledge |-> k] \in Call
  /\ \A i \in Items, to \in ItemTargets : [op |-> "item", item |-> i, to |-> to] \in Call
  /\ \A to \in PlaceTargets : [op |-> "location", to |-> to] \in Call
  BY DEF Call, NoCall

\* What is in a worker's variables when it is idle is of their types.
LEMMA EmptyTypes ==
  NoBalances \in [Items -> Int] /\ NoCampaign \in Campaign
<1>1. NotCounted \in {NotCounted} \cup 0..CountMax
  OBVIOUS
<1> QED BY <1>1 DEF NoBalances, NoCampaign, Campaign

--------------------------------------------------------------------------------
\* Locks.

\* A share lock is granted only when nobody excludes it.
LEMMA ShareGranted ==
  ASSUME TypeOK, LocksCompatible, NEW w \in Workers, NEW x \in LockRows, Share(w, x)
  PROVE  /\ shared' \in [Workers -> SUBSET LockRows] /\ excl' = excl
         /\ shared'[w] = shared[w] \cup {x}
         /\ \A v \in Workers \ {w} : shared'[v] = shared[v]
         /\ LocksCompatible'
  BY DEF TypeOK, LocksCompatible, Share, CanShare

\* An exclusive lock is granted only when nobody else has the row.
LEMMA ExcludeGranted ==
  ASSUME TypeOK, LocksCompatible, NEW w \in Workers, NEW x \in LockRows, Exclude(w, x)
  PROVE  /\ excl' \in [Workers -> SUBSET LockRows] /\ shared' = shared
         /\ excl'[w] = excl[w] \cup {x}
         /\ \A v \in Workers \ {w} : excl'[v] = excl[v]
         /\ LocksCompatible'
  BY DEF TypeOK, LocksCompatible, Exclude, CanExclude, CanShare

\* The end of a request leaves its worker idle and the others alone.
LEMMA EndLeaves ==
  ASSUME TypeOK, LocksCompatible, NEW w \in Workers, End(w)
  PROVE  /\ pc' \in [Workers -> PCs] /\ call' \in [Workers -> Call]
         /\ page' \in [Workers -> SUBSET Items] /\ todo' \in [Workers -> SUBSET Items]
         /\ seen' \in [Workers -> [Items -> Int]]
         /\ shared' \in [Workers -> SUBSET LockRows] /\ excl' \in [Workers -> SUBSET LockRows]
         /\ pc'[w] = "idle" /\ shared'[w] = {} /\ excl'[w] = {}
         /\ \A v \in Workers \ {w} : Same(v)
         /\ LocksCompatible'
         /\ WorkerInv(w)'
<1>1. pc'[w] = "idle" /\ shared'[w] = {} /\ excl'[w] = {}
  BY DEF TypeOK, End
<1>2. WorkerInv(w)'
  BY <1>1 DEF WorkerInv, IdleIsFree, CreateHolds, CloseHolds, ItemsHeld, BalancesHeld,
              MasterHolds, Closing
<1> QED BY <1>1, <1>2, CallsAreCalls, EmptyTypes DEF TypeOK, End, LocksCompatible, Same, PCs

\* What a worker knows is protected by the locks it has: it outlasts every step of others
\* that respects them.
LEMMA OthersKeep ==
  ASSUME IInv, NEW v \in Workers, Same(v),
         \A i \in Items : item'[i] = item[i] \/ ItemRow(i) \notin shared[v],
         \A i \in Items : bal'[i] = bal[i] \/ BalanceRow(i) \notin excl[v],
         loc' = loc \/ PlaceRow \notin shared[v] \cup excl[v],
         \A c \in Campaigns : \/ camp'[c] = camp[c]
                              \/ CampaignRow(c) \notin excl[v]
                              \/ camp[c].status # "counting",
         Running' \subseteq Running \/ PlaceRow \notin excl[v]
  PROVE  WorkerInv(v)'
<1> USE DEF IInv, CountInv, WorkerInv, Same
<1>1. pc[v] \in PCs /\ call[v] \in Call /\ page[v] \in SUBSET Items /\ todo[v] \in SUBSET Items
  BY DEF TypeOK
<1>2. IdleIsFree(v)'
  BY DEF IdleIsFree
<1>3. CreateHolds(v)'
  BY DEF CreateHolds
<1>4. CloseHolds(v)'
  <2> SUFFICES ASSUME pc[v] \in Closing PROVE CloseHolds(v)'
    BY DEF CloseHolds
  <2>1. CloseHolds(v) /\ call[v].camp \in Campaigns
    BY <1>1, CallTypes DEF CloseHolds
  <2>2. camp'[call[v].camp] = camp[call[v].camp]
    BY <2>1 DEF CloseHolds
  <2> QED BY <2>1, <2>2 DEF CloseHolds, Incomplete
<1>5. ItemsHeld(v)'
  BY <1>1 DEF ItemsHeld, Usable
<1>6. BalancesHeld(v)'
  BY <1>1 DEF BalancesHeld
<1>7. MasterHolds(v)'
  BY DEF MasterHolds
<1> QED BY <1>2, <1>3, <1>4, <1>5, <1>6, <1>7

\* In particular every step that leaves the tables alone.
LEMMA OthersKeepTables ==
  ASSUME IInv, NEW v \in Workers, Same(v), UNCHANGED tables
  PROVE  WorkerInv(v)'
<1>1. Running' = Running
  BY DEF tables, Running
<1> QED BY <1>1, OthersKeep DEF tables

\* And of a step that leaves the tables alone, every other part of the invariant.
LEMMA LocationKept ==
  ASSUME RunningKeepsLocation, UNCHANGED tables
  PROVE  RunningKeepsLocation'
  BY DEF RunningKeepsLocation, Running, tables

--------------------------------------------------------------------------------
\* One lemma per action: it keeps the invariant.

\* At the start nobody works, and no campaign exists.
LEMMA InitInv == Init => IInv
<1> SUFFICES ASSUME Init PROVE IInv
  OBVIOUS
<1>1. TypeOK
  BY EmptyTypes, CallsAreCalls DEF Init, TypeOK, PCs, Statuses, TrackModes
<1>2. RunningKeepsLocation /\ LocksCompatible
  BY DEF Init, RunningKeepsLocation, LocksCompatible
<1>3. ASSUME NEW w \in Workers PROVE WorkerInv(w)
  BY DEF Init, WorkerInv, IdleIsFree, CreateHolds, CloseHolds, ItemsHeld, BalancesHeld,
         MasterHolds, Closing
<1> QED BY <1>1, <1>2, <1>3 DEF IInv, CountInv

\* A rollback gives up what was not written.
LEMMA RollbackInv ==
  ASSUME IInv, NEW w \in Workers, Rollback(w)
  PROVE  IInv'
<1>1. TypeOK'
  BY EndLeaves DEF Rollback, IInv, CountInv, TypeOK, tables
<1>2. ASSUME NEW v \in Workers PROVE WorkerInv(v)'
  BY <1>2, EndLeaves, OthersKeepTables DEF Rollback, IInv, CountInv
<1> QED BY <1>1, <1>2, EndLeaves, LocationKept DEF Rollback, IInv, CountInv

\* A request that takes its first lock knows nothing yet but what it just read.
LEMMA BeginLeaves ==
  ASSUME IInv, NEW w \in Workers, NEW c \in Call, NEW x \in LockRows, NEW label \in PCs,
         Begin(w, c, x, label)
  PROVE  /\ pc' \in [Workers -> PCs] /\ call' \in [Workers -> Call]
         /\ shared' \in [Workers -> SUBSET LockRows] /\ excl' \in [Workers -> SUBSET LockRows]
         /\ pc'[w] = label /\ call'[w] = c /\ shared'[w] = {} /\ excl'[w] = {x}
         /\ \A v \in Workers \ {w} : /\ pc'[v] = pc[v] /\ call'[v] = call[v]
                                    /\ shared'[v] = shared[v] /\ excl'[v] = excl[v]
         /\ LocksCompatible'
<1>1. shared[w] = {} /\ excl[w] = {}
  BY DEF IInv, WorkerInv, IdleIsFree, Begin
<1> QED BY <1>1, ExcludeGranted DEF IInv, CountInv, TypeOK, Begin, Goto

\* create() locks an active location.
LEMMA BeginCreateInv ==
  ASSUME IInv, NEW w \in Workers, BeginCreate(w)
  PROVE  IInv'
<1>1. NoCall \in Call /\ PlaceRow \in LockRows /\ "page" \in PCs
  BY CallsAreCalls, RowTypes DEF PCs
<1>2. TypeOK' /\ LocksCompatible'
  BY <1>1, BeginLeaves DEF BeginCreate, IInv, CountInv, TypeOK, tables
<1>3. pc'[w] = "page" /\ excl'[w] = {PlaceRow} /\ loc' = "active"
  BY <1>1, BeginLeaves DEF BeginCreate, tables
<1>4. WorkerInv(w)'
  BY <1>3 DEF WorkerInv, IdleIsFree, CreateHolds, CloseHolds, ItemsHeld, BalancesHeld,
              MasterHolds, Closing
<1>5. ASSUME NEW v \in Workers \ {w} PROVE WorkerInv(v)'
  BY <1>1, <1>5, BeginLeaves, OthersKeepTables DEF BeginCreate, Same
<1> QED BY <1>2, <1>4, <1>5, LocationKept DEF IInv, CountInv, BeginCreate

\* create() reads the catalog.
LEMMA ReadPageInv ==
  ASSUME IInv, NEW w \in Workers, ReadPage(w)
  PROVE  IInv'
<1>1. TypeOK' /\ LocksCompatible'
  BY DEF ReadPage, Goto, IInv, CountInv, TypeOK, LocksCompatible, tables, PCs, Eligible
<1>2. pc'[w] = "lines" /\ excl'[w] = excl[w] /\ loc' = loc
  BY DEF ReadPage, Goto, tables, IInv, CountInv, TypeOK
<1>3. WorkerInv(w)'
  BY <1>2 DEF WorkerInv, IdleIsFree, CreateHolds, CloseHolds, ItemsHeld, BalancesHeld,
              MasterHolds, Closing, IInv, ReadPage
<1>4. ASSUME NEW v \in Workers \ {w} PROVE WorkerInv(v)'
  BY <1>4, OthersKeepTables DEF ReadPage, Goto, Same, IInv, CountInv, TypeOK
<1> QED BY <1>1, <1>3, <1>4, LocationKept DEF IInv, CountInv, ReadPage

\* create() reads a balance.
LEMMA ReadBalanceInv ==
  ASSUME IInv, NEW w \in Workers, ReadBalance(w)
  PROVE  IInv'
<1>1. Min(todo[w]) \in Items
  BY LeastIsOne, ItemIdAssumption DEF ReadBalance, IInv, CountInv, TypeOK
<1>2. TypeOK' /\ LocksCompatible'
  BY <1>1 DEF ReadBalance, IInv, CountInv, TypeOK, LocksCompatible, tables
<1>3. WorkerInv(w)'
  BY DEF ReadBalance, WorkerInv, IdleIsFree, CreateHolds, CloseHolds, ItemsHeld,
         BalancesHeld, MasterHolds, Closing, IInv, tables
<1>4. ASSUME NEW v \in Workers \ {w} PROVE WorkerInv(v)'
  BY <1>4, OthersKeepTables DEF ReadBalance, Same, IInv, CountInv, TypeOK
<1> QED BY <1>2, <1>3, <1>4, LocationKept DEF IInv, CountInv, ReadBalance

\* A campaign is only ever saved while its location is held, and active.
LEMMA SaveCampaignInv ==
  ASSUME IInv, NEW w \in Workers, SaveCampaign(w)
  PROVE  IInv'
<1> DEFINE unused == {c \in Campaigns : camp[c].status = "none"}
           d == Min(unused)
<1>1. d \in Campaigns /\ camp[d].status = "none"
  <2>1. unused \in SUBSET Nat /\ unused # {}
    BY CampaignIdAssumption DEF SaveCampaign
  <2>2. d \in unused
    BY <2>1, LeastIsOne
  <2> QED BY <2>2
<1> DEFINE new == [NoCampaign EXCEPT !.status = "open", !.lines = page[w], !.system = seen[w]]
<1>2. camp' = [camp EXCEPT ![d] = new] /\ UNCHANGED <<item, loc, bal, moved>> /\ End(w)
  BY DEF SaveCampaign
<1> HIDE DEF d
<1>3. new \in Campaign
  BY EmptyTypes DEF IInv, CountInv, TypeOK, Campaign
<1> HIDE DEF new
<1>4. TypeOK' /\ LocksCompatible' /\ WorkerInv(w)'
  BY <1>1, <1>2, <1>3, EndLeaves DEF IInv, CountInv, TypeOK
<1>5. loc = "active" /\ PlaceRow \in excl[w]
  BY DEF IInv, WorkerInv, CreateHolds, SaveCampaign
<1>6. RunningKeepsLocation'
  BY <1>2, <1>5 DEF RunningKeepsLocation
<1>7. ASSUME NEW v \in Workers \ {w} PROVE WorkerInv(v)'
  <2>1. PlaceRow \notin excl[v]
    BY <1>5, <1>7 DEF IInv, LocksCompatible
  <2>2. \A c \in Campaigns : camp'[c] = camp[c] \/ camp[c].status # "counting"
    BY <1>1, <1>2 DEF IInv, CountInv, TypeOK
  <2>3. Same(v)
    BY <1>2, <1>7, EndLeaves DEF IInv, CountInv
  <2> QED BY <1>2, <2>1, <2>2, <2>3, OthersKeep
<1> QED BY <1>4, <1>6, <1>7 DEF IInv, CountInv

\* A campaign begins to count: it was running before.
LEMMA StartCountingInv ==
  ASSUME IInv, NEW c \in Campaigns, StartCounting(c)
  PROVE  IInv'
<1>1. /\ camp' = [camp EXCEPT ![c].status = "counting"] /\ camp[c].status = "open"
      /\ UNCHANGED <<worker, item, loc, bal, moved>>
  BY DEF StartCounting
<1>2. TypeOK' /\ LocksCompatible'
  BY <1>1 DEF IInv, CountInv, TypeOK, LocksCompatible, worker, Campaign
<1>3. Running' = Running
  BY <1>1 DEF Running, IInv, CountInv, TypeOK, Campaign
<1>4. ASSUME NEW v \in Workers PROVE WorkerInv(v)'
  BY <1>1, <1>3, <1>4, OthersKeep DEF Same, worker, IInv, CountInv, TypeOK
<1> QED BY <1>1, <1>2, <1>3, <1>4 DEF IInv, CountInv, RunningKeepsLocation

\* A line is counted under the lock of its campaign.
LEMMA SetCountInv ==
  ASSUME IInv, NEW c \in Campaigns, NEW i \in Items, NEW q \in Counts, SetCount(c, i, q)
  PROVE  IInv'
<1>1. /\ camp' = [camp EXCEPT ![c].counted[i] = q] /\ q \in 0..CountMax
      /\ \A v \in Workers : CampaignRow(c) \notin excl[v]
      /\ UNCHANGED <<worker, item, loc, bal, moved>>
  BY DEF SetCount, CanExclude, CanShare
<1>2. TypeOK' /\ LocksCompatible'
  BY <1>1 DEF IInv, CountInv, TypeOK, LocksCompatible, worker, Campaign
<1>3. Running' = Running
  BY <1>1 DEF Running, IInv, CountInv, TypeOK, Campaign
<1>4. ASSUME NEW v \in Workers PROVE WorkerInv(v)'
  BY <1>1, <1>3, <1>4, OthersKeep DEF Same, worker, IInv, CountInv, TypeOK
<1> QED BY <1>1, <1>2, <1>3, <1>4 DEF IInv, CountInv, RunningKeepsLocation

\* close() takes the lock of a campaign that is counting and complete, or given up.
LEMMA BeginCloseInv ==
  ASSUME IInv, NEW w \in Workers, NEW c \in Campaigns, NEW abandon \in BOOLEAN,
         NEW acknowledge \in BOOLEAN, BeginClose(w, c, abandon, acknowledge)
  PROVE  IInv'
<1> DEFINE k == [op |-> "close", camp |-> c, abandon |-> abandon,
                 acknowledge |-> acknowledge]
<1>1. k \in Call /\ CampaignRow(c) \in LockRows /\ "items" \in PCs
  BY CallsAreCalls, RowTypes DEF PCs
<1>2. /\ Begin(w, k, CampaignRow(c), "items")
      /\ camp[c].status = "counting" /\ ~Incomplete(c, abandon)
      /\ page' = [page EXCEPT ![w] = camp[c].lines]
      /\ todo' = [todo EXCEPT ![w] = camp[c].lines]
      /\ UNCHANGED <<seen, tables>>
  BY DEF BeginClose
<1>3. k.op = "close" /\ k.camp = c /\ k.abandon = abandon
  OBVIOUS
<1> HIDE DEF k
<1>4. camp[c].lines \in SUBSET Items
  BY DEF IInv, CountInv, TypeOK, Campaign
<1>5. TypeOK' /\ LocksCompatible'
  BY <1>1, <1>2, <1>4, BeginLeaves DEF IInv, CountInv, TypeOK, tables
<1>6. /\ pc'[w] = "items" /\ call'[w] = k /\ excl'[w] = {CampaignRow(c)}
      /\ page'[w] = camp[c].lines /\ todo'[w] = camp[c].lines /\ camp' = camp
  BY <1>1, <1>2, BeginLeaves DEF IInv, CountInv, TypeOK, tables
<1>7. WorkerInv(w)'
  BY <1>2, <1>3, <1>6 DEF WorkerInv, IdleIsFree, CreateHolds, CloseHolds, ItemsHeld,
     BalancesHeld, MasterHolds, Closing, Incomplete
<1>8. ASSUME NEW v \in Workers \ {w} PROVE WorkerInv(v)'
  BY <1>1, <1>2, <1>8, BeginLeaves, OthersKeepTables DEF Same, IInv, CountInv, TypeOK
<1> QED BY <1>2, <1>5, <1>7, <1>8, LocationKept DEF IInv, CountInv

\* What a closing worker works with.
LEMMA CloseTypes ==
  ASSUME IInv, NEW w \in Workers, pc[w] \in Closing
  PROVE  /\ call[w].camp \in Campaigns /\ todo[w] \in SUBSET Nat
         /\ todo[w] # {} => Min(todo[w]) \in todo[w] /\ Min(todo[w]) \in Items
<1>1. call[w] \in Call /\ call[w].op = "close" /\ todo[w] \in SUBSET Items
  BY DEF IInv, CountInv, TypeOK, WorkerInv, CloseHolds
<1>2. todo[w] \in SUBSET Nat
  BY <1>1, ItemIdAssumption
<1> QED BY <1>1, <1>2, CallTypes, LeastIsOne

\* close() finds an item usable and keeps it so.
LEMMA LockLineItemInv ==
  ASSUME IInv, NEW w \in Workers, LockLineItem(w)
  PROVE  IInv'
<1> DEFINE i == Min(todo[w])
<1>1. /\ pc[w] = "items" /\ Usable(i) /\ Share(w, ItemRow(i))
      /\ todo' = [todo EXCEPT ![w] = @ \ {i}]
      /\ UNCHANGED <<pc, call, page, seen, tables>>
  BY DEF LockLineItem, Usable
<1>2. i \in todo[w] /\ i \in Items /\ ItemRow(i) \in LockRows
  BY CloseTypes, RowTypes DEF LockLineItem, Closing
<1> HIDE DEF i
<1>3. TypeOK' /\ LocksCompatible'
  BY <1>1, <1>2, ShareGranted DEF IInv, CountInv, TypeOK, tables
<1>4. shared'[w] = shared[w] \cup {ItemRow(i)} /\ excl' = excl /\ todo'[w] = todo[w] \ {i}
  BY <1>1, <1>2, ShareGranted DEF IInv, CountInv, TypeOK
<1>5. WorkerInv(w)'
  <2>1. WorkerInv(w)
    BY DEF IInv
  <2>2. CloseHolds(w)'
    BY <1>1, <1>4, <2>1 DEF WorkerInv, CloseHolds, Closing, Incomplete, tables
  <2>3. ItemsHeld(w)'
    BY <1>1, <1>4, <2>1 DEF WorkerInv, ItemsHeld, Usable, tables
  <2> QED BY <1>1, <2>2, <2>3 DEF WorkerInv, IdleIsFree, CreateHolds, BalancesHeld, MasterHolds
<1>6. ASSUME NEW v \in Workers \ {w} PROVE WorkerInv(v)'
  BY <1>1, <1>2, <1>6, ShareGranted, OthersKeepTables DEF Same, IInv, CountInv, TypeOK
<1> QED BY <1>1, <1>3, <1>5, <1>6, LocationKept DEF IInv, CountInv

\* With all items held, close() finds the location active and keeps it so.
LEMMA LockPlaceInv ==
  ASSUME IInv, NEW w \in Workers, LockPlace(w)
  PROVE  IInv'
<1>1. /\ pc[w] = "items" /\ todo[w] = {} /\ loc = "active" /\ Share(w, PlaceRow)
      /\ todo' = [todo EXCEPT ![w] = page[w]]
      /\ pc' = [pc EXCEPT ![w] = "balances"]
      /\ UNCHANGED <<call, page, seen, tables>>
  BY DEF LockPlace, Goto
<1>2. PlaceRow \in LockRows
  BY RowTypes
<1>3. TypeOK' /\ LocksCompatible'
  BY <1>1, <1>2, ShareGranted DEF IInv, CountInv, TypeOK, tables, PCs
<1>4. /\ shared'[w] = shared[w] \cup {PlaceRow} /\ excl' = excl
      /\ todo'[w] = page[w] /\ pc'[w] = "balances"
  BY <1>1, <1>2, ShareGranted DEF IInv, CountInv, TypeOK
<1>5. WorkerInv(w)'
  <2>1. WorkerInv(w)
    BY DEF IInv
  <2>2. CloseHolds(w)'
    BY <1>1, <1>4, <2>1 DEF WorkerInv, CloseHolds, Closing, Incomplete, tables
  <2>3. ItemsHeld(w)'
    BY <1>1, <1>4, <2>1 DEF WorkerInv, ItemsHeld, Usable, tables
  <2>4. BalancesHeld(w)'
    BY <1>1, <1>4 DEF BalancesHeld, tables
  <2> QED BY <1>4, <2>2, <2>3, <2>4 DEF WorkerInv, IdleIsFree, CreateHolds, MasterHolds
<1>6. ASSUME NEW v \in Workers \ {w} PROVE WorkerInv(v)'
  BY <1>1, <1>2, <1>6, ShareGranted, OthersKeepTables DEF Same, IInv, CountInv, TypeOK
<1> QED BY <1>1, <1>3, <1>5, <1>6, LocationKept DEF IInv, CountInv

\* close() reads a balance that from then on nobody moves.
LEMMA LockLineBalanceInv ==
  ASSUME IInv, NEW w \in Workers, LockLineBalance(w)
  PROVE  IInv'
<1> DEFINE i == Min(todo[w])
<1>1. /\ pc[w] = "balances" /\ Exclude(w, BalanceRow(i))
      /\ seen' = [seen EXCEPT ![w][i] = bal[i]]
      /\ todo' = [todo EXCEPT ![w] = @ \ {i}]
      /\ UNCHANGED <<pc, call, page, tables>>
  BY DEF LockLineBalance
<1>2. i \in todo[w] /\ i \in Items /\ BalanceRow(i) \in LockRows
  BY CloseTypes, RowTypes DEF LockLineBalance, Closing
<1> HIDE DEF i
<1>3. TypeOK' /\ LocksCompatible'
  BY <1>1, <1>2, ExcludeGranted DEF IInv, CountInv, TypeOK, tables
<1>4. /\ excl'[w] = excl[w] \cup {BalanceRow(i)} /\ shared' = shared
      /\ todo'[w] = todo[w] \ {i} /\ seen'[w] = [seen[w] EXCEPT ![i] = bal[i]]
      /\ seen[w] \in [Items -> Int] /\ page[w] \subseteq Items
  BY <1>1, <1>2, ExcludeGranted DEF IInv, CountInv, TypeOK
<1>5. WorkerInv(w)'
  <2>1. WorkerInv(w)
    BY DEF IInv
  <2>2. CloseHolds(w)'
    BY <1>1, <1>4, <2>1 DEF WorkerInv, CloseHolds, Closing, Incomplete, tables
  <2>3. ItemsHeld(w)'
    BY <1>1, <1>4, <2>1 DEF WorkerInv, ItemsHeld, Usable, tables
  <2>4. BalancesHeld(w)'
    BY <1>1, <1>2, <1>4, <2>1 DEF WorkerInv, BalancesHeld, tables
  <2> QED BY <1>1, <2>2, <2>3, <2>4 DEF WorkerInv, IdleIsFree, CreateHolds, MasterHolds
<1>6. ASSUME NEW v \in Workers \ {w} PROVE WorkerInv(v)'
  BY <1>1, <1>2, <1>6, ExcludeGranted, OthersKeepTables DEF Same, IInv, CountInv, TypeOK
<1> QED BY <1>1, <1>3, <1>5, <1>6, LocationKept DEF IInv, CountInv

\* What a worker holds at its commit: the balances it read are those that stand.
LEMMA CommitFacts ==
  ASSUME IInv, NEW w \in Workers, CloseAndPost(w)
  PROVE  LET c == call[w].camp IN
         /\ c \in Campaigns /\ CampaignRow(c) \in excl[w] /\ camp[c].status = "counting"
         /\ page[w] = camp[c].lines /\ camp[c].lines \subseteq Items
         /\ ~Incomplete(c, call[w].abandon)
         /\ loc = "active" /\ \A i \in camp[c].lines : Usable(i)
         /\ \A i \in camp[c].lines : BalanceRow(i) \in excl[w] /\ seen[w][i] = bal[i]
         /\ Adjusted(w) \subseteq camp[c].lines
         /\ \A i \in Adjusted(w) : camp[c].counted[i] \in Int
         /\ Closes(c) /\ \A d \in Campaigns \ {c} : camp'[d] = camp[d]
<1> DEFINE c == call[w].camp
<1>1. pc[w] = "balances" /\ pc[w] \in Closing /\ todo[w] = {} /\ WorkerInv(w)
      /\ camp' = [camp EXCEPT ![c].status = "closed"]
  BY DEF CloseAndPost, Closing, IInv
<1>2. c \in Campaigns /\ camp \in [Campaigns -> Campaign]
  BY <1>1, CloseTypes DEF IInv, CountInv, TypeOK
<1>3. /\ CampaignRow(c) \in excl[w] /\ camp[c].status = "counting"
      /\ page[w] = camp[c].lines /\ ~Incomplete(c, call[w].abandon)
  BY <1>1 DEF WorkerInv, CloseHolds
<1>4. /\ loc = "active" /\ \A i \in page[w] : Usable(i)
      /\ \A i \in page[w] : BalanceRow(i) \in excl[w] /\ seen[w][i] = bal[i]
  BY <1>1 DEF WorkerInv, ItemsHeld, BalancesHeld
<1>5. Adjusted(w) \subseteq camp[c].lines /\ camp[c].lines \subseteq Items
  BY <1>2 DEF Adjusted, Campaign
<1>6. \A i \in Adjusted(w) : camp[c].counted[i] \in Int
  BY <1>2, <1>5, QtyAssumption DEF Adjusted, Campaign, NotCounted
<1>7. Closes(c) /\ \A d \in Campaigns \ {c} : camp'[d] = camp[d]
  BY <1>1, <1>2, <1>3 DEF Closes, Campaign
<1> QED BY <1>2, <1>3, <1>4, <1>5, <1>6, <1>7

\* The posts of a close touch only balances the closing worker holds.
LEMMA CloseAndPostInv ==
  ASSUME IInv, NEW w \in Workers, CloseAndPost(w)
  PROVE  IInv'
<1> DEFINE c == call[w].camp
<1>1. /\ bal' = [i \in Items |-> IF i \in Adjusted(w) THEN camp[c].counted[i] ELSE bal[i]]
      /\ moved' = moved \cup Adjusted(w)
      /\ camp' = [camp EXCEPT ![c].status = "closed"]
      /\ UNCHANGED <<item, loc>> /\ End(w)
  BY DEF CloseAndPost
<1>2. /\ c \in Campaigns /\ CampaignRow(c) \in excl[w]
      /\ camp[c].lines \subseteq Items /\ Adjusted(w) \subseteq camp[c].lines
      /\ \A i \in camp[c].lines : BalanceRow(i) \in excl[w]
      /\ \A i \in Adjusted(w) : camp[c].counted[i] \in Int
      /\ \A d \in Campaigns \ {c} : camp'[d] = camp[d]
  BY CommitFacts
<1>3. TypeOK'
  <2>1. bal' \in [Items -> Int]
    BY <1>1, <1>2 DEF IInv, CountInv, TypeOK
  <2>2. moved' \subseteq Items
    BY <1>1, <1>2 DEF IInv, CountInv, TypeOK
  <2>3. camp' \in [Campaigns -> Campaign]
    <3>1. c \in Campaigns /\ camp \in [Campaigns -> Campaign]
      BY <1>2 DEF IInv, CountInv, TypeOK
    <3>2. camp' = [camp EXCEPT ![c].status = "closed"]
      BY <1>1
    <3> HIDE DEF c
    <3> QED BY <3>1, <3>2 DEF Campaign
  <2> QED BY <1>1, <2>1, <2>2, <2>3, EndLeaves DEF IInv, CountInv, TypeOK
<1>4. LocksCompatible' /\ WorkerInv(w)'
  BY <1>1, EndLeaves DEF IInv, CountInv
<1>5. Running' \subseteq Running
  BY <1>1, <1>2 DEF Running, IInv, CountInv, TypeOK, Campaign
<1>6. ASSUME NEW v \in Workers \ {w} PROVE WorkerInv(v)'
  <2>1. excl[v] \cap excl[w] = {}
    BY <1>6 DEF IInv, LocksCompatible
  <2>2. \A i \in Items : bal'[i] = bal[i] \/ BalanceRow(i) \notin excl[v]
    BY <1>1, <1>2, <2>1
  <2>3. \A d \in Campaigns : camp'[d] = camp[d] \/ CampaignRow(d) \notin excl[v]
    BY <1>2, <2>1
  <2>4. Same(v)
    BY <1>1, <1>6, EndLeaves DEF IInv, CountInv
  <2> QED BY <1>1, <1>5, <2>2, <2>3, <2>4, OthersKeep
<1>7. RunningKeepsLocation'
  BY <1>1, <1>5 DEF IInv, CountInv, RunningKeepsLocation
<1> QED BY <1>3, <1>4, <1>6, <1>7 DEF IInv, CountInv

\* A movement waits for whoever holds its item, its location or its balance.
LEMMA MovementInv ==
  ASSUME IInv, NEW i \in Items, NEW delta \in Deltas, Movement(i, delta)
  PROVE  IInv'
<1>1. /\ bal' = [bal EXCEPT ![i] = @ + delta] /\ moved' = moved \cup {i}
      /\ \A v \in Workers : BalanceRow(i) \notin excl[v]
      /\ UNCHANGED <<worker, item, loc, camp>>
  BY DEF Movement, CanExclude, CanShare
<1>2. TypeOK' /\ LocksCompatible'
  BY <1>1, QtyAssumption DEF IInv, CountInv, TypeOK, LocksCompatible, worker
<1>3. Running' = Running
  BY <1>1 DEF Running
<1>4. ASSUME NEW v \in Workers PROVE WorkerInv(v)'
  BY <1>1, <1>3, <1>4, OthersKeep DEF Same, worker, IInv, CountInv, TypeOK
<1> QED BY <1>1, <1>2, <1>3, <1>4 DEF IInv, CountInv, RunningKeepsLocation

\* A call on an item takes its lock.
LEMMA BeginItemInv ==
  ASSUME IInv, NEW w \in Workers, NEW i \in Items, NEW to \in ItemTargets,
         BeginItem(w, i, to)
  PROVE  IInv'
<1> DEFINE k == [op |-> "item", item |-> i, to |-> to]
<1>1. k \in Call /\ ItemRow(i) \in LockRows /\ "write" \in PCs
  BY CallsAreCalls, RowTypes DEF PCs
<1>2. Begin(w, k, ItemRow(i), "write") /\ UNCHANGED <<page, todo, seen, tables>>
  BY DEF BeginItem
<1>3. k.op = "item" /\ k.item = i
  OBVIOUS
<1> HIDE DEF k
<1>4. TypeOK' /\ LocksCompatible'
  BY <1>1, <1>2, BeginLeaves DEF IInv, CountInv, TypeOK, tables
<1>5. pc'[w] = "write" /\ call'[w] = k /\ excl'[w] = {ItemRow(i)}
  BY <1>1, <1>2, BeginLeaves
<1>6. WorkerInv(w)'
  BY <1>3, <1>5 DEF WorkerInv, IdleIsFree, CreateHolds, CloseHolds, ItemsHeld,
     BalancesHeld, MasterHolds, Closing
<1>7. ASSUME NEW v \in Workers \ {w} PROVE WorkerInv(v)'
  BY <1>1, <1>2, <1>7, BeginLeaves, OthersKeepTables DEF Same, IInv, CountInv, TypeOK
<1> QED BY <1>2, <1>4, <1>6, <1>7, LocationKept DEF IInv, CountInv

\* A call that takes the location out of use found no running campaign.
LEMMA BeginPlaceInv ==
  ASSUME IInv, NEW w \in Workers, NEW to \in PlaceTargets, BeginPlace(w, to)
  PROVE  IInv'
<1> DEFINE k == [op |-> "location", to |-> to]
<1>1. k \in Call /\ PlaceRow \in LockRows /\ "write" \in PCs
  BY CallsAreCalls, RowTypes DEF PCs
<1>2. Begin(w, k, PlaceRow, "write") /\ UNCHANGED <<page, todo, seen, tables>>
  BY DEF BeginPlace
<1>3. k.op = "location" /\ k.to = to
  OBVIOUS
<1> HIDE DEF k
<1>4. TypeOK' /\ LocksCompatible'
  BY <1>1, <1>2, BeginLeaves DEF IInv, CountInv, TypeOK, tables
<1>5. pc'[w] = "write" /\ call'[w] = k /\ excl'[w] = {PlaceRow}
  BY <1>1, <1>2, BeginLeaves
<1>6. to # "active" => Running' = {}
  <2>1. Running' = Running
    BY <1>2 DEF Running, tables
  <2>2. ASSUME to = "inactive" PROVE Running = {}
    BY <2>2 DEF BeginPlace, PlaceMayBecome, IInv, CountInv, RunningKeepsLocation
  <2>3. ASSUME to = "gone" PROVE Running = {}
    BY <2>3 DEF BeginPlace, PlaceMayBecome
  <2> QED BY <2>1, <2>2, <2>3, TargetAssumption DEF Statuses
<1>7. WorkerInv(w)'
  BY <1>3, <1>5, <1>6 DEF WorkerInv, IdleIsFree, CreateHolds, CloseHolds, ItemsHeld,
     BalancesHeld, MasterHolds, Closing
<1>8. ASSUME NEW v \in Workers \ {w} PROVE WorkerInv(v)'
  BY <1>1, <1>2, <1>8, BeginLeaves, OthersKeepTables DEF Same, IInv, CountInv, TypeOK
<1> QED BY <1>2, <1>4, <1>7, <1>8, LocationKept DEF IInv, CountInv

\* Nobody relies on an item that is written.
LEMMA WriteItemInv ==
  ASSUME IInv, NEW w \in Workers, WriteItem(w)
  PROVE  IInv'
<1> DEFINE i == call[w].item
           row == IF call[w].to \in Statuses THEN [item[i] EXCEPT !.status = call[w].to]
                                             ELSE [item[i] EXCEPT !.track = call[w].to]
<1>1. item' = [item EXCEPT ![i] = row] /\ UNCHANGED <<loc, bal, moved, camp>> /\ End(w)
  BY DEF WriteItem
<1>2. i \in Items /\ call[w].to \in ItemTargets
  BY CallTypes DEF WriteItem, IInv, CountInv, TypeOK
<1>3. row \in [status: Statuses, track: TrackModes]
  BY <1>2, TargetAssumption DEF IInv, CountInv, TypeOK
<1> HIDE DEF row
<1>4. TypeOK' /\ LocksCompatible' /\ WorkerInv(w)'
  BY <1>1, <1>2, <1>3, EndLeaves DEF IInv, CountInv, TypeOK
<1>5. Running' = Running
  BY <1>1 DEF Running
<1>6. ASSUME NEW v \in Workers \ {w} PROVE WorkerInv(v)'
  <2>1. ItemRow(i) \notin shared[v]
    BY <1>6 DEF IInv, LocksCompatible, WorkerInv, MasterHolds, WriteItem
  <2>2. \A j \in Items : item'[j] = item[j] \/ ItemRow(j) \notin shared[v]
    BY <1>1, <2>1 DEF IInv, CountInv, TypeOK
  <2>3. Same(v)
    BY <1>1, <1>6, EndLeaves DEF IInv, CountInv
  <2> QED BY <1>1, <1>5, <2>2, <2>3, OthersKeep
<1> QED BY <1>1, <1>4, <1>5, <1>6 DEF IInv, CountInv, RunningKeepsLocation

\* The location leaves use only while no campaign runs.
LEMMA WritePlaceInv ==
  ASSUME IInv, NEW w \in Workers, WritePlace(w)
  PROVE  IInv'
<1>1. loc' = call[w].to /\ UNCHANGED <<item, bal, moved, camp>> /\ End(w)
  BY DEF WritePlace
<1>2. call[w].to \in Statuses
  BY CallTypes, TargetAssumption DEF WritePlace, IInv, CountInv, TypeOK
<1>3. PlaceRow \in excl[w] /\ (call[w].to # "active" => Running = {})
  BY DEF WritePlace, IInv, WorkerInv, MasterHolds
<1>4. TypeOK' /\ LocksCompatible' /\ WorkerInv(w)'
  BY <1>1, <1>2, EndLeaves DEF IInv, CountInv, TypeOK
<1>5. Running' = Running
  BY <1>1 DEF Running
<1>6. RunningKeepsLocation'
  BY <1>1, <1>3, <1>5 DEF RunningKeepsLocation
<1>7. ASSUME NEW v \in Workers \ {w} PROVE WorkerInv(v)'
  <2>1. PlaceRow \notin shared[v] \cup excl[v]
    BY <1>3, <1>7 DEF IInv, LocksCompatible
  <2>2. Same(v)
    BY <1>1, <1>7, EndLeaves DEF IInv, CountInv
  <2> QED BY <1>1, <1>5, <2>1, <2>2, OthersKeep
<1> QED BY <1>4, <1>6, <1>7 DEF IInv, CountInv

\* Every step keeps the invariant.
LEMMA NextInv == IInv /\ [Next]_vars => IInv'
<1> SUFFICES ASSUME IInv, [Next]_vars PROVE IInv'
  OBVIOUS
<1>1. CASE UNCHANGED vars
  <2>1. UNCHANGED worker /\ UNCHANGED tables
    BY <1>1 DEF vars
  <2>2. TypeOK' /\ LocksCompatible'
    BY <2>1 DEF IInv, CountInv, TypeOK, LocksCompatible, worker, tables
  <2>3. ASSUME NEW v \in Workers PROVE WorkerInv(v)'
    BY <2>1, <2>3, OthersKeepTables DEF worker, Same
  <2> QED BY <2>1, <2>2, <2>3, LocationKept DEF IInv, CountInv
<1>2. ASSUME NEW w \in Workers, Create(w) PROVE IInv'
  BY <1>2, BeginCreateInv, ReadPageInv, ReadBalanceInv, SaveCampaignInv DEF Create
<1>3. ASSUME NEW w \in Workers, Close(w) PROVE IInv'
  BY <1>3, BeginCloseInv, LockLineItemInv, LockPlaceInv, LockLineBalanceInv,
     CloseAndPostInv DEF Close
<1>4. ASSUME NEW w \in Workers, Master(w) PROVE IInv'
  BY <1>4, BeginItemInv, BeginPlaceInv, WriteItemInv, WritePlaceInv DEF Master
<1> QED BY <1>1, <1>2, <1>3, <1>4, RollbackInv, StartCountingInv, SetCountInv, MovementInv
       DEF Next

--------------------------------------------------------------------------------
\* The theorems.

\* Every reachable state satisfies the inductive invariant.
THEOREM Inductive == Spec => []IInv
  BY InitInv, NextInv, PTL DEF Spec

\* Rows and local variables hold what they may, and the location of a running campaign
\* stays active (create() and the deactivation of a location lock it).
THEOREM CountInvariant == Spec => []CountInv
<1>1. IInv => CountInv
  BY DEF IInv
<1> QED BY <1>1, Inductive, PTL

\* Only the commit of close() closes a campaign, and it closes the one it works on.
LEMMA OnlyCloseCloses ==
  ASSUME IInv, [Next]_vars, NEW c \in Campaigns, Closes(c)
  PROVE  \E w \in Workers : CloseAndPost(w) /\ call[w].camp = c
<1>1. camp'[c] # camp[c] /\ camp[c].status = "counting" /\ camp'[c].status = "closed"
  BY DEF Closes
<1>2. ~(UNCHANGED tables)
  BY <1>1 DEF tables
<1>3. ASSUME NEW w \in Workers, Create(w) PROVE FALSE
  <2>1. SaveCampaign(w)
    BY <1>2, <1>3 DEF Create, BeginCreate, ReadPage, ReadBalance
  <2> DEFINE unused == {d \in Campaigns : camp[d].status = "none"}
             m == Min(unused)
  <2>2. m \in unused
    BY <2>1, LeastIsOne, CampaignIdAssumption DEF SaveCampaign
  <2>3. \E new : camp' = [camp EXCEPT ![m] = new]
    BY <2>1 DEF SaveCampaign
  <2> HIDE DEF m
  <2>4. c # m
    BY <1>1, <2>2
  <2> QED BY <1>1, <2>3, <2>4 DEF IInv, CountInv, TypeOK
<1>4. ASSUME NEW w \in Workers, Master(w) \/ Rollback(w) PROVE FALSE
  BY <1>1, <1>2, <1>4
     DEF Master, Rollback, BeginItem, BeginPlace, WriteItem, WritePlace
<1>5. ASSUME NEW d \in Campaigns, StartCounting(d) PROVE FALSE
  BY <1>1, <1>5 DEF StartCounting, IInv, CountInv, TypeOK, Campaign
<1>6. ASSUME NEW d \in Campaigns, NEW i \in Items, NEW q \in Counts, SetCount(d, i, q)
      PROVE  FALSE
  BY <1>1, <1>6 DEF SetCount, IInv, CountInv, TypeOK, Campaign
<1>7. ASSUME NEW i \in Items, NEW delta \in Deltas, Movement(i, delta) PROVE FALSE
  BY <1>1, <1>7 DEF Movement
<1>8. PICK w \in Workers : Close(w)
  BY <1>2, <1>3, <1>4, <1>5, <1>6, <1>7 DEF Next, vars, tables
<1>9. CloseAndPost(w)
  BY <1>2, <1>8 DEF Close, BeginClose, LockLineItem, LockPlace, LockLineBalance
<1>10. call[w].camp = c
  BY <1>1, <1>9, CommitFacts
<1> QED BY <1>9, <1>10

\* A close posts exactly the counts: nobody moves a balance between the moment close()
\* reads it and its commit, whatever else goes on at the location.
THEOREM PostsCounts == Spec => ClosePostsCounts
<1>1. ASSUME IInv, [Next]_vars, NEW c \in Campaigns, Closes(c), NEW i \in Items
      PROVE  bal'[i] = IF i \in camp[c].lines /\ camp[c].counted[i] # NotCounted
                         THEN camp[c].counted[i] ELSE bal[i]
  <2>1. PICK w \in Workers : CloseAndPost(w) /\ call[w].camp = c
    BY <1>1, OnlyCloseCloses
  <2>2. bal'[i] = IF i \in Adjusted(w) THEN camp[c].counted[i] ELSE bal[i]
    BY <1>1, <2>1 DEF CloseAndPost
  <2>3. i \in camp[c].lines => seen[w][i] = bal[i]
    BY <1>1, <2>1, CommitFacts
  <2> QED BY <2>1, <2>2, <2>3 DEF Adjusted
<1>2. IInv /\ [Next]_vars =>
        [\A c \in Campaigns : Closes(c) =>
           \A i \in Items :
             bal'[i] = IF i \in camp[c].lines /\ camp[c].counted[i] # NotCounted
                         THEN camp[c].counted[i] ELSE bal[i]]_vars
  BY <1>1
<1> QED BY <1>2, Inductive, PTL DEF ClosePostsCounts, Spec

\* The masters a close adjusts are usable as it commits: the locks it took while checking
\* them are still there.
THEOREM FindsMastersUsable == Spec => CloseFindsMastersUsable
<1>1. ASSUME IInv, [Next]_vars, NEW c \in Campaigns, Closes(c)
      PROVE  /\ loc = "active"
             /\ \A i \in camp[c].lines : item[i] = [status |-> "active", track |-> "none"]
  BY <1>1, OnlyCloseCloses, CommitFacts DEF Usable
<1>2. IInv /\ [Next]_vars =>
        [\A c \in Campaigns : Closes(c) =>
           /\ loc = "active"
           /\ \A i \in camp[c].lines : item[i] = [status |-> "active", track |-> "none"]]_vars
  BY <1>1
<1> QED BY <1>2, Inductive, PTL DEF CloseFindsMastersUsable, Spec

\* A close that nobody told to override conflicts or to abandon lines does neither, with
\* every movement and count that raced it.
THEOREM HasConsent == Spec => CloseHasConsent
<1>1. ASSUME IInv, [Next]_vars, NEW w \in Workers, NEW c \in Campaigns, ClosedBy(w, c)
      PROVE  /\ ~call[w].acknowledge => \A i \in camp[c].lines : bal[i] = camp[c].system[i]
             /\ ~call[w].abandon => \A i \in camp[c].lines : camp[c].counted[i] # NotCounted
  <2>1. PICK v \in Workers : CloseAndPost(v) /\ call[v].camp = c
    BY <1>1, OnlyCloseCloses DEF ClosedBy
  <2>2. v = w
    <3>1. CampaignRow(c) \in excl[v]
      BY <1>1, <2>1, CommitFacts
    <3>2. CampaignRow(c) \in excl[w]
      BY <1>1 DEF ClosedBy, IInv, WorkerInv, CloseHolds, Closing
    <3> QED BY <1>1, <3>1, <3>2 DEF IInv, LocksCompatible
  <2>3. /\ ~Incomplete(c, call[w].abandon) /\ page[w] = camp[c].lines
        /\ \A i \in camp[c].lines : seen[w][i] = bal[i]
    BY <1>1, <2>1, <2>2, CommitFacts
  <2>4. ~call[w].acknowledge => Conflicting(w) = {}
    BY <2>1, <2>2 DEF CloseAndPost
  <2> QED BY <2>1, <2>2, <2>3, <2>4 DEF Conflicting, Incomplete
<1>2. IInv /\ [Next]_vars =>
        [\A w \in Workers, c \in Campaigns : ClosedBy(w, c) =>
           /\ ~call[w].acknowledge => \A i \in camp[c].lines : bal[i] = camp[c].system[i]
           /\ ~call[w].abandon => \A i \in camp[c].lines : camp[c].counted[i] # NotCounted]_vars
  BY <1>1
<1> QED BY <1>2, Inductive, PTL DEF CloseHasConsent, Spec

\* Neither a late count nor a second close changes a closed campaign.
THEOREM StaysClosed == Spec => ClosedIsFinal
<1>1. ASSUME IInv, [Next]_vars, NEW c \in Campaigns, camp[c].status = "closed"
      PROVE  camp'[c] = camp[c]
  <2>1. camp \in [Campaigns -> Campaign]
    BY <1>1 DEF IInv, CountInv, TypeOK
  <2>2. ASSUME NEW w \in Workers, Create(w) PROVE camp'[c] = camp[c]
    <3>1. CASE SaveCampaign(w)
      <4> DEFINE unused == {d \in Campaigns : camp[d].status = "none"}
                 m == Min(unused)
      <4>1. m \in unused
        BY <3>1, LeastIsOne, CampaignIdAssumption DEF SaveCampaign
      <4>2. \E new : camp' = [camp EXCEPT ![m] = new]
        BY <3>1 DEF SaveCampaign
      <4> HIDE DEF m
      <4>3. c # m
        BY <1>1, <4>1
      <4> QED BY <2>1, <4>2, <4>3
    <3> QED BY <2>2, <3>1 DEF Create, BeginCreate, ReadPage, ReadBalance, tables
  <2>3. ASSUME NEW w \in Workers, Close(w) PROVE camp'[c] = camp[c]
    <3>1. CASE CloseAndPost(w)
      BY <1>1, <3>1, CommitFacts
    <3> QED BY <2>3, <3>1 DEF Close, BeginClose, LockLineItem, LockPlace, LockLineBalance,
                             tables
  <2>4. ASSUME NEW w \in Workers, Master(w) \/ Rollback(w) PROVE camp'[c] = camp[c]
    BY <2>4 DEF Master, Rollback, BeginItem, BeginPlace, WriteItem, WritePlace, tables
  <2>5. ASSUME NEW d \in Campaigns, StartCounting(d) PROVE camp'[c] = camp[c]
    BY <1>1, <2>1, <2>5 DEF StartCounting
  <2>6. ASSUME NEW d \in Campaigns, NEW i \in Items, NEW q \in Counts, SetCount(d, i, q)
        PROVE  camp'[c] = camp[c]
    BY <1>1, <2>1, <2>6 DEF SetCount
  <2>7. ASSUME NEW i \in Items, NEW delta \in Deltas, Movement(i, delta)
        PROVE  camp'[c] = camp[c]
    BY <2>7 DEF Movement
  <2> QED BY <1>1, <2>2, <2>3, <2>4, <2>5, <2>6, <2>7 DEF Next, vars, tables
<1>2. IInv /\ [Next]_vars =>
        [\A c \in Campaigns : camp[c].status = "closed" => camp'[c] = camp[c]]_vars
  BY <1>1
<1> QED BY <1>2, Inductive, PTL DEF ClosedIsFinal, Spec
================================================================================
