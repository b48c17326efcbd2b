------------------------------- MODULE CycleCount -------------------------------
(***************************************************************************)
(* CycleCountService: stocktake campaigns at one location, with the master *)
(* data calls and the stock movements that race them.                      *)
(*                                                                         *)
(* Workers run the transactions that take several locks or read before     *)
(* they write; each read, lock and commit is a step, and a worker may die  *)
(* or fail between any two of them.  Movements, starting a campaign and    *)
(* counting a line are one step each: StockLedger shows that a movement    *)
(* takes effect at its commit, and the other two hold the campaign's lock  *)
(* from their only read to their only write.                               *)
(*                                                                         *)
(* Campaigns never touch another location, so the model has one.  The      *)
(* catalog fits in one page of create(); the rows of a campaign's lines    *)
(* are only ever locked under the lock of their campaign.                  *)
(***************************************************************************)
EXTENDS Integers, FiniteSets, FiniteSetsExt

CONSTANTS
  Workers,       \* PHP workers
  Items,         \* item ids, locked in ascending order
  Campaigns,     \* campaign ids, given out in ascending order
  MaxLines,      \* MAX_CAMPAIGN_LINES
  Counts,        \* quantities clients submit for a line, as toStorage lets them through
  CountMax,      \* the most a count may be
  QtyMax,        \* QtyScale::maxStorage
  Deltas,        \* what movements add to a balance
  BalanceCap,    \* bound: no movement takes a balance above it
  ItemTargets,   \* what master data calls make of an item
  PlaceTargets   \* what master data calls make of the location

NotCounted == -QtyMax - 1   \* NULL: no quantity a client can send
Statuses == {"active", "inactive", "gone"}
TrackModes == {"none", "lot"}   \* serial is excluded from stocktakes like lot

ASSUME ItemIdAssumption == Items \subseteq Nat /\ IsFiniteSet(Items)
ASSUME CampaignIdAssumption == Campaigns \subseteq Nat /\ IsFiniteSet(Campaigns)
ASSUME QtyAssumption == /\ CountMax \in Nat /\ QtyMax \in Nat /\ MaxLines \in Nat
                        /\ Counts \subseteq -QtyMax..QtyMax /\ Deltas \subseteq Int
                        /\ BalanceCap \in Nat
ASSUME TargetAssumption == /\ ItemTargets \subseteq Statuses \cup TrackModes
                           /\ PlaceTargets \subseteq Statuses

Call == [op: {"create"}]
          \cup [op: {"close"}, camp: Campaigns, abandon: BOOLEAN, acknowledge: BOOLEAN]
          \cup [op: {"item"}, item: Items, to: ItemTargets]
          \cup [op: {"location"}, to: PlaceTargets]

VARIABLES
  pc,       \* where each worker is
  call,     \* what it works on
  page,     \* the items a create or a close deals with
  todo,     \* those it has still to read or lock
  seen,     \* the balances it read
  shared,   \* the rows it holds LOCK IN SHARE MODE
  excl,     \* the rows it holds FOR UPDATE
  item,     \* iv_items: status and track mode
  loc,      \* iv_locations: the status of the location
  bal,      \* iv_balances at the location
  moved,    \* items some movement row refers to
  camp      \* iv_cc_camp with its iv_cc_line rows

worker == <<pc, call, page, todo, seen, shared, excl>>
tables == <<item, loc, bal, moved, camp>>
vars == <<worker, tables>>

ItemRow(i) == <<"item", i>>
PlaceRow == <<"location", 0>>
BalanceRow(i) == <<"balance", i>>
CampaignRow(c) == <<"campaign", c>>
LockRows == {ItemRow(i) : i \in Items} \cup {BalanceRow(i) : i \in Items}
              \cup {CampaignRow(c) : c \in Campaigns} \cup {PlaceRow}

PCs == {"idle", "page", "lines", "items", "balances", "write"}
Campaign == [status: {"none", "open", "counting", "closed"}, lines: SUBSET Items,
             system: [Items -> Int], counted: [Items -> {NotCounted} \cup 0..CountMax]]

\* Every row and every local variable holds what its column or type allows; a count
\* outside the range setCount checks is never stored.
TypeOK ==
  /\ pc \in [Workers -> PCs]
  /\ call \in [Workers -> Call]
  /\ page \in [Workers -> SUBSET Items]
  /\ todo \in [Workers -> SUBSET Items]
  /\ seen \in [Workers -> [Items -> Int]]
  /\ shared \in [Workers -> SUBSET LockRows]
  /\ excl \in [Workers -> SUBSET LockRows]
  /\ item \in [Items -> [status: Statuses, track: TrackModes]]
  /\ loc \in Statuses
  /\ bal \in [Items -> Int]
  /\ moved \subseteq Items
  /\ camp \in [Campaigns -> Campaign]

NoCall == [op |-> "create"]
NoBalances == [i \in Items |-> 0]
NoCampaign == [status |-> "none", lines |-> {}, system |-> NoBalances,
               counted |-> [i \in Items |-> NotCounted]]

Init ==
  /\ pc = [w \in Workers |-> "idle"]
  /\ call = [w \in Workers |-> NoCall]
  /\ page = [w \in Workers |-> {}]
  /\ todo = [w \in Workers |-> {}]
  /\ seen = [w \in Workers |-> NoBalances]
  /\ shared = [w \in Workers |-> {}]
  /\ excl = [w \in Workers |-> {}]
  /\ item = [i \in Items |-> [status |-> "active", track |-> "none"]]
  /\ loc = "active"
  /\ bal = NoBalances
  /\ moved = {}
  /\ camp = [c \in Campaigns |-> NoCampaign]

--------------------------------------------------------------------------------
\* Row locks.  No transaction here locks a row twice.
CanShare(x) == \A v \in Workers : x \notin excl[v]
CanExclude(x) == CanShare(x) /\ \A v \in Workers : x \notin shared[v]

Share(w, x) == /\ CanShare(x)
               /\ shared' = [shared EXCEPT ![w] = @ \cup {x}]
               /\ UNCHANGED excl
Exclude(w, x) == /\ CanExclude(x)
                 /\ excl' = [excl EXCEPT ![w] = @ \cup {x}]
                 /\ UNCHANGED shared

Goto(w, label) == pc' = [pc EXCEPT ![w] = label]

\* Commit and rollback release every lock and end the request.
End(w) ==
  /\ pc' = [pc EXCEPT ![w] = "idle"]
  /\ call' = [call EXCEPT ![w] = NoCall]
  /\ page' = [page EXCEPT ![w] = {}]
  /\ todo' = [todo EXCEPT ![w] = {}]
  /\ seen' = [seen EXCEPT ![w] = NoBalances]
  /\ shared' = [shared EXCEPT ![w] = {}]
  /\ excl' = [excl EXCEPT ![w] = {}]

\* A refusal, a failing statement or the death of the worker.
Rollback(w) == pc[w] # "idle" /\ End(w) /\ UNCHANGED tables

\* A new request whose first locking read is of row x.
Begin(w, c, x, label) ==
  /\ pc[w] = "idle"
  /\ Exclude(w, x)
  /\ Goto(w, label)
  /\ call' = [call EXCEPT ![w] = c]

--------------------------------------------------------------------------------
\* create: the location is locked, the catalog and the balances are only read.
\* Broken variant: the location is not locked.
BeginCreateUnlocked(w) ==
  /\ pc[w] = "idle"
  /\ loc = "active"
  /\ Goto(w, "page")
  /\ UNCHANGED <<call, page, todo, seen, shared, excl, tables>>

BeginCreate(w) ==
  /\ loc = "active"
  /\ Begin(w, NoCall, PlaceRow, "page")
  /\ UNCHANGED <<page, todo, seen, tables>>

Eligible == {i \in Items : item[i].status = "active" /\ item[i].track = "none"}

ReadPage(w) ==
  /\ pc[w] = "page"
  /\ Cardinality(Eligible) <= MaxLines
  /\ page' = [page EXCEPT ![w] = Eligible]
  /\ todo' = [todo EXCEPT ![w] = Eligible]
  /\ Goto(w, "lines")
  /\ UNCHANGED <<call, seen, shared, excl, tables>>

ReadBalance(w) ==
  LET i == Min(todo[w]) IN
  /\ pc[w] = "lines"
  /\ todo[w] # {}
  /\ seen' = [seen EXCEPT ![w][i] = bal[i]]
  /\ todo' = [todo EXCEPT ![w] = @ \ {i}]
  /\ UNCHANGED <<pc, call, page, shared, excl, tables>>

SaveCampaign(w) ==
  LET unused == {c \in Campaigns : camp[c].status = "none"} IN
  /\ pc[w] = "lines"
  /\ todo[w] = {}
  /\ unused # {}
  /\ camp' = [camp EXCEPT ![Min(unused)] =
                [NoCampaign EXCEPT !.status = "open", !.lines = page[w], !.system = seen[w]]]
  /\ UNCHANGED <<item, loc, bal, moved>>
  /\ End(w)

\* The handlers that only need the campaign's lock.
StartCounting(c) ==
  /\ CanExclude(CampaignRow(c))
  /\ camp[c].status = "open"
  /\ camp' = [camp EXCEPT ![c].status = "counting"]
  /\ UNCHANGED <<worker, item, loc, bal, moved>>

\* Broken variant: a count is accepted whatever the campaign's status.
SetCountAnyStatus(c, i, q) ==
  /\ CanExclude(CampaignRow(c))
  /\ i \in camp[c].lines
  /\ q \in 0..CountMax
  /\ camp' = [camp EXCEPT ![c].counted[i] = q]
  /\ UNCHANGED <<worker, item, loc, bal, moved>>

\* Broken variant: the range of a count is not checked.
SetCountAnyQty(c, i, q) ==
  /\ CanExclude(CampaignRow(c))
  /\ camp[c].status = "counting"
  /\ i \in camp[c].lines
  /\ camp' = [camp EXCEPT ![c].counted[i] = q]
  /\ UNCHANGED <<worker, item, loc, bal, moved>>

\* A line is posted only as its campaign closes, so the check of posted_mov_id adds
\* nothing to the one of the status.
SetCount(c, i, q) ==
  /\ CanExclude(CampaignRow(c))
  /\ camp[c].status = "counting"
  /\ i \in camp[c].lines
  /\ q \in 0..CountMax
  /\ camp' = [camp EXCEPT ![c].counted[i] = q]
  /\ UNCHANGED <<worker, item, loc, bal, moved>>

--------------------------------------------------------------------------------
\* close: campaign, items ascending, location, balances ascending, then the posts.
\* Broken variant: one counted line is enough.
IncompleteIfNothingCounted(c, abandon) ==
  ~abandon /\ \A i \in camp[c].lines : camp[c].counted[i] = NotCounted
Incomplete(c, abandon) == ~abandon /\ \E i \in camp[c].lines : camp[c].counted[i] = NotCounted

BeginClose(w, c, abandon, acknowledge) ==
  /\ camp[c].status = "counting"
  /\ ~Incomplete(c, abandon)
  /\ Begin(w, [op |-> "close", camp |-> c, abandon |-> abandon, acknowledge |-> acknowledge],
           CampaignRow(c), "items")
  /\ page' = [page EXCEPT ![w] = camp[c].lines]
  /\ todo' = [todo EXCEPT ![w] = camp[c].lines]
  /\ UNCHANGED <<seen, tables>>

\* Broken variant: the item is read without a lock.
LockLineItemUnlocked(w) ==
  LET i == Min(todo[w]) IN
  /\ pc[w] = "items"
  /\ todo[w] # {}
  /\ item[i] = [status |-> "active", track |-> "none"]
  /\ todo' = [todo EXCEPT ![w] = @ \ {i}]
  /\ UNCHANGED <<pc, call, page, seen, shared, excl, tables>>

LockLineItem(w) ==
  LET i == Min(todo[w]) IN
  /\ pc[w] = "items"
  /\ todo[w] # {}
  /\ item[i] = [status |-> "active", track |-> "none"]
  /\ Share(w, ItemRow(i))
  /\ todo' = [todo EXCEPT ![w] = @ \ {i}]
  /\ UNCHANGED <<pc, call, page, seen, tables>>

LockPlace(w) ==
  /\ pc[w] = "items"
  /\ todo[w] = {}
  /\ loc = "active"
  /\ Share(w, PlaceRow)
  /\ todo' = [todo EXCEPT ![w] = page[w]]
  /\ Goto(w, "balances")
  /\ UNCHANGED <<call, page, seen, tables>>

\* Broken variant: the balance is read without FOR UPDATE.
LockLineBalanceUnlocked(w) ==
  LET i == Min(todo[w]) IN
  /\ pc[w] = "balances"
  /\ todo[w] # {}
  /\ seen' = [seen EXCEPT ![w][i] = bal[i]]
  /\ todo' = [todo EXCEPT ![w] = @ \ {i}]
  /\ UNCHANGED <<pc, call, page, shared, excl, tables>>

LockLineBalance(w) ==
  LET i == Min(todo[w]) IN
  /\ pc[w] = "balances"
  /\ todo[w] # {}
  /\ Exclude(w, BalanceRow(i))
  /\ seen' = [seen EXCEPT ![w][i] = bal[i]]
  /\ todo' = [todo EXCEPT ![w] = @ \ {i}]
  /\ UNCHANGED <<pc, call, page, tables>>

\* The lines whose count differs from the balance get an adjust(set) each.
Adjusted(w) ==
  LET c == camp[call[w].camp]
  IN {i \in c.lines : c.counted[i] # NotCounted /\ c.counted[i] # seen[w][i]}

Conflicting(w) == {i \in page[w] : camp[call[w].camp].system[i] # seen[w][i]}

CloseAndPost(w) ==
  LET c == call[w].camp IN
  /\ pc[w] = "balances"
  /\ todo[w] = {}
  /\ Conflicting(w) # {} => call[w].acknowledge
  /\ \A i \in Adjusted(w) : camp[c].counted[i] <= QtyMax
  /\ bal' = [i \in Items |-> IF i \in Adjusted(w) THEN camp[c].counted[i] ELSE bal[i]]
  /\ moved' = moved \cup Adjusted(w)
  /\ camp' = [camp EXCEPT ![c].status = "closed"]
  /\ UNCHANGED <<item, loc>>
  /\ End(w)

--------------------------------------------------------------------------------
\* Movements and master data.
Movement(i, delta) ==
  /\ CanShare(ItemRow(i))
  /\ CanShare(PlaceRow)
  /\ CanExclude(BalanceRow(i))
  /\ item[i].status = "active" /\ loc = "active"
  /\ bal[i] + delta \in 0..BalanceCap
  /\ bal' = [bal EXCEPT ![i] = @ + delta]
  /\ moved' = moved \cup {i}
  /\ UNCHANGED <<worker, item, loc, camp>>

Running == {c \in Campaigns : camp[c].status \in {"open", "counting"}}

ItemMayBecome(i, to) ==
  CASE to = "inactive" -> item[i].status = "active" =>
                            bal[i] = 0 /\ \A c \in Running : i \notin camp[c].lines
    [] to = "gone"     -> i \notin moved /\ \A c \in Running : i \notin camp[c].lines
    [] to = "lot"      -> item[i].track = "none" => bal[i] = 0
    [] OTHER           -> TRUE

BeginItem(w, i, to) ==
  /\ item[i].status # "gone"
  /\ ItemMayBecome(i, to)
  /\ Begin(w, [op |-> "item", item |-> i, to |-> to], ItemRow(i), "write")
  /\ UNCHANGED <<page, todo, seen, tables>>

PlaceMayBecome(to) ==
  CASE to = "inactive" -> loc = "active" => Running = {} /\ \A i \in Items : bal[i] = 0
    [] to = "gone"     -> Running = {} /\ moved = {}
    [] OTHER           -> TRUE

BeginPlace(w, to) ==
  /\ loc # "gone"
  /\ PlaceMayBecome(to)
  /\ Begin(w, [op |-> "location", to |-> to], PlaceRow, "write")
  /\ UNCHANGED <<page, todo, seen, tables>>

WriteItem(w) ==
  /\ pc[w] = "write"
  /\ call[w].op = "item"
  /\ item' = [item EXCEPT ![call[w].item] =
                IF call[w].to \in Statuses THEN [@ EXCEPT !.status = call[w].to]
                                           ELSE [@ EXCEPT !.track = call[w].to]]
  /\ UNCHANGED <<loc, bal, moved, camp>>
  /\ End(w)

WritePlace(w) ==
  /\ pc[w] = "write"
  /\ call[w].op = "location"
  /\ loc' = call[w].to
  /\ UNCHANGED <<item, bal, moved, camp>>
  /\ End(w)

--------------------------------------------------------------------------------
Create(w) == BeginCreate(w) \/ ReadPage(w) \/ ReadBalance(w) \/ SaveCampaign(w)

Close(w) ==
  \/ \E c \in Campaigns, abandon, acknowledge \in BOOLEAN :
       BeginClose(w, c, abandon, acknowledge)
  \/ LockLineItem(w) \/ LockPlace(w) \/ LockLineBalance(w) \/ CloseAndPost(w)

Master(w) ==
  \/ \E i \in Items, to \in ItemTargets : BeginItem(w, i, to)
  \/ \E to \in PlaceTargets : BeginPlace(w, to)
  \/ WriteItem(w) \/ WritePlace(w)

Next ==
  \/ \E w \in Workers : Create(w) \/ Close(w) \/ Master(w) \/ Rollback(w)
  \/ \E c \in Campaigns : StartCounting(c)
  \/ \E c \in Campaigns, i \in Items, q \in Counts : SetCount(c, i, q)
  \/ \E i \in Items, delta \in Deltas : Movement(i, delta)

Spec == Init /\ [][Next]_vars

--------------------------------------------------------------------------------
\* Properties.
Closes(c) == camp[c].status = "counting" /\ camp'[c].status = "closed"
ClosedBy(w, c) == Closes(c) /\ pc[w] = "balances" /\ call[w].camp = c

\* After a close the balance of every counted line is its count, and no other
\* balance moved: all the lines are posted or none is.
ClosePostsCounts ==
  [][\A c \in Campaigns : Closes(c) =>
       \A i \in Items :
         bal'[i] = IF i \in camp[c].lines /\ camp[c].counted[i] # NotCounted
                     THEN camp[c].counted[i] ELSE bal[i]]_vars

\* A close adjusts only items that are active and not lot-tracked, at an active
\* location, as they are when it commits (B1/C2, close()).
CloseFindsMastersUsable ==
  [][\A c \in Campaigns : Closes(c) =>
       /\ loc = "active"
       /\ \A i \in camp[c].lines : item[i] = [status |-> "active", track |-> "none"]]_vars

\* A close loses nothing it was not told to lose: nobody acknowledged conflicts, so every
\* balance is as the snapshot left it and no receive or issue booked during the count is
\* wiped (UC-C2); nobody abandoned lines, so every line was counted (isIncomplete, close()).
CloseHasConsent ==
  [][\A w \in Workers, c \in Campaigns : ClosedBy(w, c) =>
       /\ ~call[w].acknowledge => \A i \in camp[c].lines : bal[i] = camp[c].system[i]
       /\ ~call[w].abandon => \A i \in camp[c].lines : camp[c].counted[i] # NotCounted]_vars

\* A closed campaign is a record: neither a late count nor a second close changes it
\* (setCount and close take the campaign's lock and re-read its status).
ClosedIsFinal ==
  [][\A c \in Campaigns : camp[c].status = "closed" => camp'[c] = camp[c]]_vars

\* The location of a running campaign stays active (B1: create() locks it FOR UPDATE,
\* deactivation counts running campaigns under the same lock).
RunningKeepsLocation == Running # {} => loc = "active"

\* What every reachable state is like.
CountInv == TypeOK /\ RunningKeepsLocation

\* The items a running campaign lists stay active (B1).
RunningKeepsItems ==
  \A c \in Running : \A i \in camp[c].lines : item[i].status = "active"
================================================================================
