------------------------------- MODULE OrderSheets -------------------------------
(***************************************************************************)
(* OrderSheetService: order sheets, their lines, and the receives that     *)
(* cover them inside the movement transaction.                             *)
(*                                                                         *)
(* No handler locks a sheet before it reads its status, so each read of a  *)
(* clerk is a step and its writes are one step at its commit: what it read *)
(* may be out of date by then.  A receive is one transaction: what it      *)
(* updates stays locked, and invisible to the others, until it commits.    *)
(* The receives of the model book at different locations and of items      *)
(* without an on-order marker, so that the locks of MovementService do not *)
(* serialise them; StockLedger has that side.                              *)
(*                                                                         *)
(* A unit of an item is estimated at one unit of money.                    *)
(***************************************************************************)
EXTENDS Integers, FiniteSets, FiniteSetsExt, Functions

CONSTANTS
  Clerks,      \* workers that serve the office
  Receivers,   \* workers that book receives
  Sheets,      \* sheet ids, given out in ascending order
  Items,       \* item ids
  MaxLines,    \* bound: lines ever inserted
  MaxQty,      \* QtyScale::maxStorage
  Ordered,     \* quantities clients order
  Received,    \* quantities clients receive
  OpenLimit,   \* the rows a receive looks at: the limit of openSheetIdsForItem
  Approval,    \* what a clerk who is not an app admin may send: approval threshold
  Budget       \* and what the month's budget has left

ASSUME IdAssumption == /\ Sheets \subseteq Nat /\ Sheets # {}
                       /\ Items \subseteq Nat /\ Items # {} /\ IsFiniteSet(Items)
ASSUME QtyAssumption ==
  /\ MaxLines \in Nat /\ MaxQty \in Nat /\ Approval \in Nat /\ Budget \in Nat
  /\ Ordered \subseteq Int /\ Received \subseteq Int /\ OpenLimit \in Nat

Lines == 1..MaxLines
Quantity == 0..MaxQty

\* What a client asks for: at most one quantity per item, an empty order included.
Orders == UNION {[wanted -> Ordered] : wanted \in SUBSET Items}

VARIABLES
  sheet,   \* iv_order_sheets: status, total, and who sent it
  line,    \* iv_order_sheet_lines by id
  lines,   \* the ids of the rows that are there
  nextId,  \* the next id of a line
  clerk,   \* each clerk's request
  recv,    \* each receiver's transaction
  due,     \* history: what committed receives owe each line, up to its quantity
  raced    \* history: sheets a clerk wrote after another had, since it read them

vars == <<sheet, line, lines, nextId, clerk, recv, due, raced>>

Sheet == [status: {"none", "draft", "sent", "received", "cancelled"}, total: Nat,
          by: {"nobody", "office", "admin"}]
Line == [sheet: Sheets, item: Items, qty: Quantity, received: Quantity]
Desk == [pc: {"idle", "budget", "mark", "snap", "replace", "cancel"}, sheet: Sheets,
         admin: BOOLEAN, doomed: SUBSET Lines, current: BOOLEAN]
Transaction == [pc: {"idle", "next", "cover", "close"}, item: Items, qty: Quantity,
                rows: SUBSET Lines, visited: SUBSET Lines, at: Sheets,
                open: SUBSET Lines, gap: [Lines -> Quantity], left: Int,
                locked: SUBSET Lines, mine: [Lines -> Quantity], closing: SUBSET Sheets]

\* Rows and variables hold what their columns allow, and no line is covered beyond its
\* quantity (the CASE of decrementLine).
TypeOK ==
  /\ sheet \in [Sheets -> Sheet]
  /\ line \in [Lines -> Line]
  /\ lines \subseteq Lines
  /\ nextId \in 1..MaxLines + 1
  /\ clerk \in [Clerks -> Desk]
  /\ recv \in [Receivers -> Transaction]
  /\ due \in [Lines -> Quantity]
  /\ raced \subseteq Sheets
  /\ \A l \in lines : line[l].received <= line[l].qty

NoSheet == [status |-> "none", total |-> 0, by |-> "nobody"]
NoLine == [sheet |-> Min(Sheets), item |-> Min(Items), qty |-> 0, received |-> 0]
AtRest == [pc |-> "idle", sheet |-> Min(Sheets), admin |-> FALSE, doomed |-> {},
           current |-> FALSE]
NoReceive == [pc |-> "idle", item |-> Min(Items), qty |-> 0, rows |-> {}, visited |-> {},
              at |-> Min(Sheets), open |-> {}, gap |-> [l \in Lines |-> 0], left |-> 0,
              locked |-> {}, mine |-> [l \in Lines |-> 0], closing |-> {}]

Init ==
  /\ sheet = [s \in Sheets |-> NoSheet]
  /\ line = [l \in Lines |-> NoLine]
  /\ lines = {}
  /\ nextId = 1
  /\ clerk = [c \in Clerks |-> AtRest]
  /\ recv = [r \in Receivers |-> NoReceive]
  /\ due = [l \in Lines |-> 0]
  /\ raced = {}

--------------------------------------------------------------------------------
\* Rows another transaction has updated and not yet committed make a writer wait.
LineFree(l, others) == \A r \in others : l \notin recv[r].locked
SheetFree(s, others) == \A r \in others : s \notin recv[r].closing

LinesOf(s) == {l \in lines : line[l].sheet = s}
TotalOf(order) == MapThenSumSet(LAMBDA i : order[i], DOMAIN order)
EstimateOf(s) == MapThenSumSet(LAMBDA l : line[l].qty, LinesOf(s))

\* insertDraftLines: refused when empty or when a quantity is out of range.
OrderAccepted(order) == DOMAIN order # {} /\ \A i \in DOMAIN order : order[i] \in 1..MaxQty

\* The ids the lines of an order are given: ascending in the order's items.
IdOf(order, i) == nextId + Cardinality({j \in DOMAIN order : j < i})
Inserted(order) == {IdOf(order, i) : i \in DOMAIN order}

\* The rows an order adds to sheet s; the rows in gone are deleted.
InsertLines(s, order, gone) ==
  /\ nextId + Cardinality(DOMAIN order) <= MaxLines + 1
  /\ nextId' = nextId + Cardinality(DOMAIN order)
  /\ lines' = (lines \ gone) \cup Inserted(order)
  /\ line' = [l \in Lines |->
                IF l \in Inserted(order)
                  THEN LET i == CHOOSE j \in DOMAIN order : IdOf(order, j) = l
                       IN [sheet |-> s, item |-> i, qty |-> order[i], received |-> 0]
                  ELSE line[l]]

\* A clerk's answer is under way: it works on what it has read of sheet s.
Working(pc, s, admin) ==
  [AtRest EXCEPT !.pc = pc, !.sheet = s, !.admin = admin, !.current = TRUE]

\* Clerk c has written sheet s: what others have read of it is out of date, and if what c
\* had read was, the sheet is one that was raced for.
Write(c, s) ==
  /\ clerk' = [d \in Clerks |->
                 IF d = c THEN AtRest
                 ELSE IF clerk[d].sheet = s THEN [clerk[d] EXCEPT !.current = FALSE]
                 ELSE clerk[d]]
  /\ raced' = IF clerk[c].current THEN raced ELSE raced \cup {s}

Create(c, order) ==
  LET unused == {s \in Sheets : sheet[s].status = "none"} IN
  /\ clerk[c].pc = "idle"
  /\ unused # {}
  /\ OrderAccepted(order)
  /\ InsertLines(Min(unused), order, {})
  /\ sheet' = [sheet EXCEPT ![Min(unused)] =
                 [status |-> "draft", total |-> TotalOf(order), by |-> "nobody"]]
  /\ UNCHANGED <<clerk, recv, due, raced>>

--------------------------------------------------------------------------------
\* send reads the sheet, then the lines the budget is checked against, then writes.
ReadForSend(c, s, admin) ==
  /\ clerk[c].pc = "idle"
  /\ sheet[s].status = "draft"
  /\ sheet[s].total > Approval => admin
  /\ clerk' = [clerk EXCEPT ![c] = Working("budget", s, admin)]
  /\ UNCHANGED <<sheet, line, lines, nextId, recv, due, raced>>

CheckBudget(c) ==
  /\ clerk[c].pc = "budget"
  /\ EstimateOf(clerk[c].sheet) > Budget => clerk[c].admin
  /\ clerk' = [clerk EXCEPT ![c].pc = "mark"]
  /\ UNCHANGED <<sheet, line, lines, nextId, recv, due, raced>>

MarkSent(c) ==
  LET s == clerk[c].sheet IN
  /\ clerk[c].pc = "mark"
  /\ SheetFree(s, Receivers)
  /\ sheet' = [sheet EXCEPT ![s].status = "sent",
                            ![s].by = IF clerk[c].admin THEN "admin" ELSE "office"]
  /\ Write(c, s)
  /\ UNCHANGED <<line, lines, nextId, recv, due>>

\* replaceLines reads the sheet, deletes the lines its DELETE finds, inserts the new ones.
\* Broken variant: the status is not looked at.
ReadForReplaceAny(c, s) ==
  /\ clerk[c].pc = "idle"
  /\ sheet[s].status # "none"
  /\ clerk' = [clerk EXCEPT ![c] = Working("snap", s, FALSE)]
  /\ UNCHANGED <<sheet, line, lines, nextId, recv, due, raced>>

ReadForReplace(c, s) ==
  /\ clerk[c].pc = "idle"
  /\ sheet[s].status = "draft"
  /\ clerk' = [clerk EXCEPT ![c] = Working("snap", s, FALSE)]
  /\ UNCHANGED <<sheet, line, lines, nextId, recv, due, raced>>

SnapLines(c) ==
  /\ clerk[c].pc = "snap"
  /\ clerk' = [clerk EXCEPT ![c].pc = "replace", ![c].doomed = LinesOf(clerk[c].sheet)]
  /\ UNCHANGED <<sheet, line, lines, nextId, recv, due, raced>>

\* Broken variant: the sheet keeps the total of the lines it had.
ReplaceLinesOldTotal(c, order) ==
  LET s == clerk[c].sheet
  IN /\ clerk[c].pc = "replace"
     /\ OrderAccepted(order)
     /\ SheetFree(s, Receivers)
     /\ \A l \in clerk[c].doomed : LineFree(l, Receivers)
     /\ InsertLines(s, order, clerk[c].doomed)
     /\ Write(c, s)
     /\ UNCHANGED <<sheet, recv, due>>

\* The entity's update writes the one column that changed, the total.
ReplaceLines(c, order) ==
  LET s == clerk[c].sheet
  IN /\ clerk[c].pc = "replace"
     /\ OrderAccepted(order)
     /\ SheetFree(s, Receivers)
     /\ \A l \in clerk[c].doomed : LineFree(l, Receivers)
     /\ InsertLines(s, order, clerk[c].doomed)
     /\ sheet' = [sheet EXCEPT ![s].total = TotalOf(order)]
     /\ Write(c, s)
     /\ UNCHANGED <<recv, due>>

\* cancel: a read and an update of their own, without a transaction.
ReadForCancel(c, s) ==
  /\ clerk[c].pc = "idle"
  /\ sheet[s].status \in {"draft", "sent"}
  /\ clerk' = [clerk EXCEPT ![c] = Working("cancel", s, FALSE)]
  /\ UNCHANGED <<sheet, line, lines, nextId, recv, due, raced>>

MarkCancelled(c) ==
  /\ clerk[c].pc = "cancel"
  /\ SheetFree(clerk[c].sheet, Receivers)
  /\ sheet' = [sheet EXCEPT ![clerk[c].sheet].status = "cancelled"]
  /\ Write(c, clerk[c].sheet)
  /\ UNCHANGED <<line, lines, nextId, recv, due>>

\* A refusal or the death of the worker: nothing is written before the last step.
GiveUp(c) ==
  /\ clerk[c].pc # "idle"
  /\ clerk' = [clerk EXCEPT ![c] = AtRest]
  /\ UNCHANGED <<sheet, line, lines, nextId, recv, due, raced>>

--------------------------------------------------------------------------------
\* applyReceive.  A transaction reads what is committed and what it wrote itself.
Others(r) == Receivers \ {r}
Seen(r, l) == IF l \in recv[r].locked THEN recv[r].mine[l] ELSE line[l].received

\* openSheetIdsForItem: one row per line of the item on a sent sheet, in no order, and no
\* more than OpenLimit of them: a receive looks at no line beyond.
OpenRows(i) == {l \in lines : line[l].item = i /\ sheet[line[l].sheet].status = "sent"}
Fetched(i) == kSubset(Min({OpenLimit, Cardinality(OpenRows(i))}), OpenRows(i))

BeginReceive(r, i, q, rows) ==
  /\ recv[r].pc = "idle"
  /\ q \in 1..MaxQty
  /\ rows \in Fetched(i)
  /\ recv' = [recv EXCEPT ![r] = [NoReceive EXCEPT !.pc = "next", !.item = i, !.qty = q,
                                                   !.rows = rows, !.visited = rows]]
  /\ UNCHANGED <<sheet, line, lines, nextId, clerk, due, raced>>

\* openLinesForItem: every sheet starts with the whole quantity of the receive.
VisitSheet(r, l) ==
  LET s == line[l].sheet
      open == {k \in LinesOf(s) : line[k].item = recv[r].item /\ Seen(r, k) < line[k].qty}
  IN /\ recv[r].pc = "next"
     /\ l \in recv[r].rows
     /\ recv' = [recv EXCEPT ![r] =
                   [recv[r] EXCEPT !.pc = "cover", !.rows = @ \ {l}, !.at = s, !.open = open,
                                   !.gap = [k \in Lines |-> IF k \in open
                                                              THEN line[k].qty - Seen(r, k) ELSE 0],
                                   !.left = recv[r].qty]]
     /\ UNCHANGED <<sheet, line, lines, nextId, clerk, due, raced>>

\* Broken variant: the new value is computed from the line as it was read.
CoveredFromRead(r, l, cover) == line[l].qty - recv[r].gap[l] + cover
\* Broken variant: the line is not capped at its quantity.
CoveredUncapped(r, l, cover) == Seen(r, l) + cover
\* decrementLine adds to the line as it is now, and caps it.
Covered(r, l, cover) == Min({line[l].qty, Seen(r, l) + cover})

CoverLine(r) ==
  LET l == Min(recv[r].open)
      cover == Min({recv[r].left, recv[r].gap[l]})
      rest == [recv[r] EXCEPT !.open = @ \ {l}, !.left = @ - cover]
  IN /\ recv[r].pc = "cover"
     /\ recv[r].open # {} /\ recv[r].left > 0
     /\ LineFree(l, Others(r))
     /\ recv' = [recv EXCEPT ![r] =
                   IF l \in lines /\ Seen(r, l) < line[l].qty
                     THEN [rest EXCEPT !.locked = @ \cup {l},
                                       !.mine[l] = Covered(r, l, cover)]
                     ELSE rest]
     /\ UNCHANGED <<sheet, line, lines, nextId, clerk, due, raced>>

\* Broken variant: only the lines of the received item are looked at.
AllOfItemReceived(r, s) ==
  \A l \in LinesOf(s) : line[l].item = recv[r].item => Seen(r, l) = line[l].qty
AllLinesReceived(r, s) == \A l \in LinesOf(s) : Seen(r, l) = line[l].qty

CheckLines(r) ==
  /\ recv[r].pc = "cover"
  /\ recv[r].open = {} \/ recv[r].left = 0
  /\ recv' = [recv EXCEPT ![r] =
                [recv[r] EXCEPT !.pc = IF AllLinesReceived(r, recv[r].at) THEN "close" ELSE "next",
                                !.open = {}, !.gap = [l \in Lines |-> 0], !.left = 0]]
  /\ UNCHANGED <<sheet, line, lines, nextId, clerk, due, raced>>

CloseSheet(r) ==
  /\ recv[r].pc = "close"
  /\ SheetFree(recv[r].at, Others(r))
  /\ recv' = [recv EXCEPT ![r].pc = "next", ![r].closing = @ \cup {recv[r].at}]
  /\ UNCHANGED <<sheet, line, lines, nextId, clerk, due, raced>>

\* The commit of the movement; it makes the receive's updates visible.
CommitReceive(r) ==
  LET owed(l) == Min({line[l].qty, due[l] + recv[r].qty}) IN
  /\ recv[r].pc = "next"
  /\ recv[r].rows = {}
  /\ line' = [l \in Lines |-> [line[l] EXCEPT !.received = Seen(r, l)]]
  /\ sheet' = [s \in Sheets |-> IF s \in recv[r].closing
                                  THEN [sheet[s] EXCEPT !.status = "received"] ELSE sheet[s]]
  /\ due' = [l \in Lines |-> IF l \in recv[r].visited THEN owed(l) ELSE due[l]]
  /\ recv' = [recv EXCEPT ![r] = NoReceive]
  /\ UNCHANGED <<lines, nextId, clerk, raced>>

RollbackReceive(r) ==
  /\ recv[r].pc # "idle"
  /\ recv' = [recv EXCEPT ![r] = NoReceive]
  /\ UNCHANGED <<sheet, line, lines, nextId, clerk, due, raced>>

--------------------------------------------------------------------------------
Office(c) ==
  \/ \E order \in Orders : Create(c, order)
  \/ \E s \in Sheets, admin \in BOOLEAN : ReadForSend(c, s, admin)
  \/ \E s \in Sheets : ReadForReplace(c, s) \/ ReadForCancel(c, s)
  \/ \E order \in Orders : ReplaceLines(c, order)
  \/ CheckBudget(c) \/ MarkSent(c) \/ SnapLines(c) \/ MarkCancelled(c) \/ GiveUp(c)

Receive(r) ==
  \/ \E i \in Items, q \in Received : \E rows \in Fetched(i) : BeginReceive(r, i, q, rows)
  \/ \E l \in Lines : VisitSheet(r, l)
  \/ CoverLine(r) \/ CheckLines(r) \/ CloseSheet(r) \/ CommitReceive(r) \/ RollbackReceive(r)

Next == (\E c \in Clerks : Office(c)) \/ (\E r \in Receivers : Receive(r))

Spec == Init /\ [][Next]_vars

--------------------------------------------------------------------------------
\* Properties.  Nothing keeps two clerks from writing a sheet that both have read: what is
\* said of raced sheets is said of the others only, and SentLinesAreFixed and
\* SendsAreApproved, which make no difference, are refuted with two clerks.

\* Every receive that saw a line's sheet as sent counts for the line, once and in full,
\* however many receives cover it at the same time (decrementLine).
CoverIsExact == \A l \in lines : line[l].sheet \notin raced => line[l].received = due[l]

\* What every reachable state is like.
SheetsInv == TypeOK /\ CoverIsExact

\* A sheet is received only when every one of its lines is, also if its last lines were
\* covered by transactions that could not see each other (applyReceive).
ReceivedIsCovered ==
  \A s \in Sheets \ raced : sheet[s].status = "received" =>
    \A l \in LinesOf(s) : line[l].received = line[l].qty

LinesStay(s) ==
  /\ LinesOf(s)' = LinesOf(s)
  /\ \A l \in LinesOf(s) : line'[l].qty = line[l].qty

\* Once a sheet is sent its lines stay: no row is added, deleted or given another
\* quantity (replaceLines: sent sheets are immutable snapshots).
SentLinesAreFixed ==
  [][\A s \in Sheets : sheet[s].status \in {"sent", "received"} => LinesStay(s)]_vars

\* The lines of a sent sheet change only by a replace that was begun when the sheet was a
\* draft and overtaken by the send: no request that reads the sheet as it is, no receive,
\* however they interleave, touches them (replaceLines, send, cancel).
OnlyRacesTouchSent ==
  [][\A s \in Sheets \ raced' : sheet[s].status \in {"sent", "received"} => LinesStay(s)]_vars

Approved(s) ==
  sheet[s].by = "office" => EstimateOf(s) <= Approval /\ EstimateOf(s) <= Budget

\* What a clerk sent without an app admin is, line by line, within the approval threshold
\* and within what the budget had left (send, enforceBudgetCycle).
SendsAreApproved == \A s \in Sheets : Approved(s)

\* Every sheet that nobody raced for is: the total the threshold is asked of and the lines
\* the budget is asked of are read apart and without a lock, and yet only another clerk's
\* write between a reading and the send, or a replace whose reading is from before the
\* send, gets a sheet past them (send, replaceLines, enforceBudgetCycle).
OnlyRacesEvadeApproval == \A s \in Sheets \ raced : Approved(s)

\* When no receive is under way, a sent sheet has a line that is still open (applyReceive:
\* sheet -> received when every line is covered).
CoveredIsReceived ==
  (\A r \in Receivers : recv[r].pc = "idle") =>
    \A s \in Sheets : sheet[s].status = "sent" =>
      \E l \in LinesOf(s) : line[l].received < line[l].qty
================================================================================
