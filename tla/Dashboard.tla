------------------------------- MODULE Dashboard -------------------------------
\* The dashboard (renderDashboard, mountVarianceSection in src/js/app.js): the low stock
\* with its order markers, the open order sheets and the variance panel.  A render asks
\* twice: the first answer clears the page, the second one appends the sections.
EXTENDS Integers, Sequences, FiniteSets
CONSTANTS
  Goods,     \* items below their reorder level
  MaxSheets, \* bounds the sheets created
  MaxTasks,  \* requests that may be under way at once
  MaxTurns   \* bounds the renders

DashboardAssumption == {MaxSheets, MaxTasks, MaxTurns} \subseteq Nat \ {0}

VARIABLES
  marked,    \* goods marked as ordered on the server
  sheets,    \* the status of each sheet on the server
  tasks,     \* requests under way
  turns,     \* renders asked for
  frame,     \* "blank", "frame" or "error"
  loading,   \* aria-busy
  sections,  \* what is below the frame: of each render that appended, [turn, marks]
  hosts,     \* of each render, the lists of open sheets its host shows, below each other
  editor,    \* the sheet of the open edit dialog and the render it was opened in
  variance,  \* of each render: "shut", "loading", "shown" or "failed"
  missing,   \* the answer to a change that took effect, or to a list of sheets, was lost
  calm       \* since the last render was asked for, it overlapped no other request

dashVars == <<marked, sheets, tasks, turns, frame, loading, sections, hosts, editor, variance,
              missing, calm>>
backend == <<marked, sheets>>
below == <<sections, hosts, variance>>

Sheets == 1..MaxSheets
Turns == 1..MaxTurns
Tasks == 1..MaxTasks
NoTask == [op |-> "none", st |-> "none"]
\* on: a good for "mark" and "unmark", a sheet for the others, 0 for none.
Task(op, turn, on) == [op |-> op, st |-> "sent", turn |-> turn, on |-> on]
Rendering == \E t \in Tasks : tasks[t].op \in {"frame", "sections"}
Still == \A t \in Tasks : tasks[t] = NoTask
Others(t) == \E u \in Tasks \ {t} : tasks[u] # NoTask
FreeTask(t) == tasks[t] = NoTask /\ \A u \in Tasks : u < t => tasks[u] # NoTask
NoEditor == [on |-> 0, turn |-> 0, save |-> 0]  \* save: the task of its save, or 0
Put(t, task) == tasks' = [tasks EXCEPT ![t] = task]
Open(s) == {i \in Sheets : s[i] \in {"draft", "sent"}}
OpenSheets == [i \in Open(sheets) |-> sheets[i]]
\* Hosts and panels of an earlier page are out of sight and count as empty.
Cleared == /\ sections' = <<>> /\ hosts' = [n \in Turns |-> <<>>]
           /\ variance' = [n \in Turns |-> "shut"]
OnPage == {sections[i].turn : i \in DOMAIN sections}
Top == sections[Len(sections)]

\* Sections stand below a frame, and of an error nothing is left but the dialog.
TypeOK ==
  /\ marked \subseteq Goods /\ sheets \in [Sheets -> {"none", "draft", "sent", "cancelled"}]
  /\ turns \in Turns /\ frame \in {"blank", "frame", "error"}
  /\ \A t \in Tasks : tasks[t].op \in {"none", "frame", "sections", "mark", "unmark", "sheets",
                                       "create", "read", "edit", "send", "cancel", "variance"}
  /\ {loading, missing, calm} \subseteq BOOLEAN
  /\ frame \in {"blank", "error"} => sections = <<>>
  /\ \A i \in DOMAIN sections : sections[i].turn \in 1..turns /\ sections[i].marks \subseteq Goods
  /\ DOMAIN hosts = Turns /\ editor.turn \in 0..turns
  /\ variance \in [Turns -> {"shut", "loading", "shown", "failed"}]
  /\ editor # NoEditor => sheets[editor.on] # "none"
  /\ editor.save # 0 => tasks[editor.save].op = "edit"
  /\ \A n \in Turns : hosts[n] # <<>> \/ variance[n] # "shut" => n \in OnPage

DashInit ==
  /\ marked \in SUBSET Goods /\ sheets = [i \in Sheets |-> "none"]
  /\ tasks = [t \in Tasks |-> IF t = 1 THEN Task("frame", 1, 0) ELSE NoTask]
  /\ turns = 1 /\ frame = "blank" /\ loading = TRUE /\ sections = <<>>
  /\ hosts = [n \in Turns |-> <<>>] /\ editor = NoEditor
  /\ variance = [n \in Turns |-> "shut"] /\ missing = FALSE /\ calm = TRUE

--------------------------------------------------------------------------------
\* The server.
Marks(k) == CASE k.op = "mark" -> marked \cup {k.on}
              [] k.op = "unmark" -> marked \ {k.on}
              [] OTHER -> marked
Next0(i) == sheets[i] = "none" /\ \A h \in Sheets : h < i => sheets[h] # "none"
\* A sheet that is no longer a draft is neither edited nor sent, a cancelled one is not
\* cancelled: those requests fail.
Takes(k) ==
  CASE k.op = "create" -> \E i \in Sheets : Next0(i)
    [] k.op \in {"edit", "send"} -> sheets[k.on] = "draft"
    [] k.op = "cancel" -> sheets[k.on] \in {"draft", "sent"}
    [] OTHER -> TRUE
Statuses(k) ==
  CASE k.op = "create" -> [sheets EXCEPT ![CHOOSE i \in Sheets : Next0(i)] = "draft"]
    [] k.op = "send" -> [sheets EXCEPT ![k.on] = "sent"]
    [] k.op = "cancel" -> [sheets EXCEPT ![k.on] = "cancelled"]
    [] OTHER -> sheets

Serve(t) ==
  /\ tasks[t].st = "sent" /\ tasks[t].op # "sections" /\ Takes(tasks[t])
  /\ marked' = Marks(tasks[t]) /\ sheets' = Statuses(tasks[t])
  /\ Put(t, [op |-> tasks[t].op, st |-> "ok", turn |-> tasks[t].turn, on |-> tasks[t].on,
             marks |-> IF tasks[t].op = "frame" THEN marked' ELSE {},
             open |-> IF tasks[t].op = "sheets" THEN OpenSheets' ELSE <<>>])
  /\ UNCHANGED <<turns, frame, loading, below, editor, missing, calm>>

--------------------------------------------------------------------------------
\* Rendering.  The data of the first answer goes into the sections of the second.
FrameArrives(t) ==
  /\ tasks[t].op = "frame" /\ tasks[t].st = "ok"
  /\ frame' = "frame" /\ loading' = FALSE /\ Cleared
  /\ Put(t, [op |-> "sections", st |-> "sent", turn |-> tasks[t].turn, on |-> 0,
             marks |-> tasks[t].marks])
  /\ UNCHANGED <<backend, turns, editor, missing, calm>>

ServeLookups(t) ==
  /\ tasks[t].op = "sections" /\ tasks[t].st = "sent"
  /\ Put(t, [tasks[t] EXCEPT !.st = "looked up"])
  /\ UNCHANGED <<backend, turns, frame, loading, below, editor, missing, calm>>

\* A render whose page was cleared by an error since appends below the error all the same;
\* the model lets the page count as a frame again.
SectionsArrive(t) ==
  /\ tasks[t].op = "sections" /\ tasks[t].st = "looked up"
  /\ frame' = "frame"
  /\ sections' = Append(sections, [turn |-> tasks[t].turn, marks |-> tasks[t].marks])
  /\ hosts' = [hosts EXCEPT ![tasks[t].turn] = <<>>]
  /\ Put(t, Task("sheets", tasks[t].turn, 0))
  /\ UNCHANGED <<backend, turns, loading, variance, editor, missing, calm>>

\* Broken variant: the error is shown and the page stays busy.
RenderFailsBusy(t) ==
  /\ tasks[t].op \in {"frame", "sections"} /\ Put(t, NoTask)
  /\ frame' = "error" /\ Cleared /\ UNCHANGED loading
  /\ UNCHANGED <<backend, turns, editor, missing, calm>>
RenderFails(t) ==
  /\ tasks[t].op \in {"frame", "sections"} /\ Put(t, NoTask)
  /\ frame' = "error" /\ Cleared /\ loading' = FALSE
  /\ UNCHANGED <<backend, turns, editor, missing, calm>>

\* Bound: as far as renders may be asked for.
Render(t) ==
  /\ turns < MaxTurns /\ turns' = turns + 1
  /\ frame' = "blank" /\ Cleared /\ loading' = TRUE
  /\ Put(t, Task("frame", turns + 1, 0))
  /\ calm' = ~Others(t)
Retry(t) ==
  /\ frame = "error" /\ editor = NoEditor /\ FreeTask(t) /\ Render(t)
  /\ UNCHANGED <<backend, editor, missing>>

--------------------------------------------------------------------------------
\* Buttons.
Send(t, op, turn, on) ==
  /\ turn \in OnPage /\ editor = NoEditor /\ FreeTask(t)
  /\ Put(t, Task(op, turn, on))
  /\ calm' = (calm /\ ~Rendering)
  /\ UNCHANGED <<backend, turns, frame, loading, below, editor, missing>>

Mark(t, i, g) == /\ i \in DOMAIN sections
                 /\ Send(t, IF g \in sections[i].marks THEN "unmark" ELSE "mark",
                         sections[i].turn, g)
CreateSheet(t, turn) == Send(t, "create", turn, 0)
\* The buttons of a row depend on the status it was listed with.
Listed(turn, s, statuses) ==
  \E n \in DOMAIN hosts[turn] : s \in DOMAIN hosts[turn][n] /\ hosts[turn][n][s] \in statuses
SendSheet(t, turn, s) == Listed(turn, s, {"draft"}) /\ Send(t, "send", turn, s)
CancelSheet(t, turn, s) == Listed(turn, s, {"draft", "sent"}) /\ Send(t, "cancel", turn, s)
\* openSheetEditor reads the sheet, then opens the dialog.
ReadSheet(t, turn, s) == Listed(turn, s, {"draft"}) /\ Send(t, "read", turn, s)
\* One save of a dialog at a time; it may be closed while it saves.
SaveSheet(t) ==
  /\ editor # NoEditor /\ editor.save = 0 /\ FreeTask(t)
  /\ Put(t, Task("edit", editor.turn, editor.on))
  /\ editor' = [editor EXCEPT !.save = t]
  /\ calm' = (calm /\ ~Rendering)
  /\ UNCHANGED <<backend, turns, frame, loading, below, missing>>
CloseEditor ==
  /\ editor # NoEditor /\ editor' = NoEditor
  /\ UNCHANGED <<backend, tasks, turns, frame, loading, below, missing, calm>>

\* The panel loads when it is opened first.
OpenVariance(t, turn) ==
  /\ turn \in OnPage /\ variance[turn] \in {"shut", "failed"} /\ editor = NoEditor /\ FreeTask(t)
  /\ variance' = [variance EXCEPT ![turn] = "loading"]
  /\ Put(t, Task("variance", turn, 0))
  /\ calm' = (calm /\ ~Rendering)
  /\ UNCHANGED <<backend, turns, frame, loading, sections, hosts, editor, missing>>

--------------------------------------------------------------------------------
\* Answers.
\* Broken variant: the page is left as it is.
MarkAcceptedQuietly(t) ==
  /\ tasks[t].op \in {"mark", "unmark"} /\ tasks[t].st = "ok" /\ Put(t, NoTask)
  /\ UNCHANGED <<backend, turns, frame, loading, below, editor, missing, calm>>
MarkAccepted(t) ==
  /\ tasks[t].op \in {"mark", "unmark"} /\ tasks[t].st = "ok" /\ Render(t)
  /\ UNCHANGED <<backend, editor, missing>>

\* renderOrderSheets empties its host and asks for the open sheets.
\* Broken variant: the rows are left as they are.
SheetsLeft(t) ==
  /\ tasks[t].op \in {"create", "edit", "send", "cancel"} /\ tasks[t].st = "ok"
  /\ Put(t, NoTask)
  /\ editor' = IF editor.save = t THEN NoEditor ELSE editor
  /\ UNCHANGED <<backend, turns, frame, loading, below, missing, calm>>
SheetsChanged(t) ==
  /\ tasks[t].op \in {"create", "edit", "send", "cancel"} /\ tasks[t].st = "ok"
  /\ hosts' = [hosts EXCEPT ![tasks[t].turn] = <<>>]
  /\ Put(t, Task("sheets", tasks[t].turn, 0))
  /\ editor' = IF editor.save = t THEN NoEditor ELSE editor
  /\ UNCHANGED <<backend, turns, frame, loading, sections, variance, missing, calm>>

\* Every answer is appended.
SheetsArrive(t) ==
  /\ tasks[t].op = "sheets" /\ tasks[t].st = "ok" /\ Put(t, NoTask)
  /\ hosts' = [hosts EXCEPT ![tasks[t].turn] = IF tasks[t].turn \in OnPage
                                                THEN Append(@, tasks[t].open) ELSE @]
  /\ UNCHANGED <<backend, turns, frame, loading, sections, variance, editor, missing, calm>>

\* A dialog that is open is closed.
EditorOpens(t) ==
  /\ tasks[t].op = "read" /\ tasks[t].st = "ok" /\ Put(t, NoTask)
  /\ editor' = [on |-> tasks[t].on, turn |-> tasks[t].turn, save |-> 0]
  /\ UNCHANGED <<backend, turns, frame, loading, below, missing, calm>>

VarianceAnswered(t) ==
  /\ tasks[t].op = "variance" /\ Put(t, NoTask)
  /\ variance' = [variance EXCEPT ![tasks[t].turn] = IF @ = "shut" THEN @
                                                     ELSE IF tasks[t].st = "ok" THEN "shown"
                                                     ELSE "failed"]
  /\ UNCHANGED <<backend, turns, frame, loading, sections, hosts, editor, missing, calm>>

\* A message; a list that fails is not even told.
Fails(t) ==
  /\ tasks[t].op \in {"mark", "unmark", "create", "read", "edit", "send", "cancel", "sheets"}
  /\ missing' = (missing \/ tasks[t].st = "ok" \/ tasks[t].op = "sheets")
  /\ Put(t, NoTask)
  /\ editor' = IF editor.save = t THEN [editor EXCEPT !.save = 0] ELSE editor
  /\ UNCHANGED <<backend, turns, frame, loading, below, calm>>

--------------------------------------------------------------------------------
Settle(t) == \/ Serve(t) \/ FrameArrives(t) \/ ServeLookups(t) \/ SectionsArrive(t)
             \/ RenderFails(t) \/ MarkAccepted(t) \/ SheetsChanged(t) \/ SheetsArrive(t)
             \/ EditorOpens(t) \/ VarianceAnswered(t) \/ Fails(t)
User(t) == \/ Retry(t) \/ SaveSheet(t)
           \/ (\E i \in DOMAIN sections, g \in Goods : Mark(t, i, g))
           \/ \E n \in 1..turns : \/ CreateSheet(t, n) \/ OpenVariance(t, n)
                                  \/ \E s \in Sheets : \/ SendSheet(t, n, s)
                                                       \/ CancelSheet(t, n, s)
                                                       \/ ReadSheet(t, n, s)
DashNext == (\E t \in Tasks : Settle(t) \/ User(t)) \/ CloseEditor

DashSpec == DashInit /\ [][DashNext]_dashVars
\* Every request is answered or fails.
DashFairSpec == DashSpec /\ \A t \in Tasks : WF_dashVars(Settle(t))

--------------------------------------------------------------------------------
\* Properties.

Answered == Still /\ calm /\ ~missing /\ Len(sections) = 1

\* Buttons pressed before the answers to others still leave the open sheets, as the server
\* has them, among the lists shown: the newest list is asked for after the last change.
OpenSheetsShown ==
  Answered => \E n \in DOMAIN hosts[Top.turn] : hosts[Top.turn][n] = OpenSheets

\* The markers shown are those of the server once all is answered, if no render met
\* another request.
MarkersAreTrue == Answered => Top.marks = marked

\* A render ends: with sections or an error, but not busy.
DashBusyEnds == loading ~> ~loading

\* No list of sheets stands below another.  Not so: two renders of the list that overlap
\* both append theirs (renderOrderSheets).
SheetsListedOnce == \A n \in OnPage : Len(hosts[n]) <= 1
================================================================================
