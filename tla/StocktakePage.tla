----------------------------- MODULE StocktakePage -----------------------------
\* The count screen of one stocktake (renderStocktakeDetail in src/js/app.js): one
\* browser tab of an office user, the requests it has under way, and the server that
\* serves and answers them in any order.  Other clerks count and move stock meanwhile.
EXTENDS Integers, FiniteSets, FiniteSetsExt
CONSTANTS
  Lines,    \* the lines of the campaign
  PageOf,   \* [Lines -> Nat], the page of the table a line is shown on
  Qty,      \* what a user may type
  System,   \* [Lines -> Qty], the quantities of the snapshot
  Slots,    \* the requests that may be under way at once
  MaxMoved, \* how many lines others move
  Nothing   \* qtyCounted = null

ASSUME StocktakeAssumption == /\ PageOf \in [Lines -> Nat] /\ System \in [Lines -> Qty]
                              /\ Nothing \notin Qty /\ MaxMoved \in Nat
                              /\ IsFiniteSet(Lines) /\ IsFiniteSet(Slots)

VARIABLES
  status,   \* the campaign's status on the server
  counted,  \* the counts stored on the server
  moved,    \* lines whose live quantity differs from the snapshot
  net,      \* requests and answers under way
  screen,   \* what the mount shows: "blank" while loading, "page" or "error"
  camp,     \* the campaign object of the last paint, which the action bar still uses
  auto,     \* stocktakeAutoStarting and stocktakeAutoStartFailed
  dlg,      \* the close dialog
  consent   \* what a dialog told the user before he confirmed it

server == <<status, counted, moved>>
client == <<screen, camp, auto, dlg, consent>>
vars == <<server, net, client>>

Pages == {PageOf[l] : l \in Lines}
OnPage(p) == {l \in Lines : PageOf[l] = p}
Uncounted == {l \in Lines : counted[l] = Nothing}

Idle == [op |-> "none"]
Load(p) == [op |-> "load", page |-> p, st |-> "sent"]
Loaded(p, snap) == [op |-> "load", page |-> p, st |-> "ok", snap |-> snap]
\* kind "auto": left field; "batch": count-as-system, which settles as one; "late": what
\* is left of a batch after its first failure; "old": belongs to an earlier paint.
Save(l, q, kind) == [op |-> "save", line |-> l, val |-> q, kind |-> kind, st |-> "sent"]
Start(byHand) == [op |-> "start", byHand |-> byHand, st |-> "sent"]
\* byDialog: the close dialog on the screen waits for the answer.
Close(abandon, ack, byDialog) ==
  [op |-> "close", abandon |-> abandon, ack |-> ack, byDialog |-> byDialog, st |-> "sent"]
NoDialog == [open |-> FALSE, uncounted |-> 0, conflicts |-> 0, busy |-> FALSE]
NoCampaign == [status |-> "none", page |-> 0, cnt |-> [l \in Lines |-> Nothing],
               uncounted |-> 0, conflicts |-> 0, pending |-> 0, manual |-> FALSE]
Campaign == [status: {"none", "open", "counting", "closed"}, page: Nat,
             cnt: [Lines -> Qty \cup {Nothing}], uncounted: 0..Cardinality(Lines),
             conflicts: 0..Cardinality(Lines), pending: 0..Cardinality(Slots),
             manual: BOOLEAN]  \* the action bar has "Start counting"

\* Every counter of the page stays within what its lines and requests allow.
TypeOK ==
  /\ status \in {"open", "counting", "closed"}
  /\ counted \in [Lines -> Qty \cup {Nothing}]
  /\ moved \subseteq Lines
  /\ screen \in {"blank", "page", "error"}
  /\ camp \in Campaign
  /\ auto \in {"no", "starting", "failed"}
  /\ dlg \in [open: BOOLEAN, uncounted: 0..Cardinality(Lines),
              conflicts: 0..Cardinality(Lines), busy: BOOLEAN]
  /\ consent \in [abandon: BOOLEAN, conflicts: BOOLEAN]
  /\ DOMAIN net = Slots
  /\ \A s \in Slots : net[s].op \in {"none", "load", "save", "start", "close"}

Free == {s \in Slots : net[s] = Idle}
Busy(kinds) == {s \in Slots : net[s].op = "save" /\ net[s].kind \in kinds}

Init ==
  /\ status \in {"open", "counting"}
  /\ counted = [l \in Lines |-> Nothing]
  /\ moved = {}
  /\ \E s \in Slots : net = [[t \in Slots |-> Idle] EXCEPT ![s] = Load(0)]
  /\ screen = "blank"
  /\ camp = NoCampaign
  /\ auto = "no"
  /\ dlg = NoDialog
  /\ consent = [abandon |-> FALSE, conflicts |-> FALSE]

--------------------------------------------------------------------------------
\* The server.  Each request is one transaction; Break is a refused connection, a dead
\* worker or a lost answer, all of which api() turns into a network error.
Snapshot(p) ==
  [status |-> status, page |-> p,
   cnt |-> [l \in Lines |-> IF PageOf[l] = p THEN counted[l] ELSE Nothing],
   uncounted |-> Cardinality(Uncounted), conflicts |-> Cardinality(moved),
   pending |-> 0, manual |-> FALSE]

CloseRefused(r) == \/ status # "counting"
                   \/ Uncounted # {} /\ ~r.abandon
                   \/ moved # {} /\ ~r.ack

Settled(s, st) == net' = [net EXCEPT ![s].st = st]

ServeLoad(s) ==
  /\ net[s].op = "load" /\ net[s].st = "sent"
  /\ net' = [net EXCEPT ![s] = Loaded(net[s].page, Snapshot(net[s].page))]
  /\ UNCHANGED <<server, client>>

ServeSave(s) ==
  /\ net[s].op = "save" /\ net[s].st = "sent"
  /\ IF status = "counting"
     THEN Settled(s, "ok") /\ counted' = [counted EXCEPT ![net[s].line] = net[s].val]
     ELSE Settled(s, "failed") /\ UNCHANGED counted
  /\ UNCHANGED <<status, moved, client>>

ServeStart(s) ==
  /\ net[s].op = "start" /\ net[s].st = "sent"
  /\ IF status = "open" THEN Settled(s, "ok") /\ status' = "counting"
                        ELSE Settled(s, "failed") /\ UNCHANGED status
  /\ UNCHANGED <<counted, moved, client>>

ServeClose(s) ==
  /\ net[s].op = "close" /\ net[s].st = "sent"
  /\ IF CloseRefused(net[s]) THEN Settled(s, "failed") /\ UNCHANGED status
                             ELSE Settled(s, "ok") /\ status' = "closed"
  /\ UNCHANGED <<counted, moved, client>>

Break(s) ==
  /\ net[s] # Idle /\ net[s].st # "failed"
  /\ IF net[s].op = "load" THEN net' = [net EXCEPT ![s] = [Load(net[s].page) EXCEPT !.st = "failed"]]
                           ELSE Settled(s, "failed")
  /\ UNCHANGED <<server, client>>

OthersCount(l, q) ==
  /\ status = "counting" /\ counted[l] = Nothing
  /\ counted' = [counted EXCEPT ![l] = q]
  /\ UNCHANGED <<status, moved, net, client>>

OthersMove(l) ==
  /\ status # "closed" /\ Cardinality(moved \cup {l}) <= MaxMoved
  /\ moved' = moved \cup {l}
  /\ UNCHANGED <<status, counted, net, client>>

--------------------------------------------------------------------------------
\* renderStocktakeDetail: clears the mount, keeps the action bar of the last paint.
Render(n, p) == \E t \in Slots : n[t] = Idle /\ net' = [n EXCEPT ![t] = Load(p)]

\* A paint makes a new campaign object; answers to saves of the old one reach only that.
AfterPaint(s) == [t \in Slots |-> CASE t = s -> Idle
                                    [] net[t].op = "save" -> [net[t] EXCEPT !.kind = "old"]
                                    [] OTHER -> net[t]]

ShowsStarting == screen = "page" /\ camp.status = "open" /\ auto # "failed"
CanCount == screen = "page" /\ camp.status = "counting" /\ ~dlg.open
CanClose == camp.status = "counting" /\ ~dlg.open

Paint(s) ==
  LET n == AfterPaint(s)
      snap == net[s].snap
      opens == snap.status = "open" IN
  /\ net[s].op = "load" /\ net[s].st = "ok"
  /\ camp' = [snap EXCEPT !.manual = opens /\ auto = "failed"]
  /\ screen' = "page"
  /\ IF opens /\ auto = "no"
     THEN /\ auto' = "starting"
          /\ \E t \in Slots : n[t] = Idle /\ net' = [u \in Slots |-> IF u = t THEN Start(FALSE) ELSE n[u]]
     ELSE /\ auto' = IF snap.status = "counting" /\ auto = "failed" THEN "no" ELSE auto
          /\ net' = n
  /\ UNCHANGED <<server, dlg, consent>>

LoadFails(s) ==
  /\ net[s].op = "load" /\ net[s].st = "failed"
  /\ net' = [net EXCEPT ![s] = Idle]
  /\ screen' = "error"
  /\ UNCHANGED <<server, camp, auto, dlg, consent>>

Retry ==
  /\ screen = "error" /\ ~dlg.open
  /\ \E p \in Pages : Render(net, p)
  /\ screen' = "blank"
  /\ UNCHANGED <<server, camp, auto, dlg, consent>>

TurnPage(p) ==
  /\ screen = "page" /\ camp.status # "open" /\ ~dlg.open /\ p \in Pages \ {camp.page}
  /\ Render(net, p)
  /\ screen' = "blank"
  /\ UNCHANGED <<server, camp, auto, dlg, consent>>

StartByHand ==
  /\ camp.manual /\ ~dlg.open
  /\ \E s \in Free : net' = [net EXCEPT ![s] = Start(TRUE)]
  /\ UNCHANGED <<server, client>>

\* Broken variant: a failed start leaves "starting" behind.
StartAnsweredForgettingFailure(s) ==
  LET ok == net[s].st = "ok"
      byHand == net[s].byHand IN
  /\ net[s].op = "start" /\ net[s].st # "sent"
  /\ auto' = IF ok THEN "no" ELSE auto
  /\ IF ok \/ ~byHand
     THEN net' = [net EXCEPT ![s] = Load(camp.page)] /\ screen' = "blank"
     ELSE net' = [net EXCEPT ![s] = Idle] /\ UNCHANGED screen
  /\ UNCHANGED <<server, camp, dlg, consent>>

StartAnswered(s) ==
  LET ok == net[s].st = "ok"
      byHand == net[s].byHand IN
  /\ net[s].op = "start" /\ net[s].st # "sent"
  /\ auto' = CASE ok /\ byHand -> IF auto = "failed" THEN "no" ELSE auto
               [] ok /\ ~byHand -> "no"
               [] ~ok /\ byHand -> auto
               [] OTHER -> "failed"
  /\ IF ok \/ ~byHand
     THEN net' = [net EXCEPT ![s] = Load(camp.page)] /\ screen' = "blank"
     ELSE net' = [net EXCEPT ![s] = Idle] /\ UNCHANGED screen
  /\ UNCHANGED <<server, camp, dlg, consent>>

--------------------------------------------------------------------------------
\* Counting.  Leaving a field and Enter both save; what is typed is sent as often as a
\* field differs from the last count that was answered.
\* Broken variant: the count is shown before the server has it.
AutosaveOptimistic(l, q) ==
  /\ CanCount /\ PageOf[l] = camp.page /\ camp.cnt[l] # q
  /\ \E s \in Free : net' = [net EXCEPT ![s] = Save(l, q, "auto")]
  /\ camp' = [camp EXCEPT !.pending = @ + 1, !.cnt[l] = q]
  /\ UNCHANGED <<server, screen, auto, dlg, consent>>

Autosave(l, q) ==
  /\ CanCount /\ PageOf[l] = camp.page /\ camp.cnt[l] # q
  /\ \E s \in Free : net' = [net EXCEPT ![s] = Save(l, q, "auto")]
  /\ camp' = [camp EXCEPT !.pending = @ + 1]
  /\ UNCHANGED <<server, screen, auto, dlg, consent>>

\* countRemainingAsSystem: one request per uncounted line of the page, one pending save.
CountAsSystem ==
  LET todo == {l \in OnPage(camp.page) : camp.cnt[l] = Nothing} IN
  /\ CanClose /\ camp.pending = 0 /\ todo # {}
  /\ \E slotOf \in {f \in [todo -> Free] : \A k, l \in todo : f[k] = f[l] => k = l} :
       net' = [s \in Slots |-> IF \E l \in todo : slotOf[l] = s
                 THEN LET l == CHOOSE k \in todo : slotOf[k] = s IN Save(l, System[l], "batch")
                 ELSE net[s]]
  /\ camp' = [camp EXCEPT !.pending = 1]
  /\ UNCHANGED <<server, screen, auto, dlg, consent>>

LessOne(n) == Max({0, n - 1})
Counts(c, l, q) == [c EXCEPT !.cnt[l] = q, !.uncounted = LessOne(@)]
SaveEnds(s, n, c) ==
  /\ net[s].op = "save" /\ net[s].st # "sent"
  /\ net' = n /\ camp' = c
  /\ UNCHANGED <<server, screen, auto, dlg, consent>>

\* Broken variant: a save that fails stays pending.
AutosaveAnsweredOnce(s) ==
  LET l == net[s].line IN
  /\ net[s].op = "save" /\ net[s].kind = "auto"
  /\ SaveEnds(s, [net EXCEPT ![s] = Idle],
       IF net[s].st = "failed" THEN camp
       ELSE [(IF camp.cnt[l] = Nothing THEN Counts(camp, l, net[s].val)
              ELSE [camp EXCEPT !.cnt[l] = net[s].val]) EXCEPT !.pending = LessOne(@)])

AutosaveAnswered(s) ==
  LET l == net[s].line
      settled == [camp EXCEPT !.pending = LessOne(@)] IN
  /\ net[s].op = "save" /\ net[s].kind = "auto"
  /\ SaveEnds(s, [net EXCEPT ![s] = Idle],
       IF net[s].st = "failed" THEN settled
       ELSE IF camp.cnt[l] = Nothing THEN Counts(settled, l, net[s].val)
       ELSE [settled EXCEPT !.cnt[l] = net[s].val])

\* Promise.all: settled by the last success or the first failure, which leaves the rest
\* unwatched.  Every success counts a line, also one that was counted by hand meanwhile.
BatchAnswered(s) ==
  LET ok == net[s].st = "ok"
      done == IF ok THEN Counts(camp, net[s].line, net[s].val) ELSE camp IN
  /\ net[s].op = "save" /\ net[s].kind = "batch"
  /\ SaveEnds(s, [t \in Slots |-> IF t = s THEN Idle
                    ELSE IF ~ok /\ t \in Busy({"batch"}) THEN [net[t] EXCEPT !.kind = "late"]
                    ELSE net[t]],
       IF ok /\ Busy({"batch"}) # {s} THEN done ELSE [done EXCEPT !.pending = LessOne(@)])

LateAnswered(s) ==
  /\ net[s].op = "save" /\ net[s].kind \in {"late", "old"}
  /\ SaveEnds(s, [net EXCEPT ![s] = Idle],
       IF net[s].kind = "late" /\ net[s].st = "ok" THEN Counts(camp, net[s].line, net[s].val)
                                                   ELSE camp)

--------------------------------------------------------------------------------
\* closeStocktake and its dialog.
\* Broken variant: the two consents are swapped.
CloseQuerySwapped(uncounted, conflicts, byDialog) == Close(conflicts > 0, uncounted > 0, byDialog)
CloseQuery(uncounted, conflicts, byDialog) == Close(uncounted > 0, conflicts > 0, byDialog)

\* Broken variant: pending saves do not matter.
ClickCloseAtOnce ==
  /\ CanClose
  /\ IF camp.uncounted = 0 /\ camp.conflicts = 0
     THEN /\ \E s \in Free : net' = [net EXCEPT ![s] = CloseQuery(0, 0, FALSE)]
          /\ UNCHANGED dlg
     ELSE /\ dlg' = [open |-> TRUE, uncounted |-> camp.uncounted,
                     conflicts |-> camp.conflicts, busy |-> FALSE]
          /\ UNCHANGED net
  /\ UNCHANGED <<server, screen, camp, auto, consent>>

\* Clean campaigns close in one click.
ClickClose ==
  /\ CanClose /\ camp.pending = 0
  /\ IF camp.uncounted = 0 /\ camp.conflicts = 0
     THEN /\ \E s \in Free : net' = [net EXCEPT ![s] = CloseQuery(0, 0, FALSE)]
          /\ UNCHANGED dlg
     ELSE /\ dlg' = [open |-> TRUE, uncounted |-> camp.uncounted,
                     conflicts |-> camp.conflicts, busy |-> FALSE]
          /\ UNCHANGED net
  /\ UNCHANGED <<server, screen, camp, auto, consent>>

Confirm ==
  /\ dlg.open /\ ~dlg.busy
  /\ \E s \in Free : net' = [net EXCEPT ![s] = CloseQuery(dlg.uncounted, dlg.conflicts, TRUE)]
  /\ dlg' = [dlg EXCEPT !.busy = TRUE]
  /\ consent' = [abandon |-> consent.abandon \/ dlg.uncounted > 0,
                 conflicts |-> consent.conflicts \/ dlg.conflicts > 0]
  /\ UNCHANGED <<server, screen, camp, auto>>

\* Cancel and Escape work while the request is under way; its answer finds no dialog.
CancelClose ==
  /\ dlg.open
  /\ dlg' = NoDialog
  /\ net' = [s \in Slots |-> IF net[s].op = "close" THEN [net[s] EXCEPT !.byDialog = FALSE]
                                                    ELSE net[s]]
  /\ UNCHANGED <<server, screen, camp, auto, consent>>

CloseAnswered(s) ==
  LET ok == net[s].st = "ok" IN
  /\ net[s].op = "close" /\ net[s].st # "sent"
  /\ net' = [net EXCEPT ![s] = IF ok THEN Load(0) ELSE Idle]
  /\ screen' = IF ok THEN "blank" ELSE screen
  /\ dlg' = CASE ~net[s].byDialog -> dlg
              [] ok -> NoDialog
              [] OTHER -> [dlg EXCEPT !.busy = FALSE]
  /\ UNCHANGED <<server, camp, auto, consent>>

--------------------------------------------------------------------------------
Serve(s) == ServeLoad(s) \/ ServeSave(s) \/ ServeStart(s) \/ ServeClose(s)
Answer(s) == \/ Paint(s) \/ LoadFails(s) \/ StartAnswered(s) \/ AutosaveAnswered(s)
             \/ BatchAnswered(s) \/ LateAnswered(s) \/ CloseAnswered(s)
User == \/ Retry \/ StartByHand \/ CountAsSystem \/ ClickClose \/ Confirm \/ CancelClose
        \/ (\E p \in Pages : TurnPage(p))
        \/ (\E l \in Lines, q \in Qty : Autosave(l, q))
Others == \/ (\E l \in Lines : OthersMove(l))
          \/ (\E l \in Lines, q \in Qty : OthersCount(l, q))

Next == (\E s \in Slots : Serve(s) \/ Answer(s) \/ Break(s)) \/ User \/ Others

Spec == Init /\ [][Next]_vars
\* Every request is served or breaks, and the browser runs every answer's callback.
FairSpec == Spec /\ \A s \in Slots : WF_vars(Serve(s)) /\ WF_vars(Answer(s))

--------------------------------------------------------------------------------
\* Properties.

\* A close leaves lines uncounted only if a dialog had said so and was confirmed, and
\* overwrites movements after the snapshot only if a dialog had named conflicts, whatever
\* others count or move and however often the page was painted (closeStocktake).
CloseHasConsent ==
  status = "closed" => /\ Uncounted # {} => consent.abandon
                       /\ moved # {} => consent.conflicts

\* The counter that holds a close back is the number of saves of this paint that are
\* unanswered, a batch counting once (campaign._ivPendingSaves).
PendingIsExact ==
  camp.pending = Cardinality(Busy({"auto"})) + (IF Busy({"batch"}) = {} THEN 0 ELSE 1)

\* A line the page shows as counted is counted on the server.
CountedIsOnServer == \A l \in Lines : camp.cnt[l] # Nothing => counted[l] # Nothing

\* What the page says of its own counts is so.
PageInv == TypeOK /\ PendingIsExact /\ CountedIsOnServer

\* No close is sent while a count typed since the last paint is unanswered, nor while a
\* count-as-system is of which nothing has failed: also not by confirming a dialog that stood
\* open for long, which does not look at the counter again.  Not waited for are the rest of a
\* count-as-system after its first failure (Promise.all) and the counts of an earlier paint.
CloseWaitsForSaves ==
  [][(\E s \in Slots : net'[s].op = "close" /\ net[s].op # "close")
       => Busy({"auto", "batch"}) = {}]_vars

\* "Still saving counts... Try again in a moment." (app.js:7232), said of every unanswered
\* count.  It is refuted by the two that are not waited for: such a count may reach the server
\* after the close, which refuses it.
CloseWaitsForAll ==
  [][(\E s \in Slots : net'[s].op = "close" /\ net[s].op # "close")
       => Busy({"auto", "batch", "late", "old"}) = {}]_vars

\* "Starting count..." does not stay for ever (Bachus: open campaigns auto-start).
StartingEnds == ShowsStarting ~> ~ShowsStarting
================================================================================
