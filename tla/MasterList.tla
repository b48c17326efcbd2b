------------------------------ MODULE MasterList ------------------------------
\* The list of items or of locations (renderItems, renderLocations in src/js/app.js): a
\* search box whose text is applied when the typing stops, the rows found, and the changes
\* made from it, after which the page is rendered anew.  A render is a closure of its own:
\* timers and requests of an earlier one go on without a place to show anything.
EXTENDS Integers, FiniteSets
CONSTANTS
  Entries,   \* items or locations
  Texts,     \* what may be typed; "" finds all
  Match,     \* [Texts -> SUBSET Entries]
  MaxLoads,  \* bounds the list requests
  MaxViews   \* bounds the renders

ListAssumption == /\ "" \in Texts /\ Match \in [Texts -> SUBSET Entries]
                         /\ {MaxLoads, MaxViews} \subseteq Nat \ {0} /\ IsFiniteSet(Entries)

VARIABLES
  kind,      \* "items" or "locations"
  stored,    \* each entry on the server: "none", "active" or "inactive"
  writes,    \* creations and reactivations under way
  lost,      \* the answer to one that took effect was lost
  views,     \* the renders: box, timer, newest request, aria-busy of the list
  view,      \* the render on the page
  loads,     \* list requests under way
  sent,      \* how many were sent
  list,      \* what the page shows below the box
  pageBusy,  \* aria-busy of the page
  selected,  \* items chosen for labels
  labels     \* the number on "Print labels", 0 without the button

server == <<kind, stored, writes, lost>>
shownVars == <<list, pageBusy, selected, labels>>
listVars == <<server, views, view, loads, sent, shownVars>>

Request(no, v, term) == [no |-> no, view |-> v, term |-> term, served |-> FALSE, rows |-> {}]
Blank == [box |-> "", due |-> FALSE, newest |-> 0, busy |-> FALSE]
\* The rows a request for a term finds now.
Found(term) == {<<e, stored[e]>> : e \in {x \in Match[term] : stored[x] # "none"}}
Ids(rows) == {r[1] : r \in rows}

\* The counters stay within the bounds, and a render that is not on the page was once.
TypeOK ==
  /\ kind \in {"items", "locations"} /\ {lost, pageBusy} \subseteq BOOLEAN
  /\ stored \in [Entries -> {"none", "active", "inactive"}]
  /\ view \in 1..MaxViews /\ sent \in 0..MaxLoads
  /\ \A v \in 1..MaxViews : views[v].box \in Texts /\ views[v].newest <= sent
  /\ \A v \in 1..MaxViews : v > view => views[v] = Blank
  /\ \A l \in loads : l.no \in 1..sent /\ l.view \in 1..view /\ l.term \in Texts
  /\ list.no \in 0..sent /\ list.term \in Texts /\ list.is \in {"blank", "rows", "failure"}
  /\ selected \subseteq Entries /\ labels \in 0..Cardinality(Entries)

--------------------------------------------------------------------------------
\* load() of render v, whose closure is w: the newest request of v from now on.
Load(v, w) ==
  /\ sent < MaxLoads
  /\ sent' = sent + 1
  /\ loads' = loads \cup {Request(sent + 1, v, w.box)}
  /\ views' = [views EXCEPT ![v] = [w EXCEPT !.newest = sent + 1, !.busy = TRUE]]

\* renderItems, renderLocations: a new closure, nothing selected, no label button.
Render ==
  /\ view' = view + 1
  /\ Load(view + 1, Blank)
  /\ list' = [list EXCEPT !.is = "blank", !.rows = {}, !.ticks = {}]
  /\ pageBusy' = (kind = "items")
  /\ selected' = {} /\ labels' = 0

ListInit ==
  /\ kind \in {"items", "locations"}
  /\ stored \in [Entries -> {"none", "active", "inactive"}]
  /\ writes = {} /\ lost = FALSE
  /\ views = [v \in 1..MaxViews |-> IF v = 1 THEN [Blank EXCEPT !.newest = 1, !.busy = TRUE]
                                             ELSE Blank]
  /\ view = 1 /\ sent = 1
  /\ loads = {Request(1, 1, "")}
  /\ list = [no |-> 0, term |-> "", rows |-> {}, ticks |-> {}, is |-> "blank"]
  /\ pageBusy = (kind = "items")
  /\ selected = {} /\ labels = 0

--------------------------------------------------------------------------------
\* The search box.
\* bindLiveSearch: every key starts the timer anew.
\* Broken variant: the timer is stopped and not started.
TypeUntimed(text) ==
  /\ text # views[view].box
  /\ views' = [views EXCEPT ![view].box = text, ![view].due = FALSE]
  /\ UNCHANGED <<server, view, loads, sent, shownVars>>
Type(text) ==
  /\ text # views[view].box
  /\ views' = [views EXCEPT ![view].box = text, ![view].due = TRUE]
  /\ UNCHANGED <<server, view, loads, sent, shownVars>>

TimerFires(v) ==
  /\ views[v].due
  /\ Load(v, [views[v] EXCEPT !.due = FALSE])
  /\ UNCHANGED <<server, view, shownVars>>

Search == Load(view, views[view]) /\ UNCHANGED <<server, view, shownVars>>

\* Both "Clear" buttons; neither stops the timer.
ClearBox == /\ views[view].box # ""
            /\ Load(view, [views[view] EXCEPT !.box = ""])
            /\ UNCHANGED <<server, view, shownVars>>

--------------------------------------------------------------------------------
\* Answers to list requests.
Serve(l) ==
  /\ l \in loads /\ ~l.served
  /\ loads' = (loads \ {l}) \cup {[l EXCEPT !.served = TRUE, !.rows = Found(l.term)]}
  /\ UNCHANGED <<server, views, view, sent, shownVars>>

\* Broken variant: every answer counts.
IsNewestOrNot(l) == TRUE
\* Broken variant: the number is read after the next one was drawn.
IsNewestButOne(l) == views[l.view].newest = l.no + 1
IsNewest(l) == views[l.view].newest = l.no

Drop(l) ==
  /\ l \in loads /\ ~IsNewest(l)
  /\ loads' = loads \ {l}
  /\ UNCHANGED <<server, views, view, sent, shownVars>>

\* Broken variant: the boxes come up unticked.
RowsUnticked(l) == [no |-> l.no, term |-> l.term, rows |-> l.rows, ticks |-> {}, is |-> "rows"]
\* The rows; those chosen earlier come up ticked.
Rows(l) == [no |-> l.no, term |-> l.term, rows |-> l.rows,
            ticks |-> selected \cap Ids(l.rows), is |-> "rows"]

\* An item list that is empty returns before the page's aria-busy is taken back.
Arrive(l) ==
  /\ l \in loads /\ l.served /\ IsNewest(l)
  /\ loads' = loads \ {l}
  /\ views' = [views EXCEPT ![l.view].busy = FALSE]
  /\ pageBusy' = (pageBusy /\ ~(kind = "items" /\ l.rows # {}))
  /\ list' = IF l.view = view THEN Rows(l) ELSE list
  /\ UNCHANGED <<server, view, sent, selected, labels>>

Fail(l) ==
  /\ l \in loads /\ IsNewest(l)
  /\ loads' = loads \ {l}
  /\ views' = [views EXCEPT ![l.view].busy = FALSE]
  /\ pageBusy' = FALSE
  /\ list' = IF l.view = view
             THEN [no |-> l.no, term |-> l.term, rows |-> {}, ticks |-> {}, is |-> "failure"]
             ELSE list
  /\ UNCHANGED <<server, view, sent, selected, labels>>

--------------------------------------------------------------------------------
\* Labels, and changes.
Tick(e) ==
  /\ kind = "items" /\ e \in Ids(list.rows)
  /\ selected' = IF e \in list.ticks THEN selected \ {e} ELSE selected \cup {e}
  /\ list' = [list EXCEPT !.ticks = IF e \in @ THEN @ \ {e} ELSE @ \cup {e}]
  /\ labels' = Cardinality(selected')
  /\ UNCHANGED <<server, views, view, loads, sent, pageBusy>>

\* Bound: what may still be answered is rendered within MaxViews.
MayWrite == Cardinality(writes) + view < MaxViews
Write(op, e) ==
  /\ MayWrite /\ (\A w \in writes : w.entry # e)
  /\ writes' = writes \cup {[op |-> op, entry |-> e, served |-> FALSE]}
  /\ UNCHANGED <<kind, stored, lost, views, view, loads, sent, shownVars>>

Reactivate(e) == <<e, "inactive">> \in list.rows /\ Write("reactivate", e)
\* The dialog for a new entry.
Create(e) == stored[e] = "none" /\ Write("create", e)

ServeWrite(w) ==
  /\ w \in writes /\ ~w.served
  /\ stored' = [stored EXCEPT ![w.entry] = "active"]
  /\ writes' = (writes \ {w}) \cup {[w EXCEPT !.served = TRUE]}
  /\ UNCHANGED <<kind, lost, views, view, loads, sent, shownVars>>

\* Broken variant: the list is left as it is.
WriteAcceptedQuietly(w) ==
  /\ w \in writes /\ w.served
  /\ writes' = writes \ {w}
  /\ UNCHANGED <<kind, stored, lost, views, view, loads, sent, shownVars>>
WriteAccepted(w) ==
  /\ w \in writes /\ w.served
  /\ writes' = writes \ {w}
  /\ Render
  /\ UNCHANGED <<kind, stored, lost>>

WriteFails(w) ==
  /\ w \in writes
  /\ writes' = writes \ {w}
  /\ lost' = (lost \/ w.served)
  /\ UNCHANGED <<kind, stored, views, view, loads, sent, shownVars>>

--------------------------------------------------------------------------------
Loading == \E l \in loads : Serve(l) \/ Drop(l) \/ Arrive(l) \/ Fail(l)
Writing == \E w \in writes : ServeWrite(w) \/ WriteAccepted(w) \/ WriteFails(w)
Timers == \E v \in 1..view : TimerFires(v)
User == \/ Search \/ ClearBox \/ (\E t \in Texts : Type(t))
        \/ (\E e \in Entries : Tick(e) \/ Reactivate(e) \/ Create(e))
ListNext == Loading \/ Writing \/ Timers \/ User

ListSpec == ListInit /\ [][ListNext]_listVars
\* Requests are answered or fail, and timers fire.
ListFairSpec ==
  ListSpec /\ WF_listVars(Loading) /\ WF_listVars(Writing) /\ WF_listVars(Timers)

--------------------------------------------------------------------------------
\* Properties.

\* However slow the answer to an earlier text or of an earlier render is, the list on the
\* page is filled by the newest request only, and that one fills it in the end.
LatestList == INSTANCE LatestAnswer WITH asked <- views[view].newest, shown <- list.no
NewestList == LatestList!Spec
ListShownInTheEnd == LatestList!ShownInTheEnd

Settled == list.no = views[view].newest /\ list.is = "rows"

\* Rows that are not waiting for a newer answer are those of the text in the box, unless
\* the text is yet to be applied ("Results update as you type").
TextIsApplied == Settled /\ ~views[view].due => list.term = views[view].box

\* Labels are printed for the items ticked and, of those on the page, for no others,
\* whatever was searched for meanwhile.
LabelsAreTicked ==
  /\ list.ticks = selected \cap Ids(list.rows)
  /\ labels = Cardinality(selected)

\* What the user created or reactivated is on the list once all is answered.
OwnChangesListed == Settled /\ writes = {} /\ ~lost => list.rows = Found(list.term)

\* The page stops being busy.  Not so: an item list that is empty keeps the mark (app.js:3212).
ListBusyEnds == pageBusy ~> ~pageBusy
================================================================================
