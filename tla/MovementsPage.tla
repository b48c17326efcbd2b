----------------------------- MODULE MovementsPage -----------------------------
\* The movements page (renderMovements in src/js/app.js): a filter form, the results below
\* it, the requests that fill them, and the timers that apply what was typed.  A render is
\* full (form and results are made anew) or reuses the form on the page.
EXTENDS Integers, FiniteSets
CONSTANTS
  MaxSeq,  \* bounds the renders
  Groups   \* transfer groups that rows belong to
MovementsAssumption == MaxSeq \in Nat \ {0} /\ "" \notin Groups

VARIABLES
  seq,        \* _ivMovLoadSeq: the newest render
  reqs,       \* renders whose requests are under way
  busy,       \* aria-busy of the mount and of the results
  shell,      \* the filters the form was made with, or NoShell
  form,       \* what the form shows
  timer,      \* what was typed is yet to be applied
  ghost,      \* the same for a form that was replaced meanwhile: its fields, or NoShell
  results,    \* what is below the form, and whose filters its buttons start from
  overtaken   \* a timer of a replaced form has applied its fields

page == <<shell, form, timer, ghost, results>>
vars == <<seq, reqs, busy, page, overtaken>>

Text == {"", "sku", "junk"}   \* nothing, a text that names one item, one that does not
Kind == {"", "issue"}
NoFilter == [kind |-> "", item |-> "", inverted |-> FALSE, group |-> "", next |-> FALSE]
Filter == [kind: Kind, item: Text \ {"junk"}, inverted: BOOLEAN, group: Groups \cup {""},
           next: BOOLEAN]  \* whether a later page is asked for
\* inverted: "From" is after "To".
Fields(f) == [kind |-> f.kind, item |-> f.item, inverted |-> f.inverted]
Form == [kind: Kind, item: Text, inverted: BOOLEAN]
NoShell == [kind |-> "none"]
NoResults == [seq |-> 0, is |-> "nothing", own |-> FALSE, f |-> NoFilter, error |-> "none"]

TypeOK ==
  /\ seq \in 0..MaxSeq
  /\ \A r \in reqs : r.seq \in 1..seq /\ r.full \in BOOLEAN /\ r.f \in Filter
  /\ busy \in [mount: BOOLEAN, results: BOOLEAN]
  /\ shell \in Filter \cup {NoShell}
  /\ form \in Form /\ ghost \in Form \cup {NoShell}
  /\ results \in [seq: 0..seq, is: {"nothing", "rows", "failure"}, own: BOOLEAN, f: Filter,
                  error: {"none", "dates", "text"}]
  /\ {timer, overtaken} \subseteq BOOLEAN

--------------------------------------------------------------------------------
HasShell == shell # NoShell

Render(f, wantsReuse) ==
  LET full == ~(wantsReuse /\ HasShell) IN
  /\ seq < MaxSeq
  /\ seq' = seq + 1
  /\ reqs' = reqs \cup {[seq |-> seq + 1, full |-> full, f |-> f]}
  /\ busy' = IF full THEN [busy EXCEPT !.mount = TRUE] ELSE [busy EXCEPT !.results = TRUE]

Init ==
  /\ seq = 1 /\ reqs = {[seq |-> 1, full |-> TRUE, f |-> NoFilter]}
  /\ busy = [mount |-> TRUE, results |-> FALSE]
  /\ shell = NoShell /\ form = Fields(NoFilter) /\ ghost = NoShell /\ timer = FALSE
  /\ results = NoResults
  /\ overtaken = FALSE

--------------------------------------------------------------------------------
\* Answers.
\* Broken variant: any answer is taken up.
IsNewestOrNot(r) == TRUE
\* Broken variant: the number is raised once more before it is compared.
IsNewerStill(r) == r.seq > seq
IsNewest(r) == r.seq = seq

Dropped(r) ==
  /\ r \in reqs /\ ~IsNewest(r)
  /\ reqs' = reqs \ {r}
  /\ UNCHANGED <<seq, busy, page, overtaken>>

\* A form on the page is replaced; a timer of it goes on with the fields it had.
Replaced == /\ ghost' = IF timer THEN form ELSE ghost
            /\ timer' = FALSE

PaintFull(r) ==
  /\ r \in reqs /\ IsNewest(r) /\ r.full
  /\ reqs' = reqs \ {r}
  /\ busy' = [mount |-> FALSE, results |-> FALSE]
  /\ shell' = r.f /\ form' = Fields(r.f) /\ Replaced
  /\ results' = [seq |-> r.seq, is |-> "rows", own |-> FALSE, f |-> r.f, error |-> "none"]
  /\ UNCHANGED <<seq, overtaken>>

\* Broken variant: the results stay busy.
PaintResultsBusy(r) ==
  /\ r \in reqs /\ IsNewest(r) /\ ~r.full
  /\ reqs' = reqs \ {r}
  /\ results' = [results EXCEPT !.seq = r.seq, !.is = "rows", !.own = TRUE, !.f = r.f]
  /\ UNCHANGED <<seq, busy, shell, form, timer, ghost, overtaken>>
PaintResults(r) ==
  /\ r \in reqs /\ IsNewest(r) /\ ~r.full
  /\ reqs' = reqs \ {r}
  /\ busy' = [busy EXCEPT !.results = FALSE]
  /\ results' = [results EXCEPT !.seq = r.seq, !.is = "rows", !.own = TRUE, !.f = r.f]
  /\ UNCHANGED <<seq, shell, form, timer, ghost, overtaken>>

Fails(r) ==
  /\ r \in reqs /\ IsNewest(r)
  /\ reqs' = reqs \ {r}
  /\ busy' = [mount |-> FALSE, results |-> FALSE]
  /\ results' = [results EXCEPT !.seq = r.seq, !.is = "failure"]
  /\ IF r.full THEN Replaced /\ shell' = NoShell ELSE UNCHANGED <<shell, ghost, timer>>
  /\ UNCHANGED <<seq, form, overtaken>>

--------------------------------------------------------------------------------
\* The form.
Says(error) == results' = [results EXCEPT !.error = error]

\* readFilters of the form, and readFiltersFn of results that a reusing render painted:
\* kind and dates as the form shows them, the rest as the render had it.
\* Broken variant: kind and dates are those of the render too.
StaleFilters(base, extra) == [extra EXCEPT !.kind = base.kind, !.inverted = base.inverted]
ReadFilters(base, extra) == [extra EXCEPT !.kind = form.kind, !.inverted = form.inverted]
Base == IF results.own THEN results.f ELSE shell

\* applyFilters: a range that runs backwards or a text that names nothing is told instead.
Applied(fields, group) == [kind |-> fields.kind, item |-> fields.item, inverted |-> FALSE,
                           group |-> group, next |-> FALSE]
Complaint(fields) == IF fields.inverted THEN "dates"
                     ELSE IF fields.item = "junk" THEN "text" ELSE "none"

Apply(fields) ==
  /\ Says(Complaint(fields))
  /\ IF Complaint(fields) = "none" THEN Render(Applied(fields, shell.group), TRUE)
                                   ELSE UNCHANGED <<seq, reqs, busy>>

PickKind(k) ==
  /\ HasShell /\ k # form.kind
  /\ form' = [form EXCEPT !.kind = k]
  /\ Apply([form EXCEPT !.kind = k])
  /\ UNCHANGED <<shell, timer, ghost, overtaken>>

PickDates(inverted) ==
  /\ HasShell /\ inverted # form.inverted
  /\ form' = [form EXCEPT !.inverted = inverted]
  /\ Apply([form EXCEPT !.inverted = inverted])
  /\ UNCHANGED <<shell, timer, ghost, overtaken>>

Type(text) ==
  /\ HasShell /\ text # form.item
  /\ ghost = NoShell  \* bound: one timer of replaced forms
  /\ form' = [form EXCEPT !.item = text] /\ timer' = TRUE
  /\ UNCHANGED <<seq, reqs, busy, shell, ghost, results, overtaken>>

ClickApply == /\ HasShell /\ Apply(form)
              /\ UNCHANGED <<shell, form, timer, ghost, overtaken>>

\* tryAutoApplyFilters: a text that names nothing yet is left alone.
TimerFires ==
  /\ timer /\ timer' = FALSE
  /\ IF ~form.inverted /\ form.item = "junk" THEN UNCHANGED <<seq, reqs, busy, results>>
                                             ELSE Apply(form)
  /\ UNCHANGED <<shell, form, ghost, overtaken>>

\* The timer of a replaced form applies that form's fields, over the new one.
GhostFires ==
  /\ ghost # NoShell /\ ghost' = NoShell
  /\ IF Complaint(ghost) = "none"
     THEN Render(Applied(ghost, ""), TRUE) /\ overtaken' = TRUE
     ELSE UNCHANGED <<seq, reqs, busy, overtaken>>
  /\ UNCHANGED <<shell, form, timer, results>>

\* Clear, Retry and the refresh after a booking.
RenderAnew == Render(NoFilter, FALSE) /\ UNCHANGED <<page, overtaken>>

\* The buttons among the results: a row's transfer group, another page.
ClickGroup(g) ==
  /\ HasShell /\ results.is = "rows"
  /\ Render(ReadFilters(Base, [Base EXCEPT !.group = g, !.next = FALSE]), TRUE)
  /\ UNCHANGED <<page, overtaken>>

TurnPage ==
  /\ HasShell /\ results.is = "rows"
  /\ Render(ReadFilters(Base, [Base EXCEPT !.next = ~results.f.next]), TRUE)
  /\ UNCHANGED <<page, overtaken>>

--------------------------------------------------------------------------------
Answer == \E r \in reqs : Dropped(r) \/ PaintFull(r) \/ PaintResults(r) \/ Fails(r)
Timers == TimerFires \/ GhostFires
User == \/ RenderAnew \/ ClickApply \/ TurnPage
        \/ (\E k \in Kind : PickKind(k)) \/ (\E b \in BOOLEAN : PickDates(b))
        \/ (\E t \in Text : Type(t)) \/ (\E g \in Groups : ClickGroup(g))

Next == Answer \/ Timers \/ User
Spec == Init /\ [][Next]_vars
\* Requests are answered or fail, and timers fire.
FairSpec == Spec /\ WF_vars(Answer) /\ WF_vars(Timers)

--------------------------------------------------------------------------------
\* Properties.

\* Results and failures are those of the newest render at the time, never of an older one
\* whose answer was slow.
LatestSpec == INSTANCE LatestAnswer WITH asked <- seq, shown <- results.seq
NewestIsShown == LatestSpec!Spec

\* ... and the newest render's are shown in the end.
ShownInTheEnd == LatestSpec!ShownInTheEnd

\* The results stop being busy (setBusy; a render that overtakes another ends it too).
ResultsBusyEnds == busy.results ~> ~busy.results

\* The page as a whole does too.  Not so: a full render marks it (app.js:4123), and the render
\* with the form as it is that overtakes it unmarks the results only (app.js:4196).
MountBusyEnds == busy.mount ~> ~busy.mount

\* When the newest results are shown and the form complains of nothing, they are of the
\* kind and dates the form shows, whichever button asked for them (readFilters reads both
\* from the form) - until a timer of a replaced form has fired.
Settled == results.seq = seq /\ results.is = "rows" /\ results.error = "none"
KindAndDatesAreTold ==
  Settled /\ ~overtaken =>
    results.f.kind = form.kind /\ results.f.inverted = form.inverted
================================================================================
