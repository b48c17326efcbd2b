---------------------------- MODULE BookingDialogs ----------------------------
\* The modal dialogs of one page (dialog in src/js/app.js) and the booking form that opens
\* in them after its masters are loaded (openMovementDialog).
EXTENDS Integers, FiniteSets
CONSTANTS
  Dialogs,  \* as many as may be loading, open or waiting for an answer at once
  Items,    \* the items the form lists
  Tracked,  \* those with lots or serial numbers
  None      \* nothing chosen

DialogAssumption == Tracked \subseteq Items /\ None \notin Items

VARIABLES
  dlg,      \* each dialog from the click that asks for it to its last answer
  inert,    \* header, navigation and content take no input
  locked,   \* the page does not scroll
  opening,  \* movementDialogOpening
  rules     \* requireAdjustReason and requireLocationScan
vars == <<dlg, inert, locked, opening, rules>>

Kinds == {"receive", "issue", "transfer", "adjust"}
NoDialog == [st |-> "idle", kind |-> "plain", quick |-> FALSE, full |-> FALSE, item |-> None,
             lot |-> FALSE, code |-> None, post |-> "no"]
\* A dialog is "gone" when it is closed while a post or a code lookup of it is unanswered.
Dialog == [st: {"idle", "fetch", "masters", "reasons", "open", "gone"},
           kind: Kinds \cup {"plain"}, quick: BOOLEAN, full: BOOLEAN, item: Items \cup {None},
           lot: BOOLEAN, code: Items \cup {None}, post: {"no", "sent"}]

\* A dialog that is over leaves nothing behind.
TypeOK == /\ dlg \in [Dialogs -> Dialog]
          /\ \A d \in Dialogs : dlg[d].st = "idle" => dlg[d] = NoDialog
          /\ {inert, locked, opening} \subseteq BOOLEAN
          /\ rules \in [reason: BOOLEAN, scan: BOOLEAN]

Init ==
  /\ dlg = [d \in Dialogs |-> NoDialog]
  /\ inert = FALSE /\ locked = FALSE /\ opening = FALSE
  /\ rules \in [reason: BOOLEAN, scan: BOOLEAN]

Idle == {d \in Dialogs : dlg[d].st = "idle"}
Overlays == {d \in Dialogs : dlg[d].st = "open"}
IsBooking(d) == dlg[d].kind \in Kinds

--------------------------------------------------------------------------------
\* dialog and its close.
Closed(r) == IF r.post = "no" /\ r.code = None THEN NoDialog ELSE [r EXCEPT !.st = "gone"]

\* Broken variant: what is open stays open.
ShowOver(d, r) ==
  /\ dlg' = [dlg EXCEPT ![d] = [r EXCEPT !.st = "open"]]
  /\ locked' = TRUE /\ inert' = TRUE /\ opening' = FALSE
  /\ UNCHANGED rules

\* Single-overlay guard: the dialog that is open is closed first.
Show(d, r) ==
  LET open == IF Overlays = {} THEN {} ELSE {CHOOSE e \in Overlays : TRUE} IN
  /\ dlg' = [e \in Dialogs |-> CASE e = d -> [r EXCEPT !.st = "open"]
                                 [] e \in open -> Closed(dlg[e])
                                 [] OTHER -> dlg[e]]
  /\ locked' = TRUE /\ inert' = TRUE /\ opening' = FALSE
  /\ UNCHANGED rules

\* Broken variant: the page stays locked.
FreedButLocked == UNCHANGED locked /\ inert' = (inert /\ opening)
\* What a closing overlay gives back; the chrome stays inert for a form on its way.
Freed == /\ locked' = FALSE
         /\ inert' = (inert /\ opening)

\* Cross, Cancel, Escape and backdrop, also while a post is under way.
Close(d) ==
  /\ dlg[d].st = "open"
  /\ dlg' = [dlg EXCEPT ![d] = Closed(@)]
  /\ Freed
  /\ UNCHANGED <<opening, rules>>

OpenAtOnce(d) == ~inert /\ d \in Idle /\ Show(d, NoDialog)

\* Dialogs that fetch before they open leave the page usable; their trigger is disabled.
OpenLater(d) ==
  /\ ~inert /\ d \in Idle
  /\ \A e \in Dialogs : dlg[e].st # "fetch"
  /\ dlg' = [dlg EXCEPT ![d].st = "fetch"]
  /\ UNCHANGED <<inert, locked, opening, rules>>

FetchAnswered(d) == dlg[d].st = "fetch" /\ Show(d, dlg[d])
FetchFails(d) ==
  /\ dlg[d].st = "fetch"
  /\ dlg' = [dlg EXCEPT ![d] = NoDialog]
  /\ UNCHANGED <<inert, locked, opening, rules>>

--------------------------------------------------------------------------------
\* openMovementDialog.
Loading(kind, item, full) ==
  [NoDialog EXCEPT !.st = "masters", !.kind = kind, !.item = item, !.full = full]

OpenBooking(d, kind, item) ==
  /\ ~inert /\ d \in Idle
  /\ dlg' = [dlg EXCEPT ![d] = Loading(kind, item, FALSE)]
  /\ opening' = TRUE /\ inert' = TRUE
  /\ UNCHANGED <<locked, rules>>

\* Broken variant: the barcodes a scan policy asks for do not matter.
ConfirmOnlyUnscanned(r) ==
  /\ ~r.full /\ r.item # None /\ r.item \notin Tracked
  /\ ~(r.kind = "adjust" /\ rules.reason)
\* The short form: item and location are known and nothing else must be filled in.
ConfirmOnly(r) ==
  /\ ~r.full /\ r.item # None /\ r.item \notin Tracked
  /\ ~(r.kind = "adjust" /\ rules.reason)
  /\ ~(r.kind \in {"issue", "transfer"} /\ rules.scan)

MastersAnswered(d) ==
  LET r == [dlg[d] EXCEPT !.quick = ConfirmOnly(dlg[d])] IN
  /\ dlg[d].st = "masters"
  /\ IF r.kind = "adjust" /\ rules.reason /\ ~r.quick
     THEN dlg' = [dlg EXCEPT ![d] = [r EXCEPT !.st = "reasons"]]
          /\ UNCHANGED <<inert, locked, opening, rules>>
     ELSE Show(d, r)

\* Broken variant: the flag is taken back, the chrome is not.
MastersFailInert(d) ==
  /\ dlg[d].st = "masters"
  /\ dlg' = [dlg EXCEPT ![d] = NoDialog]
  /\ opening' = FALSE
  /\ UNCHANGED <<inert, locked, rules>>
MastersFail(d) ==
  /\ dlg[d].st = "masters"
  /\ dlg' = [dlg EXCEPT ![d] = NoDialog]
  /\ opening' = FALSE
  /\ inert' = (inert /\ Overlays # {})
  /\ UNCHANGED <<locked, rules>>

\* The reason codes come or do not; the form opens either way.
ReasonsAnswered(d) == dlg[d].st = "reasons" /\ Show(d, dlg[d])

\* syncLotVisibility: another item hides and empties the lot field it does not need.
\* Broken variant: the change event is not sent.
ChosenSilently(r, i) == [r EXCEPT !.item = i]
Chosen(r, i) == [r EXCEPT !.item = i, !.lot = @ /\ i \in Tracked]

FullForm(d) == dlg[d].st = "open" /\ IsBooking(d) /\ ~dlg[d].quick
Edit(d, r) == dlg' = [dlg EXCEPT ![d] = r] /\ UNCHANGED <<inert, locked, opening, rules>>

PickItem(d, i) == FullForm(d) /\ Edit(d, Chosen(dlg[d], i))
TypeLot(d) == FullForm(d) /\ dlg[d].item \in Tracked /\ Edit(d, [dlg[d] EXCEPT !.lot = TRUE])

EnterCode(d, i) ==
  FullForm(d) /\ dlg[d].code = None /\ Edit(d, [dlg[d] EXCEPT !.code = i])
\* The lookup's answer is used whatever was picked since; an item beyond the listed ones
\* leaves the selection empty.
CodeAnswered(d) ==
  /\ dlg[d].code # None
  /\ \E i \in {dlg[d].code, None} :
       LET r == [Chosen(dlg[d], i) EXCEPT !.code = None] IN
       Edit(d, IF r.st = "gone" THEN Closed(r) ELSE r)
CodeFails(d) ==
  /\ dlg[d].code # None
  /\ LET r == [dlg[d] EXCEPT !.code = None] IN Edit(d, IF r.st = "gone" THEN Closed(r) ELSE r)

--------------------------------------------------------------------------------
\* Confirm disables itself until its request is answered.
Confirm(d) ==
  /\ dlg[d].st = "open" /\ dlg[d].post = "no"
  /\ IsBooking(d) => dlg[d].item # None
  /\ Edit(d, [dlg[d] EXCEPT !.post = "sent"])

\* The page is rendered anew (refreshAfterMutation) and the dialog closes, if it is open.
PostAccepted(d) ==
  /\ dlg[d].post = "sent"
  /\ dlg' = [dlg EXCEPT ![d] = Closed([@ EXCEPT !.post = "no"])]
  /\ IF dlg[d].st = "open" THEN Freed ELSE UNCHANGED <<inert, locked>>
  /\ UNCHANGED <<opening, rules>>

\* A refused dialog stays open with what was typed.
PostRefused(d) ==
  /\ dlg[d].post = "sent"
  /\ LET r == [dlg[d] EXCEPT !.post = "no"] IN Edit(d, IF r.st = "gone" THEN Closed(r) ELSE r)

\* "Change item or location" closes the short form, even while its post is under way, and
\* opens the full one with what was chosen.
Change(d, e) ==
  /\ dlg[d].st = "open" /\ dlg[d].quick
  /\ e \in Idle
  /\ dlg' = [dlg EXCEPT ![d] = Closed(@), ![e] = Loading(dlg[d].kind, dlg[d].item, TRUE)]
  /\ opening' = TRUE /\ inert' = TRUE /\ locked' = FALSE
  /\ UNCHANGED rules

--------------------------------------------------------------------------------
Answer(d) == \/ FetchAnswered(d) \/ FetchFails(d) \/ MastersAnswered(d) \/ MastersFail(d)
             \/ ReasonsAnswered(d) \/ CodeAnswered(d) \/ CodeFails(d)
             \/ PostAccepted(d) \/ PostRefused(d)
User(d) == \/ OpenAtOnce(d) \/ OpenLater(d) \/ Close(d) \/ TypeLot(d) \/ Confirm(d)
           \/ (\E k \in Kinds, i \in Items \cup {None} : OpenBooking(d, k, i))
           \/ (\E i \in Items : PickItem(d, i) \/ EnterCode(d, i))
           \/ (\E e \in Dialogs \ {d} : Change(d, e))

Next == \E d \in Dialogs : Answer(d) \/ User(d)
Spec == Init /\ [][Next]_vars
\* Every request is answered or fails.
FairSpec == Spec /\ \A d \in Dialogs : WF_vars(Answer(d))

--------------------------------------------------------------------------------
\* Properties.

\* However forms that were asked for before arrive, one dialog is on the screen ("a second
\* booking dialog while one is open causes Change/Close to hit the wrong node").
OneDialog == Cardinality(Overlays) <= 1

\* The page behind a dialog takes no input, and scrolls exactly when there is none.
DialogIsModal == /\ Overlays # {} => inert
                 /\ locked = (Overlays # {})

\* The page is inert without a dialog only while a booking form is on its way.
NeverLockedOut ==
  inert /\ Overlays = {} => \E d \in Dialogs : dlg[d].st \in {"masters", "reasons"}

\* ... and that comes to an end.
WaitEnds == (inert /\ Overlays = {}) ~> (~inert \/ Overlays # {})

\* The short form is shown only where it can be confirmed: it has no field for a reason
\* code, a lot or the barcode of a location.
ShortFormSuffices ==
  \A d \in Overlays : dlg[d].quick =>
    /\ dlg[d].item \notin Tracked
    /\ dlg[d].kind = "adjust" => ~rules.reason
    /\ dlg[d].kind \in {"issue", "transfer"} => ~rules.scan

\* A lot is sent only with an item that has lots, also when a code lookup that was slower
\* than the user changes the item.
LotFitsItem == \A d \in Dialogs : dlg[d].lot => dlg[d].item \in Tracked
================================================================================
