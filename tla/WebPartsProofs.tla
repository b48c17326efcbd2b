----------------------------- MODULE WebPartsProofs -----------------------------
(***************************************************************************)
(* What WebParts asks of each part, for any number of dialogs, checks,     *)
(* lookups, fields, messages, links and users.  One section for each part: *)
(* what it keeps true besides its properties, and that each of its steps   *)
(* does.                                                                   *)
(***************************************************************************)
EXTENDS WebParts, FiniteSetTheorems, SequenceTheorems, TLAPS

--------------------------------------------------------------------------------
\* Booking dialogs.

\* A dialog on its way has nothing filled in, a short form suffices, a lot fits the item.
FormOk(r, law) ==
  /\ r \in Booking!Dialog
  /\ r.st = "idle" => r = Booking!NoDialog
  /\ r.st \in {"fetch", "masters", "reasons"} =>
       ~r.quick /\ ~r.lot /\ r.code = None /\ r.post = "no"
  /\ r.quick => /\ r.item \notin Tracked /\ r.code = None
                /\ r.kind = "adjust" => ~law.reason
                /\ r.kind \in {"issue", "transfer"} => ~law.scan
  /\ r.lot => r.item \in Tracked

\* One dialog at most is open, it alone locks the page, and what else makes the page inert
\* is a form on its way.
Coming(r) == r.st \in {"masters", "reasons"}
OverlayInv ==
  /\ \A d, e \in Booking!Overlays : d = e
  /\ locked = (Booking!Overlays # {})
  /\ Booking!Overlays # {} => inert
  /\ inert /\ Booking!Overlays = {} => opening
  /\ opening => \E d \in Dialogs : Coming(dlg[d])

FormsOk ==
  /\ dlg = [d \in Dialogs |-> dlg[d]]
  /\ \A d \in Dialogs : FormOk(dlg[d], rules)
  /\ rules \in [reason: BOOLEAN, scan: BOOLEAN]
FlagsTyped == {inert, locked, opening} \subseteq BOOLEAN
BookingInv == FormsOk /\ FlagsTyped /\ OverlayInv

\* The empty form, a form that is closed, and one that is filled in further.
LEMMA EmptyForm ==
  ASSUME PartsAssumption, NEW law
  PROVE  FormOk(Booking!NoDialog, law) /\ Booking!NoDialog.st = "idle"
BY DEF FormOk, Booking!NoDialog, Booking!Dialog, Booking!Kinds, PartsAssumption,
       Booking!DialogAssumption

LEMMA ClosedForm ==
  ASSUME PartsAssumption, NEW r, NEW law, FormOk(r, law), r.st \in {"open", "gone"}
  PROVE  FormOk(Booking!Closed(r), law) /\ Booking!Closed(r).st \in {"idle", "gone"}
<1>1. r \in Booking!Dialog
  BY DEF FormOk
<1> DEFINE s == [r EXCEPT !.st = "gone"]
<1>2. /\ s \in Booking!Dialog /\ s.st = "gone" /\ s.quick = r.quick /\ s.item = r.item
      /\ s.lot = r.lot /\ s.code = r.code /\ s.kind = r.kind
  BY <1>1 DEF Booking!Dialog
<1>3. FormOk(s, law)
  BY <1>2 DEF FormOk
<1>4. FormOk(Booking!NoDialog, law) /\ Booking!NoDialog.st = "idle"
  BY EmptyForm
<1>5. Booking!Closed(r) = Booking!NoDialog \/ Booking!Closed(r) = s
  BY DEF Booking!Closed
<1> QED BY ONLY <1>2, <1>3, <1>4, <1>5

LEMMA FilledForm ==
  ASSUME NEW r, NEW s \in Booking!Dialog, NEW law, FormOk(r, law),
         r.st \in {"open", "gone"}, s.st = r.st, s.kind = r.kind, s.quick = r.quick,
         s.quick => s.item = r.item /\ s.code = None,
         s.lot => s.item \in Tracked
  PROVE  FormOk(s, law)
BY DEF FormOk

\* One form changes and the others stay as they are.
OneForm(d, s) ==
  /\ FormsOk'
  /\ dlg'[d] = s /\ \A e \in Dialogs \ {d} : dlg'[e] = dlg[e]
  /\ Booking!Overlays' = IF s.st = "open" THEN Booking!Overlays \cup {d}
                         ELSE Booking!Overlays \ {d}

LEMMA OneChanges ==
  ASSUME FormsOk, NEW d \in Dialogs, NEW s, FormOk(s, rules),
         dlg' = [dlg EXCEPT ![d] = s], rules' = rules
  PROVE  OneForm(d, s)
<1>1. dlg'[d] = s /\ \A e \in Dialogs \ {d} : dlg'[e] = dlg[e]
  BY DEF FormsOk
<1>2. dlg' = [e \in Dialogs |-> dlg'[e]]
  BY DEF FormsOk
<1>3. FormsOk'
  BY <1>1, <1>2 DEF FormsOk
<1>4. Booking!Overlays' = IF s.st = "open" THEN Booking!Overlays \cup {d}
                          ELSE Booking!Overlays \ {d}
  <2>1. Booking!Overlays = {e \in Dialogs : dlg[e].st = "open"}
    BY DEF Booking!Overlays
  <2>2. Booking!Overlays' = {e \in Dialogs : dlg'[e].st = "open"}
    BY DEF Booking!Overlays
  <2> QED BY <1>1, <2>1, <2>2
<1> QED BY <1>1, <1>3, <1>4 DEF OneForm

\* A form that is changed stays where it is.
LEMMA EditKeeps ==
  ASSUME BookingInv, NEW d \in Dialogs, NEW s, FormOk(s, rules), Booking!Edit(d, s),
         dlg[d].st = "open" <=> s.st = "open", ~Coming(dlg[d])
  PROVE  BookingInv'
<1>1. OneForm(d, s)
  BY OneChanges DEF BookingInv, Booking!Edit
<1>2. Booking!Overlays' = Booking!Overlays
  BY <1>1 DEF OneForm, Booking!Overlays
<1>3. \A e \in Dialogs : Coming(dlg[e]) => e # d /\ dlg'[e] = dlg[e]
  BY <1>1 DEF OneForm
<1>4. OverlayInv'
  <2>1. opening' => \E e \in Dialogs : Coming(dlg'[e])
    BY <1>3 DEF BookingInv, OverlayInv, Booking!Edit
  <2> QED BY <1>2, <2>1 DEF BookingInv, OverlayInv, Booking!Edit
<1> QED BY <1>1, <1>4 DEF BookingInv, OneForm, FlagsTyped, Booking!Edit

\* A form that was on the screen or in the background goes on its way out.
LEMMA ClosedKeeps ==
  ASSUME BookingInv, NEW d \in Dialogs, NEW s, FormOk(s, rules), s.st \in {"idle", "gone"},
         dlg' = [dlg EXCEPT ![d] = s], ~Coming(dlg[d]),
         IF dlg[d].st = "open" THEN Booking!Freed ELSE UNCHANGED <<inert, locked>>,
         UNCHANGED <<opening, rules>>
  PROVE  BookingInv'
<1>1. OneForm(d, s)
  BY OneChanges DEF BookingInv
<1>2. Booking!Overlays' = Booking!Overlays \ {d}
  BY <1>1 DEF OneForm
<1>3. \A e \in Dialogs : Coming(dlg[e]) => e # d /\ dlg'[e] = dlg[e]
  BY <1>1 DEF OneForm
<1>4. opening' => \E e \in Dialogs : Coming(dlg'[e])
  BY <1>3 DEF BookingInv, OverlayInv
<1>5. CASE dlg[d].st = "open"
  <2>1. d \in Booking!Overlays
    BY <1>5 DEF Booking!Overlays
  <2>2. Booking!Overlays' = {}
    BY <1>2, <2>1 DEF BookingInv, OverlayInv
  <2>3. locked' = FALSE /\ inert' = (inert /\ opening)
    BY <1>5 DEF Booking!Freed
  <2> QED BY <1>1, <1>4, <2>2, <2>3 DEF BookingInv, OneForm, FlagsTyped, OverlayInv
<1>6. CASE dlg[d].st # "open"
  <2>1. Booking!Overlays' = Booking!Overlays
    BY <1>2, <1>6 DEF Booking!Overlays
  <2> QED BY <1>1, <1>4, <1>6, <2>1 DEF BookingInv, OneForm, FlagsTyped, OverlayInv
<1> QED BY <1>5, <1>6

\* The dialog that opens is the one that is open.
LEMMA ShowKeeps ==
  ASSUME PartsAssumption, BookingInv, NEW d \in Dialogs, NEW r,
         FormOk([r EXCEPT !.st = "open"], rules), [r EXCEPT !.st = "open"].st = "open",
         dlg[d].st # "open", Booking!Show(d, r)
  PROVE  BookingInv'
<1> DEFINE s == [r EXCEPT !.st = "open"]
           under == IF Booking!Overlays = {} THEN {} ELSE {CHOOSE e \in Booking!Overlays : TRUE}
<1>1. /\ dlg' = [e \in Dialogs |-> CASE e = d -> s
                                     [] e \in under -> Booking!Closed(dlg[e])
                                     [] OTHER -> dlg[e]]
      /\ locked' = TRUE /\ inert' = TRUE /\ opening' = FALSE /\ rules' = rules
  BY DEF Booking!Show
<1>2. under = Booking!Overlays
  BY DEF BookingInv, OverlayInv
<1>3. FormOk(s, rules) /\ s.st = "open"
  OBVIOUS
<1> HIDE DEF s, under
<1>4. d \notin under
  BY <1>2 DEF Booking!Overlays
<1>5. dlg'[d] = s /\ \A e \in Dialogs \ {d} :
        dlg'[e] = IF e \in under THEN Booking!Closed(dlg[e]) ELSE dlg[e]
  BY <1>1, <1>4
<1>6. \A e \in under : FormOk(Booking!Closed(dlg[e]), rules)
                      /\ Booking!Closed(dlg[e]).st \in {"idle", "gone"}
  BY <1>2, ClosedForm DEF Booking!Overlays, BookingInv, FormsOk
<1>7. FormsOk'
  <2>1. dlg' = [e \in Dialogs |-> dlg'[e]]
    BY <1>1
  <2>2. \A e \in Dialogs : FormOk(dlg'[e], rules)
    BY <1>3, <1>5, <1>6 DEF BookingInv, FormsOk
  <2> QED BY <1>1, <2>1, <2>2 DEF BookingInv, FormsOk
<1>8. Booking!Overlays' = {d}
  <2>1. \A e \in Dialogs : dlg'[e].st = "open" <=> e = d
    BY <1>2, <1>3, <1>5, <1>6 DEF Booking!Overlays
  <2> QED BY <2>1 DEF Booking!Overlays
<1> QED BY <1>1, <1>7, <1>8 DEF BookingInv, FlagsTyped, OverlayInv

LEMMA BookingStart == PartsAssumption /\ Booking!Init => BookingInv
<1> SUFFICES ASSUME PartsAssumption, Booking!Init
             PROVE  BookingInv
  OBVIOUS
<1>1. \A d \in Dialogs : dlg[d] = Booking!NoDialog
  BY DEF Booking!Init
<1>2. FormsOk
  BY <1>1, EmptyForm DEF Booking!Init, FormsOk
<1>3. Booking!Overlays = {}
  BY <1>1, EmptyForm DEF Booking!Overlays
<1> QED BY <1>2, <1>3 DEF BookingInv, FlagsTyped, OverlayInv, Booking!Init

\* A form that is asked for.
Asked(s) ==
  /\ s \in Booking!Dialog /\ s.st # "idle" /\ s.st # "open" /\ s.st # "gone"
  /\ ~s.quick /\ ~s.lot /\ s.code = None /\ s.post = "no"

LEMMA BookingOpens ==
  ASSUME PartsAssumption, BookingInv, NEW d \in Dialogs,
         \/ Booking!OpenAtOnce(d) \/ Booking!OpenLater(d)
         \/ \E k \in Booking!Kinds, i \in Items \cup {None} : Booking!OpenBooking(d, k, i)
  PROVE  BookingInv'
<1>1. dlg[d] = Booking!NoDialog /\ dlg[d].st = "idle" /\ ~inert
  BY EmptyForm DEF BookingInv, FormsOk, FormOk, Booking!OpenAtOnce, Booking!OpenLater,
                   Booking!OpenBooking, Booking!Idle
<1>2. Booking!NoDialog \in Booking!Dialog
  BY EmptyForm DEF FormOk
<1>3. ASSUME NEW s, Asked(s)
      PROVE  FormOk(s, rules)
  BY <1>3 DEF FormOk, Asked
<1>4. Booking!Overlays = {}
  BY <1>1 DEF BookingInv, OverlayInv
<1>5. CASE Booking!OpenAtOnce(d)
  <2> DEFINE s == [Booking!NoDialog EXCEPT !.st = "open"]
  <2>1. s \in Booking!Dialog /\ s.st = "open" /\ ~s.quick /\ ~s.lot
    BY <1>2 DEF Booking!Dialog, Booking!NoDialog
  <2>2. FormOk(s, rules)
    BY <2>1 DEF FormOk
  <2> QED BY <1>1, <1>5, <2>1, <2>2, ShowKeeps DEF Booking!OpenAtOnce
<1>6. CASE Booking!OpenLater(d)
  <2> DEFINE s == [Booking!NoDialog EXCEPT !.st = "fetch"]
  <2>1. Asked(s) /\ s.st = "fetch"
    BY <1>2 DEF Asked, Booking!Dialog, Booking!NoDialog
  <2>2. FormOk(s, rules)
    BY <1>3, <2>1
  <2>3. Booking!Edit(d, s)
    BY <1>1, <1>6 DEF Booking!OpenLater, Booking!Edit
  <2> QED BY <1>1, <2>1, <2>2, <2>3, EditKeeps DEF Coming
<1>7. ASSUME NEW k \in Booking!Kinds, NEW i \in Items \cup {None}, Booking!OpenBooking(d, k, i)
      PROVE  BookingInv'
  <2> DEFINE s == Booking!Loading(k, i, FALSE)
  <2>1. Asked(s) /\ s.st = "masters"
    BY <1>2 DEF Asked, Booking!Dialog, Booking!NoDialog, Booking!Loading
  <2>2. FormOk(s, rules)
    BY <1>3, <2>1
  <2> HIDE DEF s
  <2>3. OneForm(d, s)
    BY <1>7, <2>2, OneChanges DEF BookingInv, Booking!OpenBooking, s
  <2>4. Booking!Overlays' = {}
    BY <1>4, <2>1, <2>3 DEF OneForm
  <2>5. Coming(dlg'[d])
    BY <2>1, <2>3 DEF OneForm, Coming
  <2> QED BY <1>4, <1>7, <2>3, <2>4, <2>5
          DEF BookingInv, OneForm, FlagsTyped, OverlayInv, Booking!OpenBooking
<1> QED BY <1>5, <1>6, <1>7

LEMMA BookingArrives ==
  ASSUME PartsAssumption, BookingInv, NEW d \in Dialogs,
         \/ Booking!FetchAnswered(d) \/ Booking!FetchFails(d) \/ Booking!MastersAnswered(d)
         \/ Booking!MastersFail(d) \/ Booking!ReasonsAnswered(d)
  PROVE  BookingInv'
<1> DEFINE r == dlg[d]
<1>1. FormOk(r, rules) /\ r \in Booking!Dialog
  BY DEF BookingInv, FormsOk, FormOk
<1>2. /\ r.st \in {"fetch", "masters", "reasons"}
      /\ ~r.quick /\ ~r.lot /\ r.code = None /\ r.post = "no"
  BY <1>1 DEF FormOk, Booking!FetchAnswered, Booking!FetchFails, Booking!MastersAnswered,
              Booking!MastersFail, Booking!ReasonsAnswered
<1>3. CASE Booking!FetchAnswered(d) \/ Booking!ReasonsAnswered(d)
  <2> DEFINE s == [r EXCEPT !.st = "open"]
  <2>1. s \in Booking!Dialog /\ s.st = "open" /\ ~s.quick /\ ~s.lot
    BY <1>1, <1>2 DEF Booking!Dialog
  <2>2. FormOk(s, rules)
    BY <2>1 DEF FormOk
  <2>3. Booking!Show(d, r)
    BY <1>3 DEF Booking!FetchAnswered, Booking!ReasonsAnswered
  <2> QED BY <1>2, <2>1, <2>2, <2>3, ShowKeeps
<1>4. CASE Booking!FetchFails(d)
  <2>1. Booking!Edit(d, Booking!NoDialog) /\ r.st = "fetch"
    BY <1>4 DEF Booking!FetchFails, Booking!Edit
  <2> QED BY <2>1, EditKeeps, EmptyForm DEF Coming
<1>5. CASE Booking!MastersFail(d)
  <2> DEFINE s == Booking!NoDialog
  <2>1. OneForm(d, s)
    BY <1>5, EmptyForm, OneChanges DEF BookingInv, Booking!MastersFail
  <2>2. Booking!Overlays' = Booking!Overlays
    BY <1>5, <2>1, EmptyForm DEF OneForm, Booking!Overlays, Booking!MastersFail
  <2> QED BY <1>5, <2>1, <2>2
          DEF BookingInv, OneForm, FlagsTyped, OverlayInv, Booking!MastersFail
<1>6. CASE Booking!MastersAnswered(d)
  <2> DEFINE q == [r EXCEPT !.quick = Booking!ConfirmOnly(r)]
             s == [q EXCEPT !.st = "open"]
             w == [q EXCEPT !.st = "reasons"]
  <2>1. Booking!ConfirmOnly(r) \in BOOLEAN
    BY DEF Booking!ConfirmOnly
  <2>2. /\ q \in Booking!Dialog /\ q.quick = Booking!ConfirmOnly(r) /\ q.kind = r.kind
        /\ q.item = r.item /\ q.code = None /\ ~q.lot /\ q.post = "no"
    BY <1>1, <1>2, <2>1 DEF Booking!Dialog
  <2>3. \/ /\ r.kind = "adjust" /\ ~q.quick
           /\ dlg' = [dlg EXCEPT ![d] = w] /\ UNCHANGED <<inert, locked, opening, rules>>
        \/ Booking!Show(d, q)
    BY <1>6, <2>2 DEF Booking!MastersAnswered
  <2> HIDE DEF q
  <2>4. CASE Booking!Show(d, q)
    <3>1. /\ s \in Booking!Dialog /\ s.st = "open" /\ s.quick = q.quick /\ s.kind = q.kind
          /\ s.item = q.item /\ s.code = q.code /\ s.lot = q.lot
      BY <2>2 DEF Booking!Dialog
    <3>2. FormOk(s, rules)
      BY <2>2, <3>1 DEF FormOk, Booking!ConfirmOnly
    <3> QED BY <1>2, <2>4, <3>1, <3>2, ShowKeeps
  <2>5. CASE /\ r.kind = "adjust" /\ ~q.quick
             /\ dlg' = [dlg EXCEPT ![d] = w] /\ UNCHANGED <<inert, locked, opening, rules>>
    <3>1. /\ w \in Booking!Dialog /\ w.st = "reasons" /\ w.quick = q.quick
          /\ w.code = q.code /\ w.lot = q.lot /\ w.post = q.post
      BY <2>2 DEF Booking!Dialog
    <3>2. FormOk(w, rules)
      BY <2>2, <2>5, <3>1 DEF FormOk
    <3> HIDE DEF w
    <3>3. OneForm(d, w)
      BY <2>5, <3>2, OneChanges DEF BookingInv
    <3>4. Booking!Overlays' = Booking!Overlays
      BY <1>2, <3>1, <3>3 DEF OneForm, Booking!Overlays
    <3>5. Coming(dlg'[d])
      BY <3>1, <3>3 DEF OneForm, Coming
    <3> QED BY <2>5, <3>3, <3>4, <3>5 DEF BookingInv, OneForm, FlagsTyped, OverlayInv
  <2> QED BY <2>3, <2>4, <2>5
<1> QED BY <1>3, <1>4, <1>5, <1>6

\* A form that is filled in, and closed if it is in the background.
Unless(s) == IF s.st = "gone" THEN Booking!Closed(s) ELSE s
LEMMA FillKeeps ==
  ASSUME PartsAssumption, BookingInv, NEW d \in Dialogs, NEW s \in Booking!Dialog,
         dlg[d].st \in {"open", "gone"}, s.st = dlg[d].st, s.kind = dlg[d].kind,
         s.quick = dlg[d].quick, s.quick => s.item = dlg[d].item /\ s.code = None,
         s.lot => s.item \in Tracked,
         Booking!Edit(d, s) \/ Booking!Edit(d, Unless(s))
  PROVE  BookingInv'
<1>1. FormOk(dlg[d], rules)
  BY DEF BookingInv, FormsOk
<1>2. FormOk(s, rules)
  BY <1>1, FilledForm
<1>3. s.st = "gone" => FormOk(Booking!Closed(s), rules) /\ Booking!Closed(s).st # "open"
  BY <1>2, ClosedForm
<1>4. \E t \in {s, Unless(s)} : Booking!Edit(d, t) /\ FormOk(t, rules)
                                /\ (t.st = "open" <=> s.st = "open")
  BY <1>2, <1>3 DEF Unless
<1> QED BY <1>4, EditKeeps DEF Coming

LEMMA BookingFills ==
  ASSUME PartsAssumption, BookingInv, NEW d \in Dialogs,
         \/ Booking!TypeLot(d) \/ Booking!Confirm(d) \/ Booking!CodeAnswered(d)
         \/ Booking!CodeFails(d) \/ Booking!PostRefused(d)
         \/ \E i \in Items : Booking!PickItem(d, i) \/ Booking!EnterCode(d, i)
  PROVE  BookingInv'
<1> DEFINE r == dlg[d]
<1>1. FormOk(r, rules) /\ r \in Booking!Dialog
  BY DEF BookingInv, FormsOk, FormOk
<1>2. r.lot => r.item \in Tracked
  BY <1>1 DEF FormOk
<1>3. r.quick => r.code = None
  BY <1>1 DEF FormOk
<1>4. r.st \in {"idle", "fetch", "masters", "reasons"} => r.code = None /\ r.post = "no"
  BY <1>1, EmptyForm DEF FormOk, Booking!NoDialog
<1>5. r.st \in {"idle", "fetch", "masters", "reasons", "open", "gone"}
  BY <1>1 DEF Booking!Dialog
<1>6. ASSUME NEW i \in Items \cup {None}
      PROVE  LET c == Booking!Chosen(r, i) IN
             /\ c \in Booking!Dialog /\ c.st = r.st /\ c.kind = r.kind /\ c.quick = r.quick
             /\ c.item = i /\ c.code = r.code /\ (c.lot => i \in Tracked)
  BY <1>1 DEF Booking!Dialog, Booking!Chosen
<1>7. CASE Booking!TypeLot(d)
  <2> DEFINE s == [r EXCEPT !.lot = TRUE]
  <2>1. r.st = "open" /\ ~r.quick /\ r.item \in Tracked /\ Booking!Edit(d, s)
    BY <1>7 DEF Booking!TypeLot, Booking!FullForm
  <2>2. /\ s \in Booking!Dialog /\ s.st = r.st /\ s.kind = r.kind /\ s.quick = r.quick
        /\ s.item = r.item
    BY <1>1 DEF Booking!Dialog
  <2> HIDE DEF s
  <2> QED BY <2>1, <2>2, FillKeeps
<1>8. CASE Booking!Confirm(d)
  <2> DEFINE s == [r EXCEPT !.post = "sent"]
  <2>1. r.st = "open" /\ Booking!Edit(d, s)
    BY <1>8 DEF Booking!Confirm
  <2>2. /\ s \in Booking!Dialog /\ s.st = r.st /\ s.kind = r.kind /\ s.quick = r.quick
        /\ s.item = r.item /\ s.code = r.code /\ s.lot = r.lot
    BY <1>1 DEF Booking!Dialog
  <2> HIDE DEF s
  <2> QED BY <1>2, <1>3, <2>1, <2>2, FillKeeps
<1>9. CASE Booking!PostRefused(d)
  <2> DEFINE s == [r EXCEPT !.post = "no"]
  <2>1. r.post = "sent" /\ Booking!Edit(d, Unless(s))
    BY <1>9 DEF Booking!PostRefused, Unless
  <2>2. /\ s \in Booking!Dialog /\ s.st = r.st /\ s.kind = r.kind /\ s.quick = r.quick
        /\ s.item = r.item /\ s.code = r.code /\ s.lot = r.lot
    BY <1>1 DEF Booking!Dialog
  <2>3. r.st \in {"open", "gone"}
    BY <1>4, <1>5, <2>1
  <2> HIDE DEF s
  <2> QED BY <1>2, <1>3, <2>1, <2>2, <2>3, FillKeeps
<1>10. CASE Booking!CodeFails(d)
  <2> DEFINE s == [r EXCEPT !.code = None]
  <2>1. r.code # None /\ Booking!Edit(d, Unless(s))
    BY <1>10 DEF Booking!CodeFails, Unless
  <2>2. /\ s \in Booking!Dialog /\ s.st = r.st /\ s.kind = r.kind /\ s.quick = r.quick
        /\ s.item = r.item /\ s.code = None /\ s.lot = r.lot
    BY <1>1 DEF Booking!Dialog
  <2>3. r.st \in {"open", "gone"}
    BY <1>4, <1>5, <2>1
  <2> HIDE DEF s
  <2> QED BY <1>2, <1>3, <2>1, <2>2, <2>3, FillKeeps
<1>11. CASE Booking!CodeAnswered(d)
  <2>1. r.code # None /\ r.st \in {"open", "gone"} /\ ~r.quick
    BY <1>3, <1>4, <1>5, <1>11 DEF Booking!CodeAnswered
  <2>2. PICK i \in {r.code, None} :
          Booking!Edit(d, Unless([Booking!Chosen(r, i) EXCEPT !.code = None]))
    BY <1>11 DEF Booking!CodeAnswered, Unless
  <2> DEFINE c == Booking!Chosen(r, i)
             s == [c EXCEPT !.code = None]
  <2>3. i \in Items \cup {None}
    BY <1>1 DEF Booking!Dialog
  <2>4. /\ c \in Booking!Dialog /\ c.st = r.st /\ c.kind = r.kind /\ c.quick = r.quick
        /\ c.item = i /\ (c.lot => i \in Tracked)
    BY <1>6, <2>3
  <2> HIDE DEF c
  <2>5. /\ s \in Booking!Dialog /\ s.st = r.st /\ s.kind = r.kind /\ s.quick = r.quick
        /\ s.item = i /\ s.code = None /\ (s.lot => i \in Tracked)
    BY <2>4 DEF Booking!Dialog
  <2>6. Booking!Edit(d, Unless(s))
    BY <2>2 DEF c
  <2> HIDE DEF s
  <2> QED BY <2>1, <2>5, <2>6, FillKeeps
<1>12. ASSUME NEW i \in Items, Booking!PickItem(d, i)
       PROVE  BookingInv'
  <2> DEFINE s == Booking!Chosen(r, i)
  <2>1. r.st = "open" /\ ~r.quick /\ Booking!Edit(d, s)
    BY <1>12 DEF Booking!PickItem, Booking!FullForm
  <2>2. /\ s \in Booking!Dialog /\ s.st = r.st /\ s.kind = r.kind /\ s.quick = r.quick
        /\ s.item = i /\ (s.lot => i \in Tracked)
    BY <1>6
  <2> HIDE DEF s
  <2> QED BY <2>1, <2>2, FillKeeps
<1>13. ASSUME NEW i \in Items, Booking!EnterCode(d, i)
       PROVE  BookingInv'
  <2> DEFINE s == [r EXCEPT !.code = i]
  <2>1. r.st = "open" /\ ~r.quick /\ Booking!Edit(d, s)
    BY <1>13 DEF Booking!EnterCode, Booking!FullForm
  <2>2. /\ s \in Booking!Dialog /\ s.st = r.st /\ s.kind = r.kind /\ s.quick = r.quick
        /\ s.item = r.item /\ s.lot = r.lot
    BY <1>1 DEF Booking!Dialog
  <2> HIDE DEF s
  <2> QED BY <1>2, <2>1, <2>2, FillKeeps
<1> QED BY <1>7, <1>8, <1>9, <1>10, <1>11, <1>12, <1>13

LEMMA BookingEnds ==
  ASSUME PartsAssumption, BookingInv, NEW d \in Dialogs,
         Booking!Close(d) \/ Booking!PostAccepted(d)
  PROVE  BookingInv'
<1> DEFINE r == dlg[d]
<1>1. FormOk(r, rules) /\ r \in Booking!Dialog
  BY DEF BookingInv, FormsOk, FormOk
<1>2. CASE Booking!Close(d)
  <2>1. r.st = "open" /\ dlg' = [dlg EXCEPT ![d] = Booking!Closed(r)] /\ Booking!Freed
        /\ UNCHANGED <<opening, rules>>
    BY <1>2 DEF Booking!Close
  <2>2. FormOk(Booking!Closed(r), rules) /\ Booking!Closed(r).st \in {"idle", "gone"}
    BY <1>1, <2>1, ClosedForm
  <2> QED BY <2>1, <2>2, ClosedKeeps DEF Coming
<1>3. CASE Booking!PostAccepted(d)
  <2> DEFINE s == [r EXCEPT !.post = "no"]
  <2>1. /\ r.post = "sent" /\ dlg' = [dlg EXCEPT ![d] = Booking!Closed(s)]
        /\ IF r.st = "open" THEN Booking!Freed ELSE UNCHANGED <<inert, locked>>
        /\ UNCHANGED <<opening, rules>>
    BY <1>3 DEF Booking!PostAccepted
  <2>2. r.st \in {"open", "gone"}
    BY <1>1, <2>1, EmptyForm DEF FormOk, Booking!Dialog, Booking!NoDialog
  <2>3. /\ s \in Booking!Dialog /\ s.st = r.st /\ s.kind = r.kind /\ s.quick = r.quick
        /\ s.item = r.item /\ s.code = r.code /\ s.lot = r.lot
    BY <1>1 DEF Booking!Dialog
  <2> HIDE DEF s
  <2>4. FormOk(s, rules)
    BY <1>1, <2>2, <2>3 DEF FormOk
  <2>5. FormOk(Booking!Closed(s), rules) /\ Booking!Closed(s).st \in {"idle", "gone"}
    BY <2>2, <2>3, <2>4, ClosedForm
  <2> QED BY <2>1, <2>2, <2>5, ClosedKeeps DEF Coming
<1> QED BY <1>2, <1>3

LEMMA BookingChanges ==
  ASSUME PartsAssumption, BookingInv, NEW d \in Dialogs, NEW e \in Dialogs \ {d},
         Booking!Change(d, e)
  PROVE  BookingInv'
<1> DEFINE r == dlg[d]
           s == Booking!Closed(r)
           t == Booking!Loading(r.kind, r.item, TRUE)
<1>1. FormOk(r, rules) /\ r \in Booking!Dialog /\ r.st = "open" /\ r.quick
  BY DEF BookingInv, FormsOk, FormOk, Booking!Change
<1>2. FormOk(s, rules) /\ s.st # "open"
  BY <1>1, ClosedForm
<1>3. t \in Booking!Dialog /\ t.st = "masters" /\ ~t.quick /\ ~t.lot /\ t.code = None
      /\ t.post = "no"
  BY <1>1, EmptyForm DEF FormOk, Booking!Dialog, Booking!NoDialog, Booking!Loading
<1>4. FormOk(t, rules)
  BY <1>3 DEF FormOk
<1>5. /\ dlg' = [dlg EXCEPT ![d] = s, ![e] = t]
      /\ opening' = TRUE /\ inert' = TRUE /\ locked' = FALSE /\ rules' = rules
  BY DEF Booking!Change
<1> HIDE DEF s, t
<1>6. /\ dlg'[d] = s /\ dlg'[e] = t /\ \A c \in Dialogs \ {d, e} : dlg'[c] = dlg[c]
      /\ dlg' = [c \in Dialogs |-> dlg'[c]]
  BY <1>5 DEF BookingInv, FormsOk
<1>7. FormsOk'
  BY <1>2, <1>4, <1>5, <1>6 DEF BookingInv, FormsOk
<1>8. Booking!Overlays = {d}
  BY <1>1 DEF Booking!Overlays, BookingInv, OverlayInv
<1>9. Booking!Overlays' = {}
  BY <1>2, <1>3, <1>6, <1>8 DEF Booking!Overlays
<1>10. Coming(dlg'[e])
  BY <1>3, <1>6 DEF Coming
<1> QED BY <1>5, <1>7, <1>9, <1>10 DEF BookingInv, FlagsTyped, OverlayInv

LEMMA BookingStep ==
  ASSUME PartsAssumption, BookingInv, [Booking!Next]_bookingVars
  PROVE  BookingInv'
<1>1. ASSUME NEW d \in Dialogs, Booking!Answer(d)
      PROVE  BookingInv'
  BY <1>1, BookingArrives, BookingFills, BookingEnds DEF Booking!Answer
<1>2. ASSUME NEW d \in Dialogs, Booking!User(d)
      PROVE  BookingInv'
  BY <1>2, BookingOpens, BookingFills, BookingEnds, BookingChanges DEF Booking!User
<1>3. CASE UNCHANGED bookingVars
  BY <1>3 DEF bookingVars, BookingInv, FormsOk, FlagsTyped, OverlayInv, Booking!Overlays, Coming
<1> QED BY <1>1, <1>2, <1>3 DEF Booking!Next

LEMMA BookingCounts ==
  ASSUME NEW S
  PROVE  Booking!Cardinality(S) = Cardinality(S)
BY DEF Booking!Cardinality, Cardinality

LEMMA BookingKeeps ==
  ASSUME BookingInv
  PROVE  /\ Booking!TypeOK /\ Booking!OneDialog /\ Booking!DialogIsModal
         /\ Booking!NeverLockedOut /\ Booking!ShortFormSuffices /\ Booking!LotFitsItem
<1>1. Booking!TypeOK
  BY DEF BookingInv, FormsOk, FormOk, FlagsTyped, Booking!TypeOK
<1>2. Booking!OneDialog
  <2>1. CASE Booking!Overlays = {}
    BY <2>1, FS_EmptySet, BookingCounts DEF Booking!OneDialog
  <2>2. ASSUME NEW d \in Booking!Overlays
        PROVE  Booking!OneDialog
    <3>1. Booking!Overlays = {d}
      BY DEF BookingInv, OverlayInv
    <3> QED BY <3>1, FS_Singleton, BookingCounts DEF Booking!OneDialog
  <2> QED BY <2>1, <2>2
<1>3. Booking!DialogIsModal
  BY DEF BookingInv, OverlayInv, Booking!DialogIsModal
<1>4. Booking!NeverLockedOut
  BY DEF BookingInv, OverlayInv, Coming, Booking!NeverLockedOut
<1>5. Booking!ShortFormSuffices
  BY DEF BookingInv, FormsOk, FormOk, Booking!Overlays, Booking!ShortFormSuffices
<1>6. Booking!LotFitsItem
  BY DEF BookingInv, FormsOk, FormOk, Booking!LotFitsItem
<1> QED BY <1>1, <1>2, <1>3, <1>4, <1>5, <1>6
--------------------------------------------------------------------------------
\* CSV import.

\* The report taken up is one that was shown, and so is what is imported; the newest check is
\* of what the inputs hold, unless another one is due.
ReportsKept ==
  /\ lastDry.done => skipErrors = lastDry.errors
  /\ lastDry.done /\ lastDry.ok => <<lastDry.csv, lastDry.errors>> \in reported
  /\ Import!ImportIsAsReported
ChecksCurrent ==
  /\ runs \subseteq [no: 1..lastRun, csv: Csvs, st: {"reading", "sent"}]
  /\ \A r \in runs : r.no = lastRun /\ ~typed => r.csv = Import!ReadSelectedCsv
  /\ Import!ReportIsOfInputs
ImportInv == Import!TypeOK /\ ReportsKept /\ ChecksCurrent

\* The empty text is a text as good as any.
LEMMA ImportTexts ==
  ASSUME PartsAssumption
  PROVE  /\ MaxRuns \in Nat
         /\ \E none \in Csvs :
              /\ Import!NoDry = [done |-> FALSE, ok |-> FALSE, errors |-> FALSE, csv |-> none]
              /\ Import!NoImport = [st |-> "idle", csv |-> none, run |-> 0, skip |-> FALSE,
                                   seen |-> FALSE]
              /\ Import!ImportInit => box = none
BY Zenon DEF PartsAssumption, Import!ImportAssumption, Import!NoDry, Import!NoImport,
             Import!ImportInit

LEMMA ImportStart == PartsAssumption /\ Import!ImportInit => ImportInv
<1> SUFFICES ASSUME PartsAssumption, Import!ImportInit
             PROVE  ImportInv
  OBVIOUS
<1>1. PICK none \in Csvs :
        /\ MaxRuns \in Nat /\ box = none
        /\ lastDry = [done |-> FALSE, ok |-> FALSE, errors |-> FALSE, csv |-> none]
        /\ import = [st |-> "idle", csv |-> none, run |-> 0, skip |-> FALSE, seen |-> FALSE]
  <2>1. lastDry = Import!NoDry /\ import = Import!NoImport
    BY Zenon DEF Import!ImportInit
  <2> QED BY Zenon, <2>1, ImportTexts
<1>2. /\ file = NoFile /\ typed = FALSE /\ runs = {} /\ lastRun = 0 /\ skipErrors = FALSE
      /\ result = "nothing"
  BY Zenon DEF Import!ImportInit
<1>3. /\ box \in Csvs /\ file \in Csvs \cup {NoFile} /\ lastRun \in 0..MaxRuns
      /\ \A r \in runs : r.no \in 1..lastRun /\ r.csv \in Csvs /\ r.st \in {"reading", "sent"}
  BY <1>1, <1>2
<1>4. {typed, skipErrors} \subseteq BOOLEAN
  BY <1>2
<1>5. import.st = "idle" /\
      import \in [st: {"idle", "reading", "ensure", "decide", "commit"}, csv: Csvs,
                 run: 0..MaxRuns, skip: BOOLEAN, seen: BOOLEAN]
  BY <1>1
<1>6. lastDry \in [done: BOOLEAN, ok: BOOLEAN, errors: BOOLEAN, csv: Csvs]
  BY <1>1
<1>7. Import!TypeOK
  BY <1>2, <1>3, <1>4, <1>5, <1>6 DEF Import!TypeOK
<1> QED BY <1>1, <1>2, <1>7 DEF ImportInv, ReportsKept, ChecksCurrent,
                                Import!ImportIsAsReported, Import!ReportIsOfInputs

\* A new check is the newest, and of what the inputs hold.
LEMMA CheckStarts ==
  ASSUME PartsAssumption, ImportInv, Import!RunDryRun, typed' \in BOOLEAN,
         box' \in Csvs, file' \in Csvs \cup {NoFile}, lastDry' = lastDry
  PROVE  /\ ChecksCurrent' /\ lastRun' \in 0..MaxRuns /\ lastRun' = lastRun + 1
         /\ result' = "checking"
         /\ \A r \in runs' : r.no \in 1..lastRun' /\ r.csv \in Csvs /\ r.st \in {"reading", "sent"}
<1> DEFINE new == [no |-> lastRun + 1, csv |-> Import!ReadSelectedCsv', st |-> "reading"]
<1>1. lastRun \in 0..MaxRuns /\ MaxRuns \in Nat /\ lastRun < MaxRuns
  BY ImportTexts DEF ImportInv, Import!TypeOK, Import!RunDryRun
<1>2. lastRun' = lastRun + 1 /\ runs' = runs \cup {new} /\ result' = "checking"
  BY DEF Import!RunDryRun
<1>3. lastRun' \in 0..MaxRuns /\ lastRun' \in Nat /\ lastRun \in Nat
  BY <1>1, <1>2
<1>4. Import!ReadSelectedCsv' \in Csvs
  BY DEF Import!ReadSelectedCsv
<1>5. \A r \in runs : r \in [no: 1..lastRun', csv: Csvs, st: {"reading", "sent"}]
                      /\ r.no # lastRun'
  BY <1>2, <1>3 DEF ImportInv, ChecksCurrent
<1>6. new \in [no: 1..lastRun', csv: Csvs, st: {"reading", "sent"}]
      /\ new.csv = Import!ReadSelectedCsv'
  BY <1>2, <1>3, <1>4
<1>7. runs' \subseteq [no: 1..lastRun', csv: Csvs, st: {"reading", "sent"}]
  BY <1>2, <1>5, <1>6
<1> HIDE DEF new
<1>8. ChecksCurrent'
  BY <1>2, <1>5, <1>6, <1>7 DEF ChecksCurrent, Import!ReportIsOfInputs
<1> QED BY <1>2, <1>3, <1>7, <1>8

\* Typing, files, the timer, and a text that has to be checked before it is imported.
LEMMA ImportInputs ==
  ASSUME PartsAssumption, ImportInv,
         \/ Import!TimerFires \/ (\E t \in Csvs : Import!Type(t))
         \/ (\E f \in Csvs \cup {NoFile} : Import!Choose(f)) \/ Import!Confirm
         \/ Import!ConfirmRead
  PROVE  ImportInv'
<1>1. /\ box \in Csvs /\ file \in Csvs \cup {NoFile} /\ typed \in BOOLEAN /\ lastRun \in Nat
      /\ Import!ReadSelectedCsv \in Csvs /\ MaxRuns \in Nat /\ lastRun <= MaxRuns
  BY ImportTexts DEF ImportInv, Import!TypeOK, Import!ReadSelectedCsv
<1>2. CASE Import!TimerFires
  <2>1. /\ Import!RunDryRun /\ typed' = FALSE
        /\ UNCHANGED <<box, file, lastDry, skipErrors, import, reported>>
    BY <1>2 DEF Import!TimerFires
  <2>2. /\ ChecksCurrent' /\ lastRun' \in 0..MaxRuns /\ lastRun' = lastRun + 1
        /\ result' = "checking"
        /\ \A r \in runs' : r.no \in 1..lastRun' /\ r.csv \in Csvs /\ r.st \in {"reading", "sent"}
    BY <1>1, <2>1, CheckStarts
  <2>3. {typed', skipErrors'} \subseteq BOOLEAN
    BY <2>1 DEF ImportInv, Import!TypeOK
  <2>4. Import!TypeOK'
    BY <1>1, <2>1, <2>2, <2>3 DEF ImportInv, Import!TypeOK
  <2>5. ReportsKept'
    BY <2>1 DEF ImportInv, ReportsKept, Import!ImportIsAsReported
  <2> QED BY <2>2, <2>4, <2>5 DEF ImportInv
<1>3. ASSUME NEW f \in Csvs \cup {NoFile}, Import!Choose(f)
      PROVE  ImportInv'
  <2>1. /\ Import!RunDryRun /\ file' = f
        /\ UNCHANGED <<box, typed, lastDry, skipErrors, import, reported>>
    BY <1>3 DEF Import!Choose
  <2>2. /\ ChecksCurrent' /\ lastRun' \in 0..MaxRuns /\ lastRun' = lastRun + 1
        /\ result' = "checking"
        /\ \A r \in runs' : r.no \in 1..lastRun' /\ r.csv \in Csvs /\ r.st \in {"reading", "sent"}
    BY <1>1, <2>1, CheckStarts
  <2>3. Import!TypeOK'
    BY <1>1, <2>1, <2>2 DEF ImportInv, Import!TypeOK
  <2>4. ReportsKept'
    BY <2>1 DEF ImportInv, ReportsKept, Import!ImportIsAsReported
  <2> QED BY <2>2, <2>3, <2>4 DEF ImportInv
<1>4. ASSUME NEW t \in Csvs, Import!Type(t)
      PROVE  ImportInv'
  <2>1. /\ box' = t /\ typed' = TRUE
        /\ UNCHANGED <<file, runs, lastRun, lastDry, skipErrors, result, import, reported>>
    BY <1>4 DEF Import!Type
  <2>2. Import!TypeOK'
    BY <1>1, <2>1 DEF ImportInv, Import!TypeOK
  <2>3. ReportsKept' /\ ChecksCurrent'
    BY <2>1 DEF ImportInv, ReportsKept, ChecksCurrent, Import!ImportIsAsReported,
                Import!ReportIsOfInputs
  <2> QED BY <2>2, <2>3 DEF ImportInv
<1>5. CASE Import!Confirm
  <2>1. /\ import' = [Import!NoImport EXCEPT !.st = "reading", !.csv = Import!ReadSelectedCsv,
                        !.seen = <<Import!ReadSelectedCsv, TRUE>> \in reported]
        /\ UNCHANGED <<box, file, typed, runs, lastRun, lastDry, skipErrors, result, reported>>
    BY <1>5 DEF Import!Confirm, Import!inputs
  <2> DEFINE known == <<Import!ReadSelectedCsv, TRUE>> \in reported
  <2>2. known \in BOOLEAN
    OBVIOUS
  <2> HIDE DEF known
  <2>3. import'.st = "reading" /\
        import' \in [st: {"idle", "reading", "ensure", "decide", "commit"}, csv: Csvs,
                     run: 0..MaxRuns, skip: BOOLEAN, seen: BOOLEAN]
    <3>1. PICK none \in Csvs : Import!NoImport =
            [st |-> "idle", csv |-> none, run |-> 0, skip |-> FALSE, seen |-> FALSE]
      BY ImportTexts
    <3>2. import' = [Import!NoImport EXCEPT !.st = "reading", !.csv = Import!ReadSelectedCsv,
                                            !.seen = known]
      BY <2>1 DEF known
    <3> DEFINE next(k) == [Import!NoImport EXCEPT !.st = "reading",
                                                  !.csv = Import!ReadSelectedCsv, !.seen = k]
    <3>3. ASSUME NEW k \in BOOLEAN
          PROVE  next(k).st = "reading" /\
                 next(k) \in [st: {"idle", "reading", "ensure", "decide", "commit"}, csv: Csvs,
                             run: 0..MaxRuns, skip: BOOLEAN, seen: BOOLEAN]
      <4>1. /\ Import!NoImport.csv \in Csvs
            /\ Import!NoImport \in [st: {"idle", "reading", "ensure", "decide", "commit"}, csv: Csvs,
                                    run: 0..MaxRuns, skip: BOOLEAN, seen: BOOLEAN]
        BY <1>1, <3>1
      <4> QED BY <1>1, <4>1
    <3>4. import' = next(known)
      BY <3>2
    <3> HIDE DEF next
    <3> QED BY Zenon, <2>2, <3>3, <3>4
  <2>4. Import!TypeOK'
    BY <2>1, <2>3 DEF ImportInv, Import!TypeOK
  <2>5. ReportsKept' /\ ChecksCurrent'
    BY <2>1, <2>3 DEF ImportInv, ReportsKept, ChecksCurrent, Import!ImportIsAsReported,
                      Import!ReportIsOfInputs, Import!ReadSelectedCsv
  <2> QED BY <2>4, <2>5 DEF ImportInv
<1>6. CASE Import!ConfirmRead
  <2>1. UNCHANGED <<box, file, typed, lastDry, skipErrors, reported>>
    BY <1>6 DEF Import!ConfirmRead, Import!inputs
  <2>2. import \in [st: {"idle", "reading", "ensure", "decide", "commit"}, csv: Csvs,
                    run: 0..MaxRuns, skip: BOOLEAN, seen: BOOLEAN]
    BY DEF ImportInv, Import!TypeOK
  <2>3. CASE Import!Checked(import.csv)
    <3>1. /\ import' = [import EXCEPT !.st = "decide"]
          /\ UNCHANGED <<runs, lastRun, result>>
      BY <1>6, <2>3 DEF Import!ConfirmRead
    <3>2. import'.st = "decide" /\
          import' \in [st: {"idle", "reading", "ensure", "decide", "commit"}, csv: Csvs,
                       run: 0..MaxRuns, skip: BOOLEAN, seen: BOOLEAN]
      BY <2>2, <3>1
    <3>3. Import!TypeOK'
      BY <2>1, <3>1, <3>2 DEF ImportInv, Import!TypeOK
    <3>4. ReportsKept' /\ ChecksCurrent'
      BY <2>1, <3>1, <3>2 DEF ImportInv, ReportsKept, ChecksCurrent, Import!ImportIsAsReported,
                              Import!ReportIsOfInputs, Import!ReadSelectedCsv
    <3> QED BY <3>3, <3>4 DEF ImportInv
  <2>4. CASE ~Import!Checked(import.csv)
    <3>1. Import!RunDryRun /\ import' = [import EXCEPT !.st = "ensure", !.run = lastRun + 1]
      BY <1>6, <2>4 DEF Import!ConfirmRead
    <3>2. /\ ChecksCurrent' /\ lastRun' \in 0..MaxRuns /\ lastRun' = lastRun + 1
          /\ result' = "checking"
          /\ \A r \in runs' : r.no \in 1..lastRun' /\ r.csv \in Csvs /\ r.st \in {"reading", "sent"}
      BY <1>1, <2>1, <3>1, CheckStarts
    <3>3. import'.st = "ensure" /\ import'.run \in 1..lastRun' /\
          import' \in [st: {"idle", "reading", "ensure", "decide", "commit"}, csv: Csvs,
                       run: 0..MaxRuns, skip: BOOLEAN, seen: BOOLEAN]
      <4>1. lastRun + 1 \in 0..MaxRuns /\ lastRun + 1 \in 1..lastRun'
        BY <1>1, <3>2
      <4> QED BY <2>2, <3>1, <4>1
    <3>4. Import!TypeOK'
      BY <2>1, <3>2, <3>3 DEF ImportInv, Import!TypeOK
    <3>5. ReportsKept'
      BY <2>1, <3>3 DEF ImportInv, ReportsKept, Import!ImportIsAsReported
    <3> QED BY <3>2, <3>4, <3>5 DEF ImportInv
  <2> QED BY <2>3, <2>4
<1> QED BY <1>2, <1>3, <1>4, <1>5, <1>6

LEMMA ImportDecides ==
  ASSUME PartsAssumption, ImportInv,
         Import!ConfirmEmpty \/ Import!Decide \/ Import!CommitAnswered
  PROVE  ImportInv'
<1> DEFINE Kept == [st: {"idle", "reading", "ensure", "decide", "commit"}, csv: Csvs,
                    run: 0..MaxRuns, skip: BOOLEAN, seen: BOOLEAN]
<1>1. UNCHANGED <<box, file, typed, runs, lastRun, lastDry, skipErrors, result, reported>>
  BY DEF Import!ConfirmEmpty, Import!Decide, Import!CommitAnswered, Import!inputs
<1>2. import \in Kept /\ lastDry \in [done: BOOLEAN, ok: BOOLEAN, errors: BOOLEAN, csv: Csvs]
      /\ skipErrors \in BOOLEAN
  BY DEF ImportInv, Import!TypeOK
<1>3. ASSUME import' = Import!NoImport
      PROVE  import' \in Kept /\ import'.st # "ensure" /\ Import!ImportIsAsReported'
  <2>1. PICK none \in Csvs : Import!NoImport =
          [st |-> "idle", csv |-> none, run |-> 0, skip |-> FALSE, seen |-> FALSE]
    BY ImportTexts
  <2> QED BY <1>3, <2>1, ImportTexts DEF Import!ImportIsAsReported
<1>4. ASSUME Import!Checked(import.csv) /\ lastDry.ok,
             import' = [import EXCEPT !.st = "commit", !.skip = lastDry.errors \/ skipErrors]
      PROVE  import' \in Kept /\ import'.st # "ensure" /\ Import!ImportIsAsReported'
  <2>1. (lastDry.errors \/ skipErrors) = lastDry.errors
    BY <1>2, <1>4 DEF ImportInv, ReportsKept, Import!Checked
  <2>2. lastDry.errors \in BOOLEAN
    BY <1>2
  <2>3. import' \in Kept /\ import'.st = "commit" /\ import'.csv = import.csv
        /\ import'.skip = lastDry.errors
    BY <1>2, <1>4, <2>1, <2>2
  <2>4. <<lastDry.csv, lastDry.errors>> \in reported /\ lastDry.csv = import.csv
    BY <1>4 DEF ImportInv, ReportsKept, Import!Checked
  <2> QED BY <1>1, <2>3, <2>4 DEF Import!ImportIsAsReported
<1>5. import' \in Kept /\ import'.st # "ensure" /\ Import!ImportIsAsReported'
  BY <1>3, <1>4 DEF Import!ConfirmEmpty, Import!Decide, Import!CommitAnswered
<1>6. Import!TypeOK'
  BY <1>1, <1>5 DEF ImportInv, Import!TypeOK
<1>7. ReportsKept' /\ ChecksCurrent'
  BY <1>1, <1>5 DEF ImportInv, ReportsKept, ChecksCurrent, Import!ReportIsOfInputs,
                    Import!ReadSelectedCsv
<1> QED BY <1>6, <1>7 DEF ImportInv

\* The handler that waited goes on; nothing else of it changes.
LEMMA CheckOver ==
  ASSUME ImportInv, NEW r \in runs, Import!Over(r)
  PROVE  /\ import' \in [st: {"idle", "reading", "ensure", "decide", "commit"}, csv: Csvs,
                         run: 0..MaxRuns, skip: BOOLEAN, seen: BOOLEAN]
         /\ import'.st = "ensure" => import' = import
         /\ import'.st = "commit" => import' = import
         /\ runs' = runs \ {r}
<1>1. import \in [st: {"idle", "reading", "ensure", "decide", "commit"}, csv: Csvs,
                  run: 0..MaxRuns, skip: BOOLEAN, seen: BOOLEAN]
  BY DEF ImportInv, Import!TypeOK
<1>2. /\ runs' = runs \ {r}
      /\ import' = import \/ import' = [import EXCEPT !.st = "decide"]
  BY DEF Import!Over
<1> QED BY <1>1, <1>2

LEMMA ImportChecks ==
  ASSUME PartsAssumption, ImportInv, Import!Checking
  PROVE  ImportInv'
<1> USE DEF Import!inputs
<1> DEFINE Kept == [st: {"idle", "reading", "ensure", "decide", "commit"}, csv: Csvs,
                    run: 0..MaxRuns, skip: BOOLEAN, seen: BOOLEAN]
           Run == [no: 1..lastRun, csv: Csvs, st: {"reading", "sent"}]
<1>1. PICK r \in runs :
        \/ Import!RunDropped(r) \/ Import!RunEmpty(r) \/ Import!RunRead(r) \/ Import!RunFails(r)
        \/ \E ok, errors \in BOOLEAN : Import!RunReport(r, ok, errors)
  BY DEF Import!Checking
<1>2. runs \subseteq Run /\ r \in Run
  BY DEF ImportInv, ChecksCurrent
<1>3. lastDry \in [done: BOOLEAN, ok: BOOLEAN, errors: BOOLEAN, csv: Csvs]
      /\ import.st = "ensure" => import.run \in 1..lastRun
  BY DEF ImportInv, Import!TypeOK
<1>4. Import!NoDry \in [done: BOOLEAN, ok: BOOLEAN, errors: BOOLEAN, csv: Csvs]
      /\ ~Import!NoDry.done
  <2>1. PICK none \in Csvs : Import!NoDry =
          [done |-> FALSE, ok |-> FALSE, errors |-> FALSE, csv |-> none]
    BY ImportTexts
  <2> QED BY <2>1
<1>5. CASE Import!RunDropped(r) \/ Import!RunEmpty(r) \/ Import!RunFails(r)
  <2>1. /\ Import!Over(r) /\ UNCHANGED <<box, file, typed, lastRun, skipErrors, reported>>
        /\ \/ UNCHANGED <<lastDry, result>>
           \/ lastDry' = Import!NoDry /\ result' \in {"hint", "failure"}
    BY <1>5 DEF Import!RunDropped, Import!RunEmpty, Import!RunFails
  <2>2. /\ import' \in Kept /\ runs' = runs \ {r}
        /\ import'.st = "ensure" => import' = import
        /\ import'.st = "commit" => import' = import
    BY <2>1, CheckOver
  <2>3. Import!TypeOK'
    BY <1>2, <1>3, <1>4, <2>1, <2>2 DEF ImportInv, Import!TypeOK
  <2>4. ReportsKept'
    BY <1>4, <2>1, <2>2 DEF ImportInv, ReportsKept, Import!ImportIsAsReported
  <2>5. ChecksCurrent'
    BY <2>1, <2>2 DEF ImportInv, ChecksCurrent, Import!ReportIsOfInputs, Import!ReadSelectedCsv
  <2> QED BY <2>3, <2>4, <2>5 DEF ImportInv
<1>6. CASE Import!RunRead(r)
  <2> DEFINE s == [r EXCEPT !.st = "sent"]
  <2>1. /\ runs' = (runs \ {r}) \cup {s}
        /\ UNCHANGED <<box, file, typed, lastRun, lastDry, skipErrors, result, import, reported>>
    BY <1>6 DEF Import!RunRead
  <2>2. s \in Run /\ s.no = r.no /\ s.csv = r.csv /\ s.st = "sent"
    BY <1>2
  <2> HIDE DEF s
  <2>3. runs' \subseteq Run
    BY <1>2, <2>1, <2>2
  <2>4. Import!TypeOK'
    BY <2>1, <2>3 DEF ImportInv, Import!TypeOK
  <2>5. ReportsKept'
    BY <2>1 DEF ImportInv, ReportsKept, Import!ImportIsAsReported
  <2>6. ChecksCurrent'
    BY <2>1, <2>2, <2>3 DEF ImportInv, ChecksCurrent, Import!ReportIsOfInputs,
                            Import!ReadSelectedCsv
  <2> QED BY <2>4, <2>5, <2>6 DEF ImportInv
<1>7. ASSUME NEW ok \in BOOLEAN, NEW errors \in BOOLEAN, Import!RunReport(r, ok, errors)
      PROVE  ImportInv'
  <2> DEFINE d == [done |-> TRUE, ok |-> ok, errors |-> errors, csv |-> r.csv]
  <2>1. /\ Import!Over(r) /\ r.no = lastRun /\ lastDry' = d /\ skipErrors' = errors
        /\ result' = "report" /\ UNCHANGED <<box, file, typed, lastRun>>
        /\ reported' = reported \cup (IF ok THEN {<<r.csv, errors>>} ELSE {})
    BY <1>7 DEF Import!RunReport, Import!IsNewest
  <2>2. /\ import' \in Kept /\ runs' = runs \ {r}
        /\ import'.st = "ensure" => import' = import
        /\ import'.st = "commit" => import' = import
    BY <2>1, CheckOver
  <2>3. /\ d \in [done: BOOLEAN, ok: BOOLEAN, errors: BOOLEAN, csv: Csvs]
        /\ d.ok = ok /\ d.errors = errors /\ d.csv = r.csv
    BY <1>2
  <2> HIDE DEF d
  <2>4. Import!TypeOK'
    BY <1>2, <1>3, <2>1, <2>2, <2>3 DEF ImportInv, Import!TypeOK
  <2>5. ReportsKept'
    BY <2>1, <2>2, <2>3 DEF ImportInv, ReportsKept, Import!ImportIsAsReported
  <2>6. ChecksCurrent'
    BY <2>1, <2>2, <2>3 DEF ImportInv, ChecksCurrent, Import!ReportIsOfInputs,
                            Import!ReadSelectedCsv
  <2> QED BY <2>4, <2>5, <2>6 DEF ImportInv
<1> QED BY <1>1, <1>5, <1>6, <1>7

LEMMA ImportStep ==
  ASSUME PartsAssumption, ImportInv, [Import!ImportNext]_importVars
  PROVE  ImportInv'
<1>1. CASE UNCHANGED importVars
  BY <1>1 DEF importVars, ImportInv, Import!TypeOK, ReportsKept, ChecksCurrent,
              Import!ImportIsAsReported, Import!ReportIsOfInputs, Import!ReadSelectedCsv
<1> QED BY <1>1, ImportInputs, ImportDecides, ImportChecks
        DEF Import!ImportNext, Import!Importing, Import!User
--------------------------------------------------------------------------------
\* Product lookup.

\* What the lookup button tells, and which values the panel's state has.
LookupFields == {name, sku} \subseteq Lookup!Sources
LookupLines == {"scan a barcode", "not a barcode", "searching", "applied", "nothing found",
                "unavailable"}
LookedFor == looked \in Gtins \cup {""}
LookupsTyped ==
  /\ scan \in Gtins \cup OtherCodes /\ generation \in 0..MaxLookups /\ MaxLookups \in Nat
  /\ \A l \in lookups : l.gen \in 1..generation /\ l.code \in Gtins
  /\ status \in LookupLines
LookupFlags == {autofire, open, due, inFlight, ready} \subseteq BOOLEAN
LookupInv ==
  LookupFields /\ LookedFor /\ LookupsTyped /\ LookupFlags /\ Lookup!ButtonTells

\* What is filled in is the barcode of the field, and into an empty field.
Suggested ==
  lookups' # lookups /\ <<name, sku>>' # <<name, sku>> =>
    /\ open /\ {name', sku'} \subseteq {name, sku, scan}
    /\ (name # "" => name' = name) /\ (sku # "" => sku' = sku)

LEMMA LookupKeeps == LookupInv => Lookup!TypeOK /\ Lookup!ButtonTells
BY Zenon DEF LookupInv, LookupFields, LookedFor, LookupsTyped, LookupFlags, LookupLines,
             Lookup!TypeOK

LEMMA LookupTexts ==
  ASSUME PartsAssumption
  PROVE  MaxLookups \in Nat
BY Zenon DEF PartsAssumption, Lookup!LookupAssumption

LEMMA StatusLines ==
  ASSUME NEW code, NEW other \in LookupLines
  PROVE  Lookup!StatusOf(code, other) \in LookupLines
BY Zenon DEF Lookup!StatusOf, LookupLines

LEMMA LookupStart == PartsAssumption /\ Lookup!LookupInit => LookupInv
<1> SUFFICES ASSUME PartsAssumption, Lookup!LookupInit
             PROVE  LookupInv
  OBVIOUS
<1>1. LookupFields /\ LookedFor
  BY Zenon DEF Lookup!LookupInit, LookupFields, LookedFor, Lookup!Sources
<1>2. scan \in OtherCodes /\ scan \notin Gtins
  BY Zenon DEF Lookup!LookupInit, PartsAssumption, Lookup!LookupAssumption
<1>3. /\ autofire \in BOOLEAN /\ open = TRUE /\ due = FALSE /\ generation = 0 /\ inFlight = FALSE
      /\ lookups = {} /\ ready = FALSE /\ status = "scan a barcode"
  BY Zenon DEF Lookup!LookupInit
<1>4. LookupsTyped
  <2>1. generation \in 0..MaxLookups /\ MaxLookups \in Nat
    <3>1. generation = 0
      BY Zenon, <1>3
    <3> QED BY <3>1, LookupTexts
  <2>2. scan \in Gtins \cup OtherCodes
    BY <1>2
  <2>3. \A l \in lookups : l.gen \in 1..generation /\ l.code \in Gtins
    BY <1>3
  <2>4. status \in LookupLines
    BY <1>3 DEF LookupLines
  <2> QED BY <2>1, <2>2, <2>3, <2>4 DEF LookupsTyped
<1>5. LookupFlags
  BY <1>3 DEF LookupFlags
<1>6. Lookup!ButtonTells
  BY <1>2, <1>3 DEF Lookup!ButtonTells, Lookup!IsGtin
<1> QED BY <1>1, <1>4, <1>5, <1>6 DEF LookupInv

\* The button and the status line follow the field and the lookup under way.
LEMMA SyncedTells ==
  ASSUME LookupInv, NEW code \in Gtins \cup OtherCodes, Lookup!Synced(code, inFlight),
         scan' = code, Lookup!Resting
  PROVE  LookedFor' /\ LookupsTyped' /\ ready' \in BOOLEAN /\ Lookup!ButtonTells'
<1>1. /\ ready' = (code \in Gtins /\ ~inFlight) /\ status' = Lookup!StatusOf(code, status)
      /\ UNCHANGED <<generation, inFlight, lookups, looked>>
  BY DEF Lookup!Synced, Lookup!Resting
<1>2. LookedFor'
  BY Zenon, <1>1 DEF LookupInv, LookedFor
<1>3. status' \in LookupLines
  BY <1>1, StatusLines DEF LookupInv, LookupsTyped
<1>4. LookupsTyped'
  BY <1>1, <1>3 DEF LookupInv, LookupsTyped
<1>5. ready' \in BOOLEAN
  BY <1>1
<1>6. Lookup!ButtonTells'
  BY <1>1 DEF Lookup!ButtonTells, Lookup!IsGtin
<1> QED BY <1>2, <1>4, <1>5, <1>6

\* A lookup starts, or the panel tells why not.
LEMMA LookupRuns ==
  ASSUME LookupInv, Lookup!RunLookup, UNCHANGED <<autofire, open, name, sku, scan>>,
         due' \in BOOLEAN
  PROVE  LookupInv' /\ Suggested
<1>1. LookupFields' /\ Suggested
  BY Zenon DEF LookupInv, LookupFields, Suggested
<1>2. CASE ~Lookup!IsGtin
  <2>1. Lookup!Resting /\ Lookup!Synced(scan, inFlight)
    BY <1>2 DEF Lookup!RunLookup
  <2>2. scan \in Gtins \cup OtherCodes
    BY DEF LookupInv, LookupsTyped
  <2>3. LookedFor' /\ LookupsTyped' /\ ready' \in BOOLEAN /\ Lookup!ButtonTells'
    BY <2>1, <2>2, SyncedTells
  <2>4. LookupFlags'
    BY <2>1, <2>3 DEF LookupInv, LookupFlags, Lookup!Resting
  <2> QED BY <1>1, <2>3, <2>4 DEF LookupInv
<1>3. CASE Lookup!IsGtin /\ ~open
  <2>1. UNCHANGED <<generation, inFlight, lookups, looked, ready, status>>
    BY <1>3 DEF Lookup!RunLookup, Lookup!Resting
  <2>2. LookedFor'
    BY Zenon, <2>1 DEF LookupInv, LookedFor
  <2>3. LookupsTyped' /\ LookupFlags'
    BY <2>1 DEF LookupInv, LookupsTyped, LookupFlags
  <2>4. Lookup!ButtonTells'
    BY <2>1 DEF LookupInv, Lookup!ButtonTells, Lookup!IsGtin
  <2> QED BY <1>1, <2>2, <2>3, <2>4 DEF LookupInv
<1>4. CASE Lookup!IsGtin /\ open
  <2> DEFINE new == [gen |-> generation + 1, code |-> scan]
  <2>1. /\ generation < MaxLookups /\ generation' = generation + 1
        /\ inFlight' = TRUE /\ ready' = FALSE /\ status' = "searching"
        /\ lookups' = lookups \cup {new} /\ looked' = scan /\ scan \in Gtins
    BY <1>4 DEF Lookup!RunLookup, Lookup!Started, Lookup!IsGtin
  <2>2. LookedFor'
    BY Zenon, <2>1 DEF LookedFor
  <2>3. new.gen = generation + 1 /\ new.code = scan
    OBVIOUS
  <2> HIDE DEF new
  <2>4. LookupsTyped'
    <3>1. generation \in Nat /\ MaxLookups \in Nat
      BY DEF LookupInv, LookupsTyped
    <3>2. generation' \in 0..MaxLookups
      BY <2>1, <3>1
    <3>3. \A l \in lookups' : l.gen \in 1..generation' /\ l.code \in Gtins
      BY <2>1, <2>3, <3>1 DEF LookupInv, LookupsTyped
    <3>4. status' \in LookupLines
      BY <2>1 DEF LookupLines
    <3> QED BY <2>1, <3>1, <3>2, <3>3, <3>4 DEF LookupInv, LookupsTyped
  <2>5. LookupFlags'
    BY <2>1 DEF LookupInv, LookupFlags
  <2>6. Lookup!ButtonTells'
    BY <2>1 DEF Lookup!ButtonTells, Lookup!IsGtin
  <2> QED BY <1>1, <2>2, <2>4, <2>5, <2>6 DEF LookupInv
<1> QED BY <1>2, <1>3, <1>4

LEMMA LookupUsed ==
  ASSUME LookupInv, Lookup!User \/ Lookup!TimerFires
  PROVE  LookupInv' /\ Suggested
<1>1. CASE Lookup!TimerFires
  <2>1. Lookup!RunLookup /\ due' = FALSE /\ UNCHANGED <<autofire, open, name, sku, scan>>
    BY <1>1 DEF Lookup!TimerFires, Lookup!fields
  <2>2. due' \in BOOLEAN
    BY <2>1
  <2> QED BY <2>1, <2>2, LookupRuns
<1>2. CASE Lookup!Leave \/ Lookup!Press
  <2>1. Lookup!RunLookup /\ UNCHANGED <<autofire, open, name, sku, scan, due>>
    BY <1>2 DEF Lookup!Leave, Lookup!Press, Lookup!fields
  <2>2. due' \in BOOLEAN
    BY <2>1 DEF LookupInv, LookupFlags
  <2> QED BY <2>1, <2>2, LookupRuns
<1>3. ASSUME NEW c \in Gtins \cup OtherCodes, Lookup!Scan(c)
      PROVE  LookupInv' /\ Suggested
  <2>1. /\ scan' = c /\ due' = (due \/ autofire) /\ Lookup!Synced(c, inFlight)
        /\ Lookup!Resting /\ UNCHANGED <<autofire, open, name, sku>>
    BY <1>3 DEF Lookup!Scan, Lookup!fields
  <2>2. LookupFields' /\ Suggested
    BY Zenon, <2>1 DEF LookupInv, LookupFields, Suggested
  <2>3. LookedFor' /\ LookupsTyped' /\ ready' \in BOOLEAN /\ Lookup!ButtonTells'
    BY <2>1, SyncedTells
  <2>4. LookupFlags'
    BY <2>1, <2>3 DEF LookupInv, LookupFlags, Lookup!Resting
  <2> QED BY <2>2, <2>3, <2>4 DEF LookupInv
<1>4. CASE Lookup!Close \/ \E t \in {"", Typed} : Lookup!TypeName(t)
  <2>1. /\ UNCHANGED <<autofire, sku, scan, due, ready, status, generation, inFlight, lookups, looked>>
        /\ name' = name \/ name' \in {"", Typed}
        /\ open' = FALSE \/ open' = open
    BY Zenon, <1>4 DEF Lookup!Close, Lookup!TypeName, Lookup!Resting
  <2>2. LookupFields' /\ Suggested /\ LookedFor'
    BY Zenon, <2>1 DEF LookupInv, LookupFields, Lookup!Sources, Suggested, LookedFor
  <2>3. open' = FALSE \/ open' = open
    BY Zenon, <2>1
  <2>4. UNCHANGED <<autofire, scan, due, ready, status, generation, inFlight, lookups>>
    BY Zenon, <2>1
  <2>5. LookupsTyped' /\ LookupFlags'
    BY <2>3, <2>4 DEF LookupInv, LookupsTyped, LookupFlags
  <2>6. Lookup!ButtonTells'
    BY <2>4 DEF LookupInv, Lookup!ButtonTells, Lookup!IsGtin
  <2> QED BY <2>2, <2>5, <2>6 DEF LookupInv
<1> QED BY Zenon, <1>1, <1>2, <1>3, <1>4 DEF Lookup!User

LEMMA LookupOver ==
  ASSUME LookupInv, NEW l \in lookups, NEW says \in LookupLines, Lookup!Over(l, says)
  PROVE  LookedFor' /\ LookupsTyped' /\ LookupFlags' /\ Lookup!ButtonTells'
<1>1. /\ lookups' = lookups \ {l}
      /\ IF l.gen = generation
         THEN inFlight' = FALSE /\ ready' = Lookup!IsGtin /\ status' = Lookup!StatusOf(scan, says)
         ELSE status' = says /\ UNCHANGED <<inFlight, ready>>
      /\ UNCHANGED <<generation, looked, autofire, open, scan, due>>
  BY DEF Lookup!Over
<1>2. LookedFor'
  BY Zenon, <1>1 DEF LookupInv, LookedFor
<1>3. status' \in LookupLines
  BY <1>1, StatusLines
<1>4. LookupsTyped'
  BY <1>1, <1>3 DEF LookupInv, LookupsTyped
<1>5. Lookup!IsGtin \in BOOLEAN
  BY DEF Lookup!IsGtin
<1>6. LookupFlags'
  BY <1>1, <1>5 DEF LookupInv, LookupFlags
<1>7. Lookup!ButtonTells'
  BY <1>1 DEF LookupInv, Lookup!ButtonTells, Lookup!IsGtin
<1> QED BY <1>2, <1>4, <1>6, <1>7

LEMMA LookupAnswers ==
  ASSUME LookupInv, Lookup!Answer
  PROVE  LookupInv' /\ Suggested
<1>1. PICK l \in lookups : Lookup!Stale(l) \/ Lookup!Found(l) \/ Lookup!NothingFound(l)
  BY DEF Lookup!Answer
<1>2. PICK says \in LookupLines : Lookup!Over(l, says)
  BY <1>1 DEF Lookup!Stale, Lookup!Found, Lookup!NothingFound, LookupInv, LookupsTyped,
              LookupLines
<1>3. LookedFor' /\ LookupsTyped' /\ LookupFlags' /\ Lookup!ButtonTells'
  BY <1>2, LookupOver
<1>4. \/ UNCHANGED <<name, sku>>
      \/ /\ open /\ scan = l.code
         /\ name' = Lookup!FillEmpty(name, scan) /\ sku' = Lookup!FillEmpty(sku, scan)
  BY Zenon, <1>1 DEF Lookup!Stale, Lookup!Found, Lookup!NothingFound, Lookup!IsStaleResponse
<1>5. scan = l.code => scan \in Gtins
  BY Zenon DEF LookupInv, LookupsTyped
<1>6. LookupFields'
  BY Zenon, <1>4, <1>5 DEF LookupInv, LookupFields, Lookup!FillEmpty, Lookup!Sources
<1>7. Suggested
  BY Zenon, <1>4 DEF Lookup!FillEmpty, Suggested
<1> QED BY <1>3, <1>6, <1>7 DEF LookupInv

LEMMA LookupStep ==
  ASSUME LookupInv, [Lookup!LookupNext]_lookupVars
  PROVE  LookupInv' /\ (Suggested \/ UNCHANGED lookupVars)
<1>1. CASE UNCHANGED lookupVars
  BY Zenon, <1>1 DEF lookupVars, LookupInv, LookupFields, LookedFor, LookupsTyped, LookupFlags,
                     Lookup!ButtonTells, Lookup!IsGtin
<1> QED BY <1>1, LookupUsed, LookupAnswers DEF Lookup!LookupNext
--------------------------------------------------------------------------------
\* A new stocktake.

\* One creation is under way at most, and every campaign but that one was lost.
PostsOf(n) == [no: 1..n, op: {"create", "start"}, served: BOOLEAN]
MakingInv ==
  /\ posts \subseteq PostsOf(sentPosts) /\ sentPosts \in 0..MaxPosts /\ MaxPosts \in Nat
  /\ created \in Nat /\ lostPosts \in Nat /\ creating \in BOOLEAN
  /\ ~creating => posts = {} /\ created = lostPosts /\ lostPosts <= sentPosts
  /\ creating => /\ lostPosts < sentPosts
                 /\ \/ posts = {} /\ at = "left" /\ created = lostPosts + 1
                    \/ \E p \in posts :
                         posts = {p} /\ created = lostPosts +
                                          (IF p.op = "create" /\ ~p.served THEN 0 ELSE 1)

\* Only a chooser on its page has a life of its own; its searches are numbered, for a text.
Choosers ==
  [busy: BOOLEAN, box: Terms, due: BOOLEAN, seq: 0..MaxSearch,
   searches: SUBSET [seq: 1..MaxSearch, term: Terms], shown: 0..MaxSearch, term: Terms]
IsTerm(t) == t # ""
SearchesFit(c) == \A s \in c.searches : s.seq <= c.seq /\ IsTerm(s.term)
Panels == {"loading", "rows", "chooser", "no location", "error"}
ChooserInv ==
  /\ at \in {"list", "new", "left"} /\ places \in {"none", "one", "more"} /\ panel \in Panels
  /\ taking \in BOOLEAN /\ MaxSearch \in Nat
  /\ chooser \in Choosers /\ SearchesFit(chooser)
  /\ panel # "chooser" => chooser = Start!NoChooser
  /\ at = "list" => panel # "chooser"
  /\ chooser.busy /\ at # "left" => creating
\* A text that was applied is searched for, and shown is what was found for it.
TermFits(c) ==
  IsTerm(c.box) /\ ~c.due =>
    /\ \A s \in c.searches : s.seq = c.seq => s.term = c.box
    /\ c.term = c.box \/ (\E s \in c.searches : s.seq = c.seq)
StartInv == MakingInv /\ ChooserInv /\ TermFits(chooser)

LEMMA StartTexts ==
  ASSUME PartsAssumption
  PROVE  /\ MaxPosts \in Nat /\ MaxSearch \in Nat
         /\ \E none \in Terms : Start!NoChooser =
              [busy |-> FALSE, box |-> none, due |-> FALSE, seq |-> 0, searches |-> {},
               shown |-> 0, term |-> none]
BY Zenon DEF PartsAssumption, Start!StartAssumption, Start!NoChooser

LEMMA EmptyChooser ==
  ASSUME PartsAssumption
  PROVE  /\ Start!NoChooser \in Choosers /\ SearchesFit(Start!NoChooser)
         /\ ~Start!NoChooser.busy /\ Start!NoChooser.seq = 0 /\ Start!NoChooser.shown = 0
         /\ Start!NoChooser.term = Start!NoChooser.box /\ Start!NoChooser.searches = {}
<1>1. PICK none \in Terms : Start!NoChooser =
        [busy |-> FALSE, box |-> none, due |-> FALSE, seq |-> 0, searches |-> {},
         shown |-> 0, term |-> none]
  BY StartTexts
<1>2. 0 \in 0..MaxSearch
  BY StartTexts
<1> QED BY <1>1, <1>2 DEF Choosers, SearchesFit

LEMMA StartStart == PartsAssumption /\ Start!StartInit => StartInv
<1> SUFFICES ASSUME PartsAssumption, Start!StartInit
             PROVE  StartInv
  OBVIOUS
<1>1. /\ at \in {"list", "new"} /\ places \in {"none", "one", "more"} /\ panel = "loading"
      /\ posts = {} /\ sentPosts = 0 /\ created = 0 /\ lostPosts = 0
      /\ chooser = Start!NoChooser
  BY Zenon DEF Start!StartInit
<1>2. taking = FALSE /\ creating = FALSE
  BY Zenon DEF Start!StartInit
<1>3. MakingInv
  <2>1. creating \in BOOLEAN /\ ~creating
    BY <1>2
  <2>2. sentPosts \in 0..MaxPosts /\ lostPosts <= sentPosts /\ created \in Nat /\ lostPosts \in Nat
    BY <1>1, StartTexts
  <2> QED BY <1>1, <2>1, <2>2, StartTexts DEF MakingInv
<1>4. ChooserInv
  BY <1>1, <1>2, StartTexts, EmptyChooser DEF ChooserInv, Panels
<1>5. TermFits(chooser)
  BY <1>1, EmptyChooser DEF TermFits
<1> QED BY <1>3, <1>4, <1>5 DEF StartInv

\* Campaigns.
LEMMA MakingStays ==
  ASSUME MakingInv, at # "left", UNCHANGED <<creating, posts, sentPosts, created, lostPosts>>
  PROVE  MakingInv'
BY DEF MakingInv

LEMMA MakingStarts ==
  ASSUME MakingInv, ~creating, Start!Send
  PROVE  MakingInv' /\ creating'
<1> DEFINE p == [no |-> sentPosts + 1, op |-> "create", served |-> FALSE]
<1>1. /\ sentPosts < MaxPosts /\ sentPosts' = sentPosts + 1
      /\ posts' = {p} /\ created' = lostPosts' /\ created' = created /\ lostPosts' = lostPosts
  BY DEF MakingInv, Start!Send
<1>2. sentPosts \in Nat /\ MaxPosts \in Nat /\ created \in Nat /\ lostPosts \in Nat
      /\ lostPosts <= sentPosts
  BY DEF MakingInv
<1>3. sentPosts' \in 0..MaxPosts /\ lostPosts' < sentPosts'
  <2>1. sentPosts' = sentPosts + 1 /\ lostPosts' = lostPosts /\ sentPosts < MaxPosts
    BY <1>1
  <2> QED BY ONLY <2>1, <1>2
<1>4. p \in PostsOf(sentPosts') /\ p.op = "create" /\ ~p.served
  BY <1>1, <1>2 DEF PostsOf
<1> HIDE DEF p
<1>5. posts' \subseteq PostsOf(sentPosts')
  BY <1>1, <1>4
<1>6. created' = lostPosts' + (IF p.op = "create" /\ ~p.served THEN 0 ELSE 1)
  BY <1>1, <1>2, <1>4
<1>7. creating' /\ creating' \in BOOLEAN
  BY DEF Start!Send
<1> QED BY <1>1, <1>2, <1>3, <1>5, <1>6, <1>7 DEF MakingInv

\* What becomes of the one creation under way.
LEMMA MakingGoesOn ==
  ASSUME MakingInv, NEW p \in posts,
         \/ Start!ServePost(p) \/ Start!Created(p) \/ Start!Started(p) \/ Start!CreateFails(p)
  PROVE  /\ MakingInv' /\ creating
         /\ Start!CreateFails(p) \/ creating'
<1>1. /\ creating /\ posts = {p} /\ lostPosts < sentPosts
      /\ created = lostPosts + (IF p.op = "create" /\ ~p.served THEN 0 ELSE 1)
      /\ p \in PostsOf(sentPosts) /\ sentPosts \in Nat /\ created \in Nat /\ lostPosts \in Nat
  BY DEF MakingInv
<1>2. p.op \in {"create", "start"} /\ p.served \in BOOLEAN
  BY <1>1 DEF PostsOf
<1>3. CASE Start!ServePost(p)
  <2> DEFINE q == [p EXCEPT !.served = TRUE]
  <2>1. q \in PostsOf(sentPosts) /\ q.op = p.op /\ q.served
    BY <1>1 DEF PostsOf
  <2>2. /\ posts' = {q} /\ ~p.served
        /\ created' = IF p.op = "create" THEN created + 1 ELSE created
        /\ UNCHANGED <<creating, sentPosts, lostPosts>>
    BY <1>1, <1>3 DEF Start!ServePost, Start!office
  <2> HIDE DEF q
  <2>3. created' = lostPosts' + (IF q.op = "create" /\ ~q.served THEN 0 ELSE 1)
    BY <1>1, <1>2, <2>1, <2>2
  <2> QED BY <1>1, <2>1, <2>2, <2>3 DEF MakingInv
<1>4. CASE Start!Created(p)
  <2> DEFINE q == [p EXCEPT !.op = "start", !.served = FALSE]
  <2>1. q \in PostsOf(sentPosts) /\ q.op = "start"
    BY <1>1 DEF PostsOf
  <2>2. /\ posts' = {q} /\ p.op = "create" /\ p.served
        /\ UNCHANGED <<creating, sentPosts, created, lostPosts>>
    BY <1>1, <1>4 DEF Start!Created, Start!office
  <2> HIDE DEF q
  <2>3. created' = lostPosts' + (IF q.op = "create" /\ ~q.served THEN 0 ELSE 1)
    BY <1>1, <2>1, <2>2
  <2> QED BY <1>1, <2>1, <2>2, <2>3 DEF MakingInv
<1>5. CASE Start!Started(p)
  <2>1. /\ posts' = {} /\ p.op = "start" /\ at' = "left"
        /\ UNCHANGED <<creating, sentPosts, created, lostPosts>>
    BY <1>1, <1>5 DEF Start!Started
  <2> QED BY <1>1, <2>1 DEF MakingInv
<1>6. CASE Start!CreateFails(p)
  <2>1. /\ posts' = {} /\ p.op = "create" /\ creating' = FALSE
        /\ lostPosts' = IF p.served THEN lostPosts + 1 ELSE lostPosts
        /\ UNCHANGED <<sentPosts, created>>
    BY <1>1, <1>6 DEF Start!CreateFails, Start!office
  <2>2. creating' \in BOOLEAN /\ ~creating'
    BY <2>1
  <2>3. created' = lostPosts' /\ lostPosts' <= sentPosts' /\ lostPosts' \in Nat
    BY <1>1, <1>2, <2>1
  <2> QED BY <1>1, <1>6, <2>1, <2>2, <2>3 DEF MakingInv
<1> QED BY <1>3, <1>4, <1>5, <1>6

\* The chooser while the page around it moves.
LEMMA ChooserRests ==
  ASSUME ChooserInv, chooser' = chooser, places' = places,
         at' \in {"list", "new", "left"}, panel' \in Panels, taking' \in BOOLEAN,
         panel # "chooser" \/ panel' = panel, at' = "list" => panel' # "chooser",
         at # "left", creating => creating'
  PROVE  ChooserInv'
BY DEF ChooserInv

\* ... and while it is searched.
Searched(c) ==
  /\ c \in Choosers /\ SearchesFit(c) /\ c.busy = chooser.busy
  /\ \/ c.seq = chooser.seq /\ c.shown \in {chooser.shown, chooser.seq}
     \/ c.seq = chooser.seq + 1 /\ c.shown = chooser.shown
LEMMA ChooserMoves ==
  ASSUME ChooserInv, Start!OnChooser, Start!Search, Searched(chooser')
  PROVE  ChooserInv'
BY DEF ChooserInv, Start!OnChooser, Start!Search, Start!office, Start!making, Searched

LEMMA TermTaken ==
  ASSUME PartsAssumption, Start!TermApplied
  PROVE  \/ \E t \in Terms : chooser' = [chooser EXCEPT !.due = FALSE, !.term = t]
         \/ /\ IsTerm(chooser.box) /\ chooser.seq < MaxSearch
            /\ chooser' = [chooser EXCEPT !.due = FALSE, !.seq = @ + 1,
                 !.searches = @ \cup {[seq |-> chooser.seq + 1, term |-> chooser.box]}]
BY Zenon DEF PartsAssumption, Start!StartAssumption, Start!TermApplied, IsTerm

LEMMA TermSearched ==
  ASSUME PartsAssumption, ChooserInv, Start!TermApplied
  PROVE  Searched(chooser')
<1>1. chooser \in Choosers /\ MaxSearch \in Nat /\ SearchesFit(chooser)
  BY DEF ChooserInv
<1>2. ASSUME NEW t \in Terms, chooser' = [chooser EXCEPT !.due = FALSE, !.term = t]
      PROVE  Searched(chooser')
  BY <1>1, <1>2 DEF Searched, Choosers, SearchesFit
<1>3. ASSUME IsTerm(chooser.box), chooser.seq < MaxSearch,
             chooser' = [chooser EXCEPT !.due = FALSE, !.seq = @ + 1,
               !.searches = @ \cup {[seq |-> chooser.seq + 1, term |-> chooser.box]}]
      PROVE  Searched(chooser')
  <2> DEFINE new == [seq |-> chooser.seq + 1, term |-> chooser.box]
  <2>1. /\ chooser.seq \in Nat /\ chooser.seq + 1 \in 1..MaxSearch /\ chooser.box \in Terms
        /\ chooser.searches \subseteq [seq: 1..MaxSearch, term: Terms]
        /\ chooser.shown \in 0..MaxSearch
    BY <1>1, <1>3 DEF Choosers
  <2>2. new \in [seq: 1..MaxSearch, term: Terms] /\ new.seq = chooser.seq + 1
        /\ new.term = chooser.box
    BY <2>1
  <2> HIDE DEF new
  <2>3. /\ chooser' = [chooser EXCEPT !.due = FALSE, !.seq = chooser.seq + 1,
                                      !.searches = chooser.searches \cup {new}]
    BY <1>3 DEF new
  <2>4. /\ chooser' \in Choosers /\ chooser'.seq = chooser.seq + 1
        /\ chooser'.shown = chooser.shown /\ chooser'.busy = chooser.busy
        /\ chooser'.searches = chooser.searches \cup {new}
    <3>1. chooser.searches \cup {new} \in SUBSET [seq: 1..MaxSearch, term: Terms]
      BY <2>1, <2>2
    <3>2. chooser.seq + 1 \in 0..MaxSearch /\ FALSE \in BOOLEAN
      BY <1>1, <2>1
    <3> QED BY <1>1, <2>3, <3>1, <3>2 DEF Choosers
  <2>5. ASSUME NEW s \in chooser'.searches
        PROVE  s.seq <= chooser'.seq /\ IsTerm(s.term)
    <3>1. CASE s = new
      BY <1>3, <2>1, <2>2, <2>4, <3>1
    <3>2. CASE s \in chooser.searches
      <4>1. s.seq <= chooser.seq /\ IsTerm(s.term) /\ s.seq \in Nat
        BY <1>1, <2>1, <3>2 DEF SearchesFit
      <4> QED BY <2>1, <2>4, <4>1
    <3> QED BY <2>4, <3>1, <3>2
  <2> QED BY <2>4, <2>5 DEF Searched, SearchesFit
<1> QED BY <1>2, <1>3, TermTaken

LEMMA AnswerSearched ==
  ASSUME ChooserInv, NEW s \in chooser.searches,
         Start!SearchDropped(s) \/ Start!SearchAnswered(s) \/ Start!SearchFails(s)
  PROVE  Searched(chooser') /\ Start!OnChooser /\ Start!Search
<1>1. chooser \in Choosers /\ MaxSearch \in Nat /\ SearchesFit(chooser)
  BY DEF ChooserInv
<1>2. s \in [seq: 1..MaxSearch, term: Terms]
      /\ chooser.searches \ {s} \in SUBSET [seq: 1..MaxSearch, term: Terms]
  BY <1>1 DEF Choosers
<1>3. CASE Start!SearchDropped(s)
  <2>1. chooser' = [chooser EXCEPT !.searches = chooser.searches \ {s}]
        /\ Start!OnChooser /\ Start!Search
    BY <1>3 DEF Start!SearchDropped
  <2> QED BY <1>1, <1>2, <2>1 DEF Searched, Choosers, SearchesFit
<1>4. CASE Start!SearchAnswered(s) \/ Start!SearchFails(s)
  <2>1. PICK t \in Terms :
          chooser' = [chooser EXCEPT !.searches = chooser.searches \ {s}, !.shown = s.seq,
                                     !.term = t]
    BY <1>1, <1>2, <1>4 DEF Start!SearchAnswered, Start!SearchFails, Choosers
  <2>2. s.seq = chooser.seq /\ Start!OnChooser /\ Start!Search
    BY <1>4 DEF Start!SearchAnswered, Start!SearchFails, Start!IsNewestSearch
  <2>3. chooser.seq \in 0..MaxSearch
    BY <1>1 DEF Choosers
  <2> QED BY <1>1, <1>2, <2>1, <2>2, <2>3 DEF Searched, Choosers, SearchesFit
<1> QED BY <1>3, <1>4

\* An applied text is the newest search's until that is answered or has failed.
LEMMA TermFitted ==
  ASSUME PartsAssumption, ChooserInv, TermFits(chooser),
         Start!Searching \/ Start!TermApplied \/ (\E t \in Terms : Start!TypeTerm(t))
  PROVE  TermFits(chooser')
<1>1. chooser \in Choosers /\ SearchesFit(chooser) /\ MaxSearch \in Nat
  BY DEF ChooserInv
<1>2. chooser.seq \in Nat /\ \A s \in chooser.searches : s.seq \in Nat /\ s.seq <= chooser.seq
  BY <1>1 DEF Choosers, SearchesFit
<1>3. ASSUME NEW s \in chooser.searches,
             Start!SearchDropped(s) \/ Start!SearchAnswered(s) \/ Start!SearchFails(s)
      PROVE  TermFits(chooser')
  <2>1. CASE Start!SearchDropped(s)
    <3>1. chooser' = [chooser EXCEPT !.searches = chooser.searches \ {s}] /\ s.seq # chooser.seq
      BY <2>1 DEF Start!SearchDropped, Start!IsNewestSearch
    <3> QED BY <1>1, <3>1 DEF TermFits, Choosers
  <2>2. CASE Start!SearchAnswered(s) \/ Start!SearchFails(s)
    <3>1. /\ chooser' = [chooser EXCEPT !.searches = chooser.searches \ {s}, !.shown = s.seq,
                                          !.term = chooser'.term]
          /\ chooser'.term \in {s.term, chooser.box}
      BY <1>1, <2>2 DEF Start!SearchAnswered, Start!SearchFails, Choosers
    <3>2. s.seq = chooser.seq
      BY <2>2 DEF Start!SearchAnswered, Start!SearchFails, Start!IsNewestSearch
    <3>3. /\ chooser'.box = chooser.box /\ chooser'.due = chooser.due
          /\ chooser'.seq = chooser.seq /\ chooser'.searches \subseteq chooser.searches
      BY <1>1, <3>1 DEF Choosers
    <3>4. CASE IsTerm(chooser.box) /\ ~chooser.due
      <4>1. \A r \in chooser.searches : r.seq = chooser.seq => r.term = chooser.box
        BY <3>4 DEF TermFits
      <4>2. chooser'.term = chooser.box
        BY <3>1, <3>2, <4>1
      <4> QED BY <3>3, <4>1, <4>2 DEF TermFits
    <3>5. CASE ~(IsTerm(chooser.box) /\ ~chooser.due)
      BY <3>3, <3>5 DEF TermFits
    <3> QED BY <3>4, <3>5
  <2> QED BY <1>3, <2>1, <2>2
<1>4. CASE Start!TermApplied
  <2>1. CASE ~IsTerm(chooser.box)
    <3>1. chooser'.box = chooser.box
      BY <1>1, <1>4, TermTaken DEF Choosers
    <3> QED BY <2>1, <3>1 DEF TermFits
  <2>2. CASE IsTerm(chooser.box)
    <3> DEFINE new == [seq |-> chooser.seq + 1, term |-> chooser.box]
    <3>1. chooser' = [chooser EXCEPT !.due = FALSE, !.seq = chooser.seq + 1,
                                     !.searches = chooser.searches \cup {new}]
      BY Zenon, <1>4, <2>2 DEF Start!TermApplied, IsTerm
    <3>2. new.seq = chooser.seq + 1 /\ new.term = chooser.box
      OBVIOUS
    <3> HIDE DEF new
    <3>3. /\ chooser'.box = chooser.box /\ chooser'.seq = chooser.seq + 1
          /\ chooser'.searches = chooser.searches \cup {new}
      BY <1>1, <3>1 DEF Choosers
    <3>4. \A s \in chooser.searches : s.seq # chooser.seq + 1
      BY <1>2
    <3>5. \A s \in chooser'.searches : s.seq = chooser'.seq => s.term = chooser'.box
      BY <3>2, <3>3, <3>4
    <3>6. \E s \in chooser'.searches : s.seq = chooser'.seq
      BY <3>2, <3>3
    <3> QED BY <3>5, <3>6 DEF TermFits
  <2> QED BY <2>1, <2>2
<1>5. ASSUME NEW t \in Terms, Start!TypeTerm(t)
      PROVE  TermFits(chooser')
  BY <1>1, <1>5 DEF TermFits, Choosers, Start!TypeTerm
<1> QED BY <1>3, <1>4, <1>5 DEF Start!Searching

\* The search keeps LatestAnswer's promise with every step.
Newest == [Start!LatestSearch!Next]_<<chooser.seq, chooser.shown>>
LEMMA SearchedIsNewest ==
  ASSUME chooser \in Choosers, MaxSearch \in Nat, Searched(chooser')
  PROVE  Newest
<1>1. chooser.seq \in Nat
  BY DEF Choosers
<1> QED BY <1>1 DEF Newest, Searched, Start!LatestSearch!Next, Start!LatestSearch!Ask,
                    Start!LatestSearch!Show

LEMMA StartSearches ==
  ASSUME PartsAssumption, StartInv, at # "left",
         Start!Searching \/ Start!TermApplied \/ (\E t \in Terms : Start!TypeTerm(t))
  PROVE  StartInv' /\ Newest
<1>1. ChooserInv /\ chooser \in Choosers /\ SearchesFit(chooser) /\ MaxSearch \in Nat
  BY DEF StartInv, ChooserInv
<1>2. ASSUME NEW t \in Terms, Start!TypeTerm(t)
      PROVE  Searched(chooser') /\ Start!OnChooser /\ Start!Search
  <2>1. chooser' = [chooser EXCEPT !.box = t, !.due = TRUE] /\ Start!OnChooser /\ Start!Search
    BY <1>2 DEF Start!TypeTerm
  <2> QED BY <1>1, <2>1 DEF Searched, Choosers, SearchesFit
<1>3. Searched(chooser') /\ Start!OnChooser /\ Start!Search
  <2>1. CASE Start!TermApplied
    BY Zenon, <1>1, <2>1, TermSearched DEF Start!TermApplied
  <2> QED BY <1>1, <1>2, <2>1, AnswerSearched DEF Start!Searching
<1>4. ChooserInv'
  BY <1>1, <1>3, ChooserMoves
<1>5. MakingInv'
  BY <1>3, MakingStays DEF StartInv, Start!Search, Start!making
<1>6. Newest
  BY <1>1, <1>3, SearchedIsNewest
<1>7. TermFits(chooser')
  BY <1>1, TermFitted DEF StartInv
<1> QED BY <1>4, <1>5, <1>6, <1>7 DEF StartInv

LEMMA StartPosts ==
  ASSUME PartsAssumption, StartInv, at # "left", Start!Posting
  PROVE  StartInv' /\ Newest
<1>1. PICK p \in posts :
        \/ Start!ServePost(p) \/ Start!Created(p) \/ Start!Started(p) \/ Start!CreateFails(p)
  BY DEF Start!Posting
<1>2. MakingInv' /\ creating /\ (Start!CreateFails(p) \/ creating')
  BY <1>1, MakingGoesOn DEF StartInv
<1>3. CASE Start!ServePost(p) \/ Start!Created(p) \/ Start!Started(p)
  <2>1. /\ chooser' = chooser /\ places' = places /\ panel' = panel /\ taking' = taking
        /\ at' = at \/ at' = "left"
        /\ creating' = creating
    BY <1>3 DEF Start!ServePost, Start!Created, Start!Started, Start!office
  <2>2. ChooserInv'
    BY <2>1 DEF StartInv, ChooserInv
  <2>3. Newest
    BY <2>1 DEF Newest
  <2> QED BY <1>2, <2>1, <2>2, <2>3 DEF StartInv
<1>4. CASE Start!CreateFails(p)
  <2>1. /\ chooser' = [chooser EXCEPT !.busy = FALSE]
        /\ panel' = IF at = "new" THEN "chooser" ELSE panel
        /\ UNCHANGED <<at, places, taking>>
    BY <1>4 DEF Start!CreateFails, Start!office
  <2>2. chooser \in Choosers /\ SearchesFit(chooser)
    BY DEF StartInv, ChooserInv
  <2>3. /\ chooser' \in Choosers /\ ~chooser'.busy /\ chooser'.seq = chooser.seq
        /\ chooser'.shown = chooser.shown /\ chooser'.searches = chooser.searches
        /\ ~chooser.busy => chooser' = chooser
    BY <2>1, <2>2 DEF Choosers
  <2>4. Newest
    BY <2>3 DEF Newest
  <2>5. SearchesFit(chooser')
    BY <2>2, <2>3 DEF SearchesFit
  <2>6. panel' # "chooser" => chooser' = Start!NoChooser
    BY <2>1, <2>3, EmptyChooser DEF StartInv, ChooserInv
  <2>7. ChooserInv'
    BY <2>1, <2>3, <2>5, <2>6 DEF StartInv, ChooserInv, Panels
  <2>8. TermFits(chooser')
    BY <2>1, <2>2 DEF StartInv, TermFits, Choosers
  <2> QED BY <1>2, <2>4, <2>7, <2>8 DEF StartInv
<1> QED BY <1>1, <1>3, <1>4

\* The list, its button, the page that asks for a location, and a tap on a row.
LEMMA StartLoads ==
  ASSUME PartsAssumption, StartInv, at # "left",
         Start!Loading \/ Start!Masters \/ Start!PressNew \/ Start!Retry
  PROVE  StartInv' /\ Newest
<1>1. chooser' = chooser /\ places' = places
  BY DEF Start!Loading, Start!ListLoads, Start!NewLoads, Start!NewFails, Start!Masters,
         Start!MastersAnswered, Start!MastersFail, Start!PressNew, Start!Retry, Start!office
<1>2. /\ at' \in {"list", "new", "left"} /\ panel' \in Panels
      /\ panel # "chooser" \/ panel' = panel
      /\ at' = "list" => panel' # "chooser"
  BY DEF StartInv, ChooserInv, Panels, Start!Loading, Start!ListLoads, Start!NewLoads,
         Start!NewFails, Start!Masters, Start!MastersAnswered, Start!MastersFail,
         Start!PressNew, Start!Retry, Start!office
<1>3. taking' \in BOOLEAN
  BY DEF StartInv, ChooserInv, Start!Loading, Start!ListLoads, Start!NewLoads,
         Start!NewFails, Start!Masters, Start!MastersAnswered, Start!MastersFail,
         Start!PressNew, Start!Retry
<1>4. \/ ~creating /\ Start!Send
      \/ UNCHANGED <<creating, posts, sentPosts, created, lostPosts>>
  BY DEF Start!Loading, Start!ListLoads, Start!NewLoads,
         Start!NewFails, Start!Masters, Start!MastersAnswered, Start!MastersFail,
         Start!PressNew, Start!Retry, Start!making
<1>5. MakingInv' /\ (creating => creating')
  BY <1>4, MakingStays, MakingStarts DEF StartInv
<1>6. ChooserInv'
  BY <1>1, <1>2, <1>3, <1>5, ChooserRests DEF StartInv
<1>7. Newest
  BY <1>1 DEF Newest
<1> QED BY <1>1, <1>5, <1>6, <1>7 DEF StartInv

LEMMA StartPicks ==
  ASSUME PartsAssumption, StartInv, at # "left", Start!Pick
  PROVE  StartInv' /\ Newest
<1>1. at = "new" /\ panel = "chooser" /\ UNCHANGED <<at, places, panel, taking>>
  BY DEF Start!Pick, Start!OnChooser, Start!office
<1>2. CASE creating
  <2>1. UNCHANGED <<creating, posts, sentPosts, created, lostPosts, chooser>>
    BY <1>2 DEF Start!Pick, Start!making
  <2> QED BY <1>1, <2>1, MakingStays DEF StartInv, ChooserInv, Newest
<1>3. CASE ~creating
  <2>1. Start!Send /\ chooser' = [chooser EXCEPT !.busy = TRUE]
    BY <1>3 DEF Start!Pick
  <2>2. chooser \in Choosers /\ SearchesFit(chooser)
    BY DEF StartInv, ChooserInv
  <2>3. /\ chooser' \in Choosers /\ chooser'.seq = chooser.seq /\ chooser'.shown = chooser.shown
        /\ chooser'.searches = chooser.searches
    BY <2>1, <2>2 DEF Choosers
  <2>4. MakingInv' /\ creating'
    BY <1>3, <2>1, MakingStarts DEF StartInv
  <2>5. ChooserInv'
    BY <1>1, <2>2, <2>3, <2>4 DEF StartInv, ChooserInv, SearchesFit
  <2>6. Newest
    BY <2>3 DEF Newest
  <2>7. TermFits(chooser')
    BY <2>1, <2>2 DEF StartInv, TermFits, Choosers
  <2> QED BY <2>4, <2>5, <2>6, <2>7 DEF StartInv
<1> QED BY <1>2, <1>3

LEMMA StartStep ==
  ASSUME PartsAssumption, StartInv, [Start!StartNext]_startVars
  PROVE  StartInv' /\ Newest
<1>1. CASE UNCHANGED startVars
  BY <1>1 DEF startVars, StartInv, MakingInv, ChooserInv, Newest, SearchesFit, TermFits
<1> QED BY <1>1, StartSearches, StartPosts, StartLoads, StartPicks
        DEF Start!StartNext, Start!User

LEMMA StartCounts ==
  ASSUME NEW S
  PROVE  Start!Cardinality(S) = Cardinality(S)
BY DEF Start!Cardinality, Cardinality

LEMMA StartKeeps ==
  ASSUME StartInv
  PROVE  Start!TypeOK /\ Start!OneCampaign /\ Start!ChooserIsFree /\ Start!TypedIsFound
<1>1. Start!ChooserIsFree
  BY DEF StartInv, ChooserInv, Start!ChooserIsFree
<1>2. Start!OneCampaign
  <2> DEFINE asked == {p \in posts : p.op = "create" /\ ~p.served}
  <2>1. created \in Nat /\ lostPosts \in Nat
    BY DEF StartInv, MakingInv
  <2>2. \/ asked = {} /\ created <= lostPosts + 1
        \/ (\E p \in posts : asked = {p}) /\ created = lostPosts
    BY DEF StartInv, MakingInv
  <2> HIDE DEF asked
  <2>3. created + Cardinality(asked) <= 1 + lostPosts
    <3>1. CASE asked = {}
      BY <2>1, <2>2, <3>1, FS_EmptySet
    <3>2. ASSUME NEW p \in posts, asked = {p}, created = lostPosts
          PROVE  created + Cardinality(asked) <= 1 + lostPosts
      <4>1. Cardinality(asked) = 1
        BY <3>2, FS_Singleton
      <4> QED BY <2>1, <3>2, <4>1
    <3> QED BY <2>2, <3>1, <3>2
  <2> QED BY <2>3, StartCounts DEF asked, Start!OneCampaign
<1>3. /\ posts \subseteq PostsOf(sentPosts) /\ sentPosts \in 0..MaxPosts
      /\ created \in 0..MaxPosts /\ lostPosts \in 0..MaxPosts
  <2>1. created \in Nat /\ lostPosts \in Nat /\ sentPosts \in 0..MaxPosts /\ MaxPosts \in Nat
        /\ posts \subseteq PostsOf(sentPosts)
    BY DEF StartInv, MakingInv
  <2>2. lostPosts <= sentPosts /\ created <= sentPosts
    BY <2>1 DEF StartInv, MakingInv
  <2> QED BY <2>1, <2>2
<1>4. \A p \in posts : p.no \in 1..sentPosts /\ p.op \in {"create", "start"}
  BY <1>3 DEF PostsOf
<1>5. {taking, creating, chooser.busy, chooser.due} \subseteq BOOLEAN
  BY DEF StartInv, MakingInv, ChooserInv, Choosers
<1>6. \A s \in chooser.searches : s.seq \in 1..chooser.seq /\ IsTerm(s.term)
  <2>1. chooser.searches \subseteq [seq: 1..MaxSearch, term: Terms] /\ MaxSearch \in Nat
        /\ chooser.seq \in Nat
    BY DEF StartInv, ChooserInv, Choosers
  <2>2. \A s \in chooser.searches : s.seq <= chooser.seq /\ IsTerm(s.term)
    BY DEF StartInv, ChooserInv, SearchesFit
  <2> QED BY <2>1, <2>2
<1>7. chooser.box \in Terms /\ chooser.seq \in 0..MaxSearch
  BY DEF StartInv, ChooserInv, Choosers
<1>8. Start!TypeOK
  BY Zenon, <1>3, <1>4, <1>5, <1>6, <1>7 DEF StartInv, ChooserInv, Panels, IsTerm, Start!TypeOK
<1>9. Start!TypedIsFound
  BY Zenon DEF StartInv, TermFits, IsTerm, Start!TypedIsFound
<1> QED BY <1>1, <1>2, <1>8, <1>9
--------------------------------------------------------------------------------
\* Pickers.

\* The lists there are: what the field says of them, and whom they offer.
LEMMA PickerLists ==
  /\ Choose!Shut.is = "shut" /\ Choose!Shut.ids = {}
  /\ \A is : Choose!Message(is).is = is /\ Choose!Message(is).ids = {}
  /\ \A text, ids :
       /\ Choose!Options(text, ids).is \in {"options", "no match"}
       /\ Choose!Options(text, ids).is = "options" => Choose!Options(text, ids).text = text
       /\ Choose!Options(text, ids).ids = ids
<1>1. /\ \E none : Choose!Shut = [is |-> "shut", text |-> none, ids |-> {}]
      /\ \E none : \A is : Choose!Message(is) = [is |-> is, text |-> none, ids |-> {}]
  BY Zenon DEF Choose!Shut, Choose!Message
<1>2. PICK none : \A is : Choose!Message(is) = [is |-> is, text |-> none, ids |-> {}]
  BY <1>1
<1>3. \A is : Choose!Message(is).is = is /\ Choose!Message(is).ids = {}
  BY <1>2
<1>4. Choose!Shut.is = "shut" /\ Choose!Shut.ids = {}
  BY <1>1
<1>5. ASSUME NEW text, NEW ids
      PROVE  /\ Choose!Options(text, ids).is \in {"options", "no match"}
             /\ Choose!Options(text, ids).is = "options" => Choose!Options(text, ids).text = text
             /\ Choose!Options(text, ids).ids = ids
  <2>1. Choose!Options(text, ids) = IF ids = {} THEN Choose!Message("no match")
          ELSE [is |-> "options", text |-> text, ids |-> ids]
    BY DEF Choose!Options
  <2>2. CASE ids = {}
    BY <1>3, <2>1, <2>2
  <2>3. CASE ids # {}
    <3> DEFINE o == [is |-> "options", text |-> text, ids |-> ids]
    <3>1. Choose!Options(text, ids) = o
      BY <2>1, <2>3
    <3>2. o.is = "options" /\ o.text = text /\ o.ids = ids
      OBVIOUS
    <3> HIDE DEF o
    <3> QED BY <3>1, <3>2
  <2> QED BY <2>2, <2>3
<1> QED BY <1>3, <1>4, <1>5

LEMMA PickerTexts ==
  ASSUME PartsAssumption
  PROVE  /\ Choose!NoAlarm \notin Words
         /\ \A t \in Words : Finds[t] \subseteq Ids
         /\ \E none \in Words : Choose!PickerInit => word = none
BY Zenon DEF PartsAssumption, Choose!PickerAssumption, Choose!PickerInit

Distinct(s) == \A i, j \in 1..Len(s) : s[i] = s[j] => i = j
Lists == {"shut", "options", "no match", "too short", "searching", "failed"}
ChipsInv ==
  /\ chips \in Seq(Ids) /\ Distinct(chips) /\ (~multi => Len(chips) <= 1)
  /\ multi \in BOOLEAN
OptionsInv ==
  /\ options.is \in Lists /\ Choose!OfferedAreFound
  /\ source = "local" => options.ids \cap Choose!Chosen = {}
FieldInv ==
  /\ source \in {"directory", "local"} /\ word \in Words
  /\ alarm \in Words \cup {Choose!NoAlarm}
  /\ source = "local" => alarm = Choose!NoAlarm /\ asks = {}
  /\ entered \in {"input", "options", "away"} /\ blurred \in BOOLEAN
PickerInv == ChipsInv /\ OptionsInv /\ FieldInv

LEMMA PickerStart == PartsAssumption /\ Choose!PickerInit => PickerInv
<1> SUFFICES ASSUME PartsAssumption, Choose!PickerInit
             PROVE  PickerInv
  OBVIOUS
<1>1. /\ source \in {"directory", "local"} /\ chips = <<>> /\ asks = {}
      /\ alarm = Choose!NoAlarm /\ options = Choose!Shut /\ entered = "away"
  BY Zenon DEF Choose!PickerInit
<1>2. multi \in BOOLEAN /\ blurred = FALSE
  BY Zenon DEF Choose!PickerInit
<1>3. word \in Words
  BY PickerTexts
<1>4. ChipsInv
  BY <1>1, <1>2 DEF ChipsInv, Distinct
<1>5. OptionsInv
  BY <1>1, PickerLists DEF OptionsInv, Lists, Choose!OfferedAreFound
<1>6. FieldInv
  BY <1>1, <1>2, <1>3 DEF FieldInv
<1> QED BY <1>4, <1>5, <1>6 DEF PickerInv

\* What is chosen; a chip more, and a chip less.
LEMMA ChosenAre ==
  ASSUME NEW s \in Seq(Ids)
  PROVE  Choose!ToSet(s) = {s[i] : i \in 1..Len(s)} /\ Choose!ToSet(s) \subseteq Ids
BY DEF Choose!ToSet

LEMMA ChipAdded ==
  ASSUME ChipsInv, NEW id \in Ids, id \notin Choose!Chosen
  PROVE  Append(chips, id) \in Seq(Ids) /\ Distinct(Append(chips, id))
<1>1. chips \in Seq(Ids) /\ Distinct(chips) /\ Len(chips) \in Nat
  BY DEF ChipsInv
<1>2. \A i \in 1..Len(chips) : chips[i] # id
  BY <1>1, ChosenAre DEF Choose!Chosen
<1> DEFINE s == Append(chips, id)
<1>3. /\ s \in Seq(Ids) /\ Len(s) = Len(chips) + 1 /\ s[Len(s)] = id
      /\ \A i \in 1..Len(chips) : s[i] = chips[i]
  BY <1>1
<1> HIDE DEF s
<1>4. ASSUME NEW i \in 1..Len(s), NEW j \in 1..Len(s), s[i] = s[j]
      PROVE  i = j
  BY <1>1, <1>2, <1>3, <1>4 DEF Distinct
<1> QED BY <1>3, <1>4 DEF Distinct, s

LEMMA ChipRemoved ==
  ASSUME ChipsInv, NEW i \in 1..Len(chips), chips' = Choose!RemoveAt(chips, i)
  PROVE  /\ chips' \in Seq(Ids) /\ Distinct(chips') /\ Len(chips') <= Len(chips)
         /\ Choose!Chosen' \subseteq Choose!Chosen
<1>1. chips \in Seq(Ids) /\ Distinct(chips) /\ Len(chips) \in Nat
  BY DEF ChipsInv
<1> DEFINE a == SubSeq(chips, 1, i - 1)
           b == SubSeq(chips, i + 1, Len(chips))
<1>2. /\ a \in Seq(Ids) /\ Len(a) = i - 1 /\ \A j \in 1..(i - 1) : a[j] = chips[j]
  BY <1>1
<1>3. /\ b \in Seq(Ids) /\ Len(b) = Len(chips) - i
      /\ \A j \in 1..(Len(chips) - i) : b[j] = chips[j + i]
  BY <1>1
<1>4. chips' = a \o b
  BY DEF Choose!RemoveAt
<1> HIDE DEF a, b
<1>5. /\ chips' \in Seq(Ids) /\ Len(chips') = Len(chips) - 1
      /\ \A j \in 1..(Len(chips) - 1) : chips'[j] = IF j < i THEN chips[j] ELSE chips[j + 1]
  <2>1. chips' \in Seq(Ids) /\ Len(chips') = Len(a) + Len(b)
        /\ \A j \in 1..Len(chips') : chips'[j] = IF j <= Len(a) THEN a[j] ELSE b[j - Len(a)]
    BY <1>2, <1>3, <1>4
  <2>2. Len(chips') = Len(chips) - 1
    BY <1>1, <1>2, <1>3, <2>1
  <2>3. ASSUME NEW j \in 1..(Len(chips) - 1)
        PROVE  chips'[j] = IF j < i THEN chips[j] ELSE chips[j + 1]
    <3>1. CASE j < i
      <4>1. j \in 1..(i - 1) /\ j <= Len(a)
        BY <1>1, <1>2, <3>1
      <4> QED BY <1>2, <2>1, <2>2, <3>1, <4>1
    <3>2. CASE ~(j < i)
      <4>1. j - Len(a) \in 1..(Len(chips) - i) /\ ~(j <= Len(a)) /\ (j - Len(a)) + i = j + 1
        BY <1>1, <1>2, <3>2
      <4> QED BY <1>3, <2>1, <2>2, <3>2, <4>1
    <3> QED BY <3>1, <3>2
  <2> QED BY <2>1, <2>2, <2>3
<1>6. Distinct(chips')
  BY <1>1, <1>5 DEF Distinct
<1>7. \A j \in 1..Len(chips') : \E k \in 1..Len(chips) : chips'[j] = chips[k]
  BY <1>1, <1>5
<1>8. Choose!Chosen' \subseteq Choose!Chosen
  BY <1>1, <1>5, <1>7, ChosenAre DEF Choose!Chosen
<1> QED BY <1>1, <1>5, <1>6, <1>8

\* A list that opens below the field: closed, a word about it, or what was found for the text.
Opens(o) ==
  \/ o = Choose!Shut
  \/ \E is \in Lists \ {"options"} : o = Choose!Message(is)
  \/ \E ids : /\ o = Choose!Options(word', ids)
              /\ source = "local" => ids \cap Choose!Chosen' = {}
LEMMA ListOpens ==
  ASSUME Opens(options'), source' = source
  PROVE  OptionsInv'
<1>1. CASE options' = Choose!Shut
  BY <1>1, PickerLists DEF OptionsInv, Lists, Choose!OfferedAreFound
<1>2. ASSUME NEW is \in Lists \ {"options"}, options' = Choose!Message(is)
      PROVE  OptionsInv'
  <2>1. options'.is = is /\ options'.ids = {}
    BY <1>2, PickerLists
  <2> QED BY <2>1 DEF OptionsInv, Choose!OfferedAreFound
<1>3. ASSUME NEW ids, options' = Choose!Options(word', ids),
             source = "local" => ids \cap Choose!Chosen' = {}
      PROVE  OptionsInv'
  <2>1. /\ options'.is \in {"options", "no match"} /\ options'.ids = ids
        /\ options'.is = "options" => options'.text = word'
    BY <1>3, PickerLists
  <2> QED BY <1>3, <2>1 DEF OptionsInv, Lists, Choose!OfferedAreFound
<1> QED BY <1>1, <1>2, <1>3 DEF Opens

LEMMA PickerTypes ==
  ASSUME PartsAssumption, PickerInv, NEW text \in Words, Choose!Type(text)
  PROVE  PickerInv'
<1>1. /\ entered = "input" /\ word' = text /\ UNCHANGED <<source, multi, chips, asks, entered, blurred>>
      /\ \/ /\ source = "local" /\ alarm' = alarm
            /\ options' = Choose!Shut
               \/ options' = Choose!Options(text, Choose!FilterOptions(text))
         \/ /\ source # "local" /\ alarm' = Choose!NoAlarm
            /\ options' = Choose!Shut \/ options' = Choose!Message("too short")
         \/ source # "local" /\ alarm' = text /\ options' = options
  BY Zenon DEF Choose!Type
<1>2. ChipsInv' /\ Choose!Chosen' = Choose!Chosen
  BY <1>1 DEF PickerInv, ChipsInv, Choose!Chosen
<1>3. FieldInv'
  BY <1>1 DEF PickerInv, FieldInv
<1>4. CASE source # "local" /\ alarm' = text /\ options' = options
  BY <1>1, <1>2, <1>4, PickerTexts, <1>3
     DEF PickerInv, OptionsInv, Choose!OfferedAreFound, Choose!NoAlarm
<1>5. CASE source = "local" \/ alarm' = Choose!NoAlarm
  <2>1. "too short" \in Lists \ {"options"}
    BY DEF Lists
  <2>2. Opens(options')
    <3>1. CASE options' \in {Choose!Shut, Choose!Message("too short")}
      BY <2>1, <3>1 DEF Opens
    <3>2. CASE options' = Choose!Options(text, Choose!FilterOptions(text))
      <4>1. Choose!FilterOptions(text) \cap Choose!Chosen' = {}
        BY <1>2 DEF Choose!FilterOptions
      <4> QED BY <1>1, <3>2, <4>1 DEF Opens
    <3> QED BY <1>1, <1>5, <3>1, <3>2, PickerTexts
  <2> QED BY <1>1, <1>2, <1>3, <2>2, ListOpens DEF PickerInv
<1> QED BY <1>1, <1>2, <1>3, <1>4, <1>5, ListOpens DEF PickerInv

LEMMA PickerMoves ==
  ASSUME PartsAssumption, PickerInv,
         Choose!Enter \/ Choose!ArrowDown \/ Choose!LeaveField \/ Choose!BlurTimer
  PROVE  PickerInv'
<1>1. /\ UNCHANGED <<source, multi, chips, word, alarm, asks>>
      /\ entered' \in {"input", "options", "away"} \cup {entered}
      /\ \/ options' = options
         \/ options' = Choose!Shut
         \/ options' = Choose!Options(word, Choose!FilterOptions(word))
  BY DEF Choose!Enter, Choose!ArrowDown, Choose!LeaveField, Choose!BlurTimer
<1>2. blurred' \in BOOLEAN
  BY DEF PickerInv, FieldInv, Choose!Enter, Choose!ArrowDown, Choose!LeaveField, Choose!BlurTimer
<1>3. ChipsInv' /\ Choose!Chosen' = Choose!Chosen
  BY <1>1 DEF PickerInv, ChipsInv, Choose!Chosen
<1>4. FieldInv'
  BY <1>1, <1>2 DEF PickerInv, FieldInv
<1>5. CASE options' = options
  BY <1>1, <1>3, <1>4, <1>5 DEF PickerInv, OptionsInv, Choose!OfferedAreFound, Choose!NoAlarm
<1>6. CASE options' # options
  <2>1. Opens(options')
    BY <1>1, <1>3, <1>6 DEF Opens, Choose!FilterOptions
  <2> QED BY <1>1, <1>3, <1>4, <2>1, ListOpens DEF PickerInv
<1> QED BY <1>3, <1>4, <1>5, <1>6 DEF PickerInv

LEMMA PickerPicks ==
  ASSUME PartsAssumption, PickerInv, NEW id \in Ids, Choose!Pick(id)
  PROVE  PickerInv'
<1>1. /\ chips' = IF multi THEN Choose!Added(id) ELSE <<id>>
      /\ word' \in Words /\ entered' = "input"
      /\ \/ source = "local" /\ options' = Choose!Options(word', Finds[word'] \ Choose!ToSet(chips'))
         \/ source # "local" /\ options' = Choose!Shut
      /\ UNCHANGED <<source, multi, alarm, asks>>
  BY Zenon DEF PartsAssumption, Choose!PickerAssumption, Choose!Pick
<1>2. blurred' \in BOOLEAN
  BY DEF PickerInv, FieldInv, Choose!Pick
<1>3. chips' \in Seq(Ids) /\ Distinct(chips') /\ (~multi => Len(chips') <= 1)
  <2>1. CASE multi
    BY <1>1, <2>1, ChipAdded DEF PickerInv, ChipsInv, Choose!Added
  <2>2. CASE ~multi
    <3>1. chips' = <<id>>
      BY <1>1, <2>2
    <3> QED BY <3>1 DEF Distinct
  <2> QED BY <2>1, <2>2
<1>4. ChipsInv'
  BY <1>1, <1>3 DEF PickerInv, ChipsInv
<1>5. FieldInv'
  BY <1>1, <1>2 DEF PickerInv, FieldInv
<1>6. OptionsInv'
  BY <1>1, ListOpens DEF Opens, Choose!Chosen
<1> QED BY <1>4, <1>5, <1>6 DEF PickerInv

LEMMA PickerRemoves ==
  ASSUME PickerInv, NEW id \in Ids, Choose!RemoveChip(id)
  PROVE  PickerInv'
<1>1. PICK i \in DOMAIN chips : chips' = Choose!RemoveAt(chips, i)
  BY DEF Choose!RemoveChip
<1>2. chips \in Seq(Ids) /\ i \in 1..Len(chips)
  BY DEF PickerInv, ChipsInv
<1>3. UNCHANGED <<source, multi, word, alarm, asks, options, entered, blurred>>
  BY DEF Choose!RemoveChip
<1>4. /\ chips' \in Seq(Ids) /\ Distinct(chips') /\ Len(chips') <= Len(chips)
      /\ Choose!Chosen' \subseteq Choose!Chosen
  BY <1>1, <1>2, ChipRemoved DEF PickerInv
<1>5. ChipsInv'
  <2>1. Len(chips) \in Nat /\ Len(chips') \in Nat
    BY <1>2, <1>4
  <2> QED BY <1>3, <1>4, <2>1 DEF PickerInv, ChipsInv
<1>6. OptionsInv' /\ FieldInv'
  BY <1>3, <1>4 DEF PickerInv, OptionsInv, FieldInv, Choose!OfferedAreFound
<1> QED BY <1>5, <1>6 DEF PickerInv

LEMMA PickerAsks ==
  ASSUME PartsAssumption, PickerInv,
         Choose!TimerFires \/ \E t \in asks : Choose!Answered(t)
  PROVE  PickerInv'
<1>1. UNCHANGED <<source, multi, chips, word, entered, blurred>> /\ source # "local"
  BY DEF Choose!TimerFires, Choose!Answered, PickerInv, FieldInv
<1>2. ChipsInv' /\ Choose!Chosen' = Choose!Chosen
  BY <1>1 DEF PickerInv, ChipsInv, Choose!Chosen
<1>3. alarm' \in {alarm, Choose!NoAlarm}
  BY DEF Choose!TimerFires, Choose!Answered
<1>4. FieldInv'
  BY <1>1, <1>3 DEF PickerInv, FieldInv
<1>5. CASE Choose!TimerFires
  <2>1. options' = Choose!Message("searching") /\ "searching" \in Lists \ {"options"}
    BY <1>5 DEF Choose!TimerFires, Lists
  <2> QED BY <1>1, <1>2, <1>4, <2>1, ListOpens DEF Opens, PickerInv
<1>6. ASSUME NEW t \in asks, Choose!Answered(t)
      PROVE  OptionsInv'
  <2>1. CASE options' = options /\ alarm' = alarm
    BY <1>1, <1>2, <2>1 DEF PickerInv, OptionsInv, Choose!OfferedAreFound
  <2>2. CASE word = t /\ options' \in {Choose!Options(t, Finds[t]), Choose!Message("failed")}
    <3>1. "failed" \in Lists \ {"options"}
      BY DEF Lists
    <3> QED BY <1>1, <2>2, <3>1, ListOpens DEF Opens
  <2> QED BY <1>6, <2>1, <2>2 DEF Choose!Answered, Choose!StillTheText
<1> QED BY <1>2, <1>4, <1>5, <1>6 DEF PickerInv

LEMMA PickerStep ==
  ASSUME PartsAssumption, PickerInv, [Choose!PickerNext]_pickerVars
  PROVE  PickerInv'
<1>1. CASE UNCHANGED pickerVars
  BY <1>1 DEF pickerVars, PickerInv, ChipsInv, OptionsInv, FieldInv, Choose!OfferedAreFound,
              Choose!Chosen
<1> QED BY <1>1, PickerTypes, PickerMoves, PickerPicks, PickerRemoves, PickerAsks
        DEF Choose!PickerNext, Choose!Timers, Choose!User

LEMMA PickerKeeps ==
  ASSUME PickerInv
  PROVE  Choose!TypeOK /\ Choose!OfferedAreFound /\ Choose!ChosenOnce
<1>1. chips \in Seq(Ids) /\ Distinct(chips) /\ Len(chips) \in Nat
  BY DEF PickerInv, ChipsInv
<1>2. Choose!Chosen = {chips[i] : i \in 1..Len(chips)} /\ Choose!Chosen \subseteq Ids
  BY <1>1, ChosenAre DEF Choose!Chosen
<1>3. Cardinality(Choose!Chosen) = Len(chips)
  <2>1. chips \in Bijection(1..Len(chips), Choose!Chosen)
    BY <1>1, <1>2 DEF Bijection, Injection, Surjection, IsInjective, Distinct
  <2>2. ExistsBijection(1..Len(chips), Choose!Chosen)
    BY <2>1 DEF ExistsBijection
  <2> QED BY <1>1, <2>2, FS_CountingElements
<1>4. Choose!Cardinality(Choose!Chosen) = Cardinality(Choose!Chosen)
  BY DEF Choose!Cardinality, Cardinality
<1>5. Choose!ChosenOnce
  BY <1>3, <1>4 DEF PickerInv, OptionsInv, Choose!ChosenOnce
<1>6. Choose!TypeOK
  BY <1>2 DEF PickerInv, ChipsInv, OptionsInv, FieldInv, Lists, Choose!TypeOK
<1>7. Choose!OfferedAreFound
  BY DEF PickerInv, OptionsInv
<1> QED BY <1>5, <1>6, <1>7
--------------------------------------------------------------------------------
\* On-screen keyboard.

\* Whose padding is noted right: while it is padded no padding is noted, before and after it
\* has none.
Noted(pads, keeps, wrong) ==
  \A h \in Pad!Hosts \ wrong : /\ keeps[h] \in {0, Pad!NoAttribute}
                               /\ keeps[h] = Pad!NoAttribute => pads[h] = 0

\* The properties are kept by every step as they are.
PadInv ==
  /\ Pad!TypeOK
  /\ Pad!NothingToGiveBack /\ Pad!OneHostIsPadded /\ Pad!FieldHasRoom
  /\ Noted(padding, kept, mistaken)

LEMMA PadBounds ==
  ASSUME PartsAssumption
  PROVE  /\ Pad!NoField \notin Typing /\ Typing \subseteq Fields /\ Heights \subseteq Nat \ {0}
BY DEF PartsAssumption, Pad!PadAssumption

\* What the paddings and what was kept of them may be; what the properties ask of them.
Paddings(pads, keeps, host, wrong) ==
  /\ pads \in [Pad!Hosts -> Heights \cup {0}]
  /\ keeps \in [Pad!Hosts -> Heights \cup {0, Pad!NoAttribute}]
  /\ host \in Pad!Hosts \cup {Pad!NoHost}
  /\ \A h \in Pad!Hosts : keeps[h] # Pad!NoAttribute => h = host
  /\ wrong \subseteq Pad!Hosts /\ Noted(pads, keeps, wrong)
Rest(keeps, host) ==
  host = Pad!NoHost /\ \A h \in Pad!Hosts : keeps[h] = Pad!NoAttribute
RoomOf(f, height, pads, host) == host = Pad!Host(f) /\ pads[Pad!Host(f)] = height

LEMMA PadMeans ==
  ASSUME PartsAssumption
  PROVE  PadInv <=>
           /\ Paddings(padding, kept, paddedHost, mistaken)
           /\ keyboard \in Heights \cup {0} /\ heard \in BOOLEAN
           /\ field \in Fields \cup {Pad!NoField}
           /\ retries \in 0..2 /\ blurTimer \in {"off", "on", "void"}
           /\ heard /\ keyboard = 0 => Rest(kept, paddedHost)
           /\ heard /\ keyboard > 0 /\ field \in Typing =>
                RoomOf(field, keyboard, padding, paddedHost)
BY Zenon DEF PadInv, Pad!TypeOK, Pad!NothingToGiveBack, Pad!OneHostIsPadded,
             Pad!FieldHasRoom, Paddings, Rest, RoomOf

LEMMA RoomMade ==
  ASSUME Paddings(padding, kept, paddedHost, mistaken), keyboard \in Heights \cup {0}, NEW f, Pad!Room(f)
  PROVE  /\ Paddings(padding', kept', paddedHost', mistaken')
         /\ RoomOf(f, keyboard, padding', paddedHost')
<1> DEFINE h == Pad!Host(f)
           restored == {g \in Pad!Hosts \ {h} : g = paddedHost /\ kept[g] # Pad!NoAttribute}
<1>1. /\ padding' = [g \in Pad!Hosts |-> IF g = h THEN keyboard
                                         ELSE IF g \in restored THEN kept[g] ELSE padding[g]]
      /\ kept' = [g \in Pad!Hosts |-> IF g \in restored THEN Pad!NoAttribute
                                      ELSE IF g = h /\ Pad!Keeps(h) THEN padding[h] ELSE kept[g]]
      /\ paddedHost' = h
      /\ mistaken' = IF kept[h] = 0 THEN mistaken \cup {h} ELSE mistaken
  BY DEF Pad!Room
<1>2. h \in Pad!Hosts
  BY DEF Pad!Host, Pad!Hosts
<1> HIDE DEF h
<1>3. \A g \in Pad!Hosts : kept'[g] # Pad!NoAttribute => g = h
  BY <1>1, <1>2 DEF Paddings
<1>4. padding' \in [Pad!Hosts -> Heights \cup {0}]
  BY <1>1, <1>2 DEF Paddings
<1>5. kept' \in [Pad!Hosts -> Heights \cup {0, Pad!NoAttribute}]
  BY <1>1, <1>2 DEF Paddings
<1>6. mistaken' \subseteq Pad!Hosts
  BY <1>1, <1>2 DEF Paddings
<1>7. ASSUME NEW g \in Pad!Hosts \ mistaken'
      PROVE  /\ kept'[g] \in {0, Pad!NoAttribute}
             /\ kept'[g] = Pad!NoAttribute => padding'[g] = 0
  <2>1. g \notin mistaken /\ kept[g] \in {0, Pad!NoAttribute}
        /\ (kept[g] = Pad!NoAttribute => padding[g] = 0)
    BY <1>1, <1>7 DEF Paddings, Noted
  <2>2. CASE g = h
    <3>1. kept[h] = Pad!NoAttribute
      BY <1>1, <1>7, <2>1, <2>2
    <3>2. kept'[h] = padding[h]
      BY <1>1, <1>2, <3>1 DEF Pad!Keeps
    <3>3. kept'[g] = 0
      BY <2>1, <2>2, <3>1, <3>2
    <3> QED BY <3>3 DEF Pad!NoAttribute
  <2>3. CASE g # h
    <3>1. CASE g \in restored
      BY <1>1, <1>7, <2>1, <2>3, <3>1
    <3>2. CASE g \notin restored
      BY <1>1, <1>7, <2>1, <2>3, <3>2
    <3> QED BY <3>1, <3>2
  <2> QED BY <2>2, <2>3
<1>8. Noted(padding', kept', mistaken')
  BY <1>7 DEF Noted
<1> QED BY <1>1, <1>2, <1>3, <1>4, <1>5, <1>6, <1>8 DEF Paddings, RoomOf, h

LEMMA RoomTaken ==
  ASSUME Paddings(padding, kept, paddedHost, mistaken), Pad!NoRoom
  PROVE  Paddings(padding', kept', paddedHost', mistaken') /\ Rest(kept', paddedHost')
<1> DEFINE h == IF paddedHost = Pad!NoHost THEN "page" ELSE paddedHost
<1>1. /\ padding' = IF kept[h] = Pad!NoAttribute THEN padding ELSE [padding EXCEPT ![h] = kept[h]]
      /\ kept' = [kept EXCEPT ![h] = Pad!NoAttribute]
      /\ paddedHost' = Pad!NoHost /\ mistaken' = mistaken
  BY DEF Pad!NoRoom, Pad!GiveBack
<1>2. h \in Pad!Hosts
  BY DEF Paddings, Pad!Hosts
<1>3. \A g \in Pad!Hosts \ {h} : kept[g] = Pad!NoAttribute
  <2>1. \A g \in Pad!Hosts \ {h} : g # paddedHost
    BY DEF Pad!Hosts, Pad!NoHost
  <2> QED BY ONLY <2>1, Paddings(padding, kept, paddedHost, mistaken) DEF Paddings
<1> HIDE DEF h
<1>4. \A g \in Pad!Hosts : kept'[g] = Pad!NoAttribute
  BY <1>1, <1>2, <1>3 DEF Paddings
<1>5. padding' \in [Pad!Hosts -> Heights \cup {0}]
  BY <1>1, <1>2 DEF Paddings
<1>6. kept' \in [Pad!Hosts -> Heights \cup {0, Pad!NoAttribute}]
  BY <1>1, <1>2 DEF Paddings
<1>7. ASSUME NEW g \in Pad!Hosts \ mistaken
      PROVE  padding'[g] = 0
  <2>1. kept[g] \in {0, Pad!NoAttribute} /\ (kept[g] = Pad!NoAttribute => padding[g] = 0)
    BY <1>7 DEF Paddings, Noted
  <2>2. padding \in [Pad!Hosts -> Heights \cup {0}]
    BY DEF Paddings
  <2> QED BY <1>1, <1>2, <1>3, <1>7, <2>1, <2>2
<1>8. Noted(padding', kept', mistaken')
  BY <1>1, <1>4, <1>7 DEF Noted
<1> QED BY <1>1, <1>4, <1>5, <1>6, <1>8 DEF Paddings, Rest

LEMMA PadStart == PartsAssumption /\ Pad!PadInit => PadInv
<1> SUFFICES ASSUME PartsAssumption, Pad!PadInit
             PROVE  PadInv
  OBVIOUS
<1>1. /\ keyboard = 0 /\ field = Pad!NoField /\ paddedHost = Pad!NoHost
      /\ padding = [h \in Pad!Hosts |-> 0] /\ kept = [h \in Pad!Hosts |-> Pad!NoAttribute]
      /\ retries = 0 /\ blurTimer = "off" /\ mistaken = {}
  BY DEF Pad!PadInit
<1>2. heard \in BOOLEAN
  BY DEF Pad!PadInit
<1>3. Paddings(padding, kept, paddedHost, mistaken) /\ Rest(kept, paddedHost)
  BY <1>1 DEF Paddings, Rest, Noted
<1> QED BY <1>1, <1>2, <1>3, PadMeans, PadBounds

\* What a step may leave of a page whose keyboard stays as it is.
PadStill ==
  /\ Paddings(padding', kept', paddedHost', mistaken')
  /\ keyboard' = keyboard /\ heard' \in BOOLEAN /\ field' \in Fields \cup {Pad!NoField}
  /\ retries' \in 0..2 /\ blurTimer' \in {"off", "on", "void"}
  /\ heard' /\ keyboard = 0 => Rest(kept', paddedHost')
  /\ heard' /\ keyboard > 0 /\ field' \in Typing =>
       RoomOf(field', keyboard, padding', paddedHost')
LEMMA PadStays ==
  ASSUME PartsAssumption, PadInv, PadStill
  PROVE  PadInv'
<1>1. keyboard \in Heights \cup {0}
  BY DEF PadInv, Pad!TypeOK
<1> QED BY <1>1 DEF PadStill, PadInv, Pad!TypeOK, Pad!NothingToGiveBack, Pad!OneHostIsPadded,
                    Pad!FieldHasRoom, Paddings, Rest, RoomOf, Pad!NoField, Pad!NoHost,
                    Pad!NoAttribute, Pad!Hosts, Noted

LEMMA PadScheduled ==
  ASSUME PartsAssumption, PadInv, NEW f, Pad!Schedule(f)
  PROVE  /\ Paddings(padding', kept', paddedHost', mistaken')
         /\ retries' \in 0..2 /\ blurTimer' = "off"
         /\ keyboard = 0 => Rest(kept', paddedHost')
         /\ keyboard > 0 /\ f \in Typing => RoomOf(f, keyboard, padding', paddedHost')
<1>1. Paddings(padding, kept, paddedHost, mistaken) /\ keyboard \in Heights \cup {0}
  BY PadMeans
<1>2. retries' \in 0..2 /\ blurTimer' = "off"
  BY DEF Pad!Schedule
<1>3. CASE keyboard = 0
  <2>1. Pad!NoRoom
    BY <1>3 DEF Pad!Schedule
  <2> QED BY <1>1, <1>2, <1>3, <2>1, RoomTaken
<1>4. CASE keyboard # 0
  <2>1. \/ f \in Typing /\ Pad!Room(f)
        \/ ~(f \in Typing /\ keyboard > 0) /\ UNCHANGED <<padding, kept, paddedHost, mistaken>>
    BY <1>4 DEF Pad!Schedule, Pad!Reveal
  <2> QED BY <1>1, <1>2, <1>4, <2>1, RoomMade
<1> QED BY <1>3, <1>4

LEMMA PadMoves ==
  ASSUME PartsAssumption, PadInv,
         (\E height \in Heights \cup {0} : Pad!KeyboardMoves(height)) \/ Pad!CloseDialog
  PROVE  PadInv'
<1>1. ASSUME NEW height \in Heights \cup {0}, Pad!KeyboardMoves(height)
      PROVE  PadInv'
  <2>1. keyboard' = height /\ UNCHANGED <<field, padding, kept, paddedHost, retries, blurTimer, mistaken>>
    BY <1>1 DEF Pad!KeyboardMoves
  <2>2. ~heard' /\ heard' \in BOOLEAN
    BY <1>1 DEF Pad!KeyboardMoves
  <2> QED BY <2>1, <2>2 DEF PadInv, Pad!TypeOK, Pad!NothingToGiveBack, Pad!OneHostIsPadded,
                            Pad!FieldHasRoom, Pad!NoField, Pad!NoHost, Pad!NoAttribute, Pad!Hosts,
                            Noted
<1>2. CASE Pad!CloseDialog
  <2>1. /\ field' = Pad!NoField /\ paddedHost' = Pad!NoHost
        /\ padding' = [h \in Pad!Hosts |-> IF h = "dialog" THEN 0
                         ELSE IF paddedHost = h /\ kept[h] # Pad!NoAttribute THEN kept[h]
                         ELSE padding[h]]
        /\ kept' = [kept EXCEPT !["dialog"] = Pad!NoAttribute,
                      !["page"] = IF paddedHost = "page" THEN Pad!NoAttribute ELSE @]
        /\ mistaken' = mistaken \ {"dialog"}
        /\ UNCHANGED <<keyboard, heard, retries, blurTimer>>
    BY <1>2 DEF Pad!CloseDialog
  <2>2. /\ padding \in [Pad!Hosts -> Heights \cup {0}]
        /\ kept \in [Pad!Hosts -> Heights \cup {0, Pad!NoAttribute}]
        /\ \A h \in Pad!Hosts : kept[h] # Pad!NoAttribute => h = paddedHost
        /\ retries \in 0..2 /\ blurTimer \in {"off", "on", "void"} /\ heard \in BOOLEAN
        /\ mistaken \subseteq Pad!Hosts /\ Noted(padding, kept, mistaken)
    BY DEF PadInv, Pad!TypeOK, Pad!OneHostIsPadded
  <2>3. padding' \in [Pad!Hosts -> Heights \cup {0}]
    BY <2>1, <2>2
  <2>4. /\ kept' \in [Pad!Hosts -> Heights \cup {0, Pad!NoAttribute}]
        /\ \A h \in Pad!Hosts : kept'[h] = Pad!NoAttribute
    BY <2>1, <2>2 DEF Pad!Hosts
  <2>5. ASSUME NEW h \in Pad!Hosts \ mistaken'
        PROVE  padding'[h] = 0
    <3>1. CASE h = "dialog"
      BY <2>1, <3>1 DEF Pad!Hosts
    <3>2. CASE h # "dialog"
      <4>1. /\ h \in Pad!Hosts \ mistaken /\ kept[h] \in {0, Pad!NoAttribute}
            /\ kept[h] = Pad!NoAttribute => padding[h] = 0
        BY <2>1, <2>2, <2>5, <3>2 DEF Noted
      <4> QED BY <2>1, <2>2, <3>2, <4>1
    <3> QED BY <3>1, <3>2
  <2>6. Noted(padding', kept', mistaken') /\ mistaken' \subseteq Pad!Hosts
    BY <2>1, <2>2, <2>4, <2>5 DEF Noted
  <2>7. PadStill
    BY <2>1, <2>2, <2>3, <2>4, <2>6, PadBounds DEF PadStill, Paddings, Rest
  <2> QED BY <2>7, PadStays
<1> QED BY <1>1, <1>2

LEMMA PadFocus ==
  ASSUME PartsAssumption, PadInv,
         Pad!ResizeEvent \/ (\E f \in Fields : Pad!Focus(f)) \/ Pad!Blur \/ Pad!BlurTimer
           \/ Pad!RetryTimer
  PROVE  PadInv'
<1>1. /\ Paddings(padding, kept, paddedHost, mistaken) /\ keyboard \in Heights \cup {0}
      /\ field \in Fields \cup {Pad!NoField} /\ retries \in 0..2
      /\ blurTimer \in {"off", "on", "void"}
      /\ heard /\ keyboard = 0 => Rest(kept, paddedHost)
      /\ heard /\ keyboard > 0 /\ field \in Typing =>
           RoomOf(field, keyboard, padding, paddedHost)
  BY PadMeans
<1>2. heard \in BOOLEAN
  BY PadMeans
<1>3. keyboard = 0 \/ keyboard > 0
  BY <1>1, PadBounds
<1>4. CASE Pad!ResizeEvent
  <2>1. Pad!Schedule(field) /\ UNCHANGED <<keyboard, field>>
    BY <1>4 DEF Pad!ResizeEvent
  <2>2. heard' \in BOOLEAN
    BY <1>4 DEF Pad!ResizeEvent
  <2>3. PadStill
    BY <1>1, <2>1, <2>2, PadScheduled DEF PadStill
  <2> QED BY <2>3, PadStays
<1>5. ASSUME NEW f \in Fields, Pad!Focus(f)
      PROVE  PadInv'
  <2>1. field' = f /\ UNCHANGED <<keyboard, heard>>
    BY <1>5 DEF Pad!Focus
  <2>2. CASE f \in Typing /\ keyboard > 0
    <3>1. Pad!Schedule(f)
      BY <1>5, <2>2 DEF Pad!Focus
    <3>2. PadStill
      BY <1>1, <1>2, <2>1, <2>2, <3>1, PadScheduled DEF PadStill
    <3> QED BY <3>2, PadStays
  <2>3. CASE ~(f \in Typing /\ keyboard > 0)
    <3>1. /\ UNCHANGED <<padding, kept, paddedHost, mistaken>> /\ retries' \in {0, retries}
          /\ blurTimer' \in {"void", "on", blurTimer}
      BY <1>5, <2>3 DEF Pad!Focus
    <3>2. PadStill
      BY <1>1, <1>2, <2>1, <2>3, <3>1 DEF PadStill
    <3> QED BY <3>2, PadStays
  <2> QED BY <2>2, <2>3
<1>6. CASE Pad!Blur
  <2>1. /\ field' = Pad!NoField /\ blurTimer' = "on" /\ retries' = 0
        /\ UNCHANGED <<keyboard, heard, padding, kept, paddedHost, mistaken>>
    BY <1>6 DEF Pad!Blur
  <2>2. PadStill
    BY <1>1, <1>2, <2>1, PadBounds DEF PadStill
  <2> QED BY <2>2, PadStays
<1>7. CASE Pad!BlurTimer
  <2>1. blurTimer' = "off" /\ UNCHANGED <<keyboard, heard, field, retries>>
    BY <1>7 DEF Pad!BlurTimer
  <2>2. CASE blurTimer = "on" /\ field = Pad!NoField
    <3>1. Paddings(padding', kept', paddedHost', mistaken') /\ Rest(kept', paddedHost')
      BY <1>1, <1>7, <2>2, RoomTaken DEF Pad!BlurTimer
    <3>2. PadStill
      BY <1>1, <1>2, <2>1, <2>2, <3>1, PadBounds DEF PadStill
    <3> QED BY <3>2, PadStays
  <2>3. CASE ~(blurTimer = "on" /\ field = Pad!NoField)
    <3>1. UNCHANGED <<padding, kept, paddedHost, mistaken>>
      BY <1>7, <2>3 DEF Pad!BlurTimer
    <3>2. PadStill
      BY <1>1, <1>2, <2>1, <3>1 DEF PadStill
    <3> QED BY <3>2, PadStays
  <2> QED BY <2>2, <2>3
<1>8. CASE Pad!RetryTimer
  <2>1. /\ retries > 0 /\ retries' = retries - 1 /\ Pad!Reveal(field)
        /\ UNCHANGED <<keyboard, heard, field, blurTimer>>
    BY <1>8 DEF Pad!RetryTimer
  <2>2. retries' \in 0..2
    BY <1>1, <2>1
  <2>3. CASE field \in Typing /\ keyboard > 0
    <3>1. Pad!Room(field)
      BY <2>1, <2>3 DEF Pad!Reveal
    <3>2. PadStill
      BY <1>1, <1>2, <1>3, <2>1, <2>2, <2>3, <3>1, RoomMade, PadBounds DEF PadStill
    <3> QED BY <3>2, PadStays
  <2>4. CASE ~(field \in Typing /\ keyboard > 0)
    <3>1. UNCHANGED <<padding, kept, paddedHost, mistaken>>
      BY <2>1, <2>4 DEF Pad!Reveal
    <3>2. PadStill
      BY <1>1, <1>2, <2>1, <2>2, <3>1 DEF PadStill
    <3> QED BY <3>2, PadStays
  <2> QED BY <2>3, <2>4
<1> QED BY <1>4, <1>5, <1>6, <1>7, <1>8

LEMMA PadStep ==
  ASSUME PartsAssumption, PadInv, [Pad!PadNext]_padVars
  PROVE  PadInv'
<1>1. CASE UNCHANGED padVars
  BY <1>1 DEF padVars, PadInv, Pad!TypeOK, Pad!NothingToGiveBack, Pad!OneHostIsPadded,
              Pad!FieldHasRoom, Pad!NoField, Pad!NoHost, Pad!NoAttribute, Pad!Hosts, Noted
<1> QED BY <1>1, PadMoves, PadFocus DEF Pad!PadNext

LEMMA PadGivesBack == PadInv => Pad!OwnPaddingIsGivenBack
BY DEF PadInv, Noted, Pad!NothingToGiveBack, Pad!OwnPaddingIsGivenBack
--------------------------------------------------------------------------------
\* The frame of every page: drawer, popover and dialog.

\* Drawer and dialog make the page inert each on its own, whatever the screen does; on which
\* screen a drawer is open is certain only once the change of the screen has been told.
Locking ==
  /\ {wide, turned, drawer, popover} \subseteq BOOLEAN
  /\ portal = drawer /\ shellInert = drawer /\ chromeInert = (dialogBox = "booking" \/ dialogBox = "open")
Telling == ~turned => (drawer => ~wide) /\ navHidden = (~wide /\ ~drawer)
ShellInv ==
  /\ Locking /\ Telling /\ navHidden \in BOOLEAN
  /\ traps = (IF drawer THEN 1 ELSE 0)
  /\ dialogBox \in {"none", "waiting", "booking", "open"}
  /\ focus \in {"page", "toggle", "nav", "trigger", "menu", "dialog", "body"}

\* What Escape does to focus and overlays, step by step.
EscapeLeavesFocus ==
  Shell!Escape /\ ~turned /\ (popover => wide \/ drawer) =>
    ~popover' /\ ~drawer' /\ dialogBox' # "open" /\ Shell!OnScreen(focus)'

LEMMA ShellStart == Shell!ShellInit => ShellInv
<1> SUFFICES ASSUME Shell!ShellInit
             PROVE  ShellInv
  OBVIOUS
<1> USE DEF Shell!ShellInit
<1>1. Locking
  BY Zenon DEF Locking
<1>2. Telling
  BY Zenon DEF Telling
<1>3. navHidden \in BOOLEAN
  BY Zenon
<1>4. traps = (IF drawer THEN 1 ELSE 0)
  BY Zenon
<1> QED BY Zenon, <1>1, <1>2, <1>3, <1>4 DEF ShellInv

LEMMA ShellKeeps == ShellInv => Shell!TypeOK /\ Shell!DrawerIsModal /\ Shell!PageIsFree
<1> SUFFICES ASSUME ShellInv
             PROVE  Shell!TypeOK /\ Shell!DrawerIsModal /\ Shell!PageIsFree
  OBVIOUS
<1>1. traps \in 0..1 /\ (traps = 1) = drawer
  <2>1. drawer \in BOOLEAN
    BY DEF ShellInv, Locking
  <2>2. 0 \in 0..1 /\ 1 \in 0..1 /\ 0 # 1
    OBVIOUS
  <2>3. CASE drawer
    BY Zenon, <2>1, <2>2, <2>3 DEF ShellInv
  <2>4. CASE ~drawer
    BY Zenon, <2>1, <2>2, <2>4 DEF ShellInv
  <2> QED BY <2>1, <2>3, <2>4
<1>2. Shell!TypeOK
  BY Zenon, <1>1 DEF ShellInv, Locking, Shell!TypeOK
<1>3. Shell!DrawerIsModal
  BY Zenon, <1>1 DEF ShellInv, Locking, Telling, Shell!DrawerIsModal
<1>4. Shell!PageIsFree
  BY Zenon DEF ShellInv, Locking, Shell!PageIsFree, Shell!PageIsReached
<1> QED BY <1>2, <1>3, <1>4

LEMMA EscapeFocus ==
  ASSUME ShellInv
  PROVE  EscapeLeavesFocus
<1> SUFFICES ASSUME Shell!Escape, ~turned, popover => wide \/ drawer
             PROVE  ~popover' /\ ~drawer' /\ dialogBox' # "open" /\ Shell!OnScreen(focus)'
  BY DEF EscapeLeavesFocus
<1>1. ~popover' /\ wide' = wide
  BY Zenon DEF Shell!Escape
<1>2. ~drawer'
  BY Zenon DEF Shell!Escape, Shell!CloseDrawer
<1>3. dialogBox' # "open"
  BY Zenon DEF Shell!Escape
<1>4. CASE dialogBox = "open"
  BY Zenon, <1>1, <1>2, <1>3, <1>4 DEF Shell!Escape, Shell!OnScreen
<1>5. CASE dialogBox # "open" /\ drawer
  <2>1. ~wide
    BY Zenon, <1>5 DEF ShellInv, Telling
  <2>2. focus' = "toggle"
    BY Zenon, <1>5, <2>1 DEF Shell!Escape
  <2> QED BY <1>1, <1>2, <1>3, <2>1, <2>2 DEF Shell!OnScreen
<1>6. CASE dialogBox # "open" /\ ~drawer
  <2>1. popover /\ focus' = "trigger"
    BY Zenon, <1>6 DEF Shell!Escape
  <2>2. wide
    BY Zenon, <1>6, <2>1
  <2> QED BY <1>1, <1>2, <1>3, <2>1, <2>2 DEF Shell!OnScreen
<1> QED BY <1>4, <1>5, <1>6

\* A drawer that is shut shuts all that it opened.
LEMMA DrawerShuts ==
  ASSUME ShellInv, Shell!CloseDrawer, turned' \in BOOLEAN, popover' \in BOOLEAN, wide' = wide,
         chromeInert' = (dialogBox' = "booking" \/ dialogBox' = "open"),
         dialogBox' \in {"none", "waiting", "booking", "open"},
         focus' \in {"page", "toggle", "nav", "trigger", "menu", "dialog", "body"}
  PROVE  ShellInv'
<1>1. traps' = (IF drawer' THEN 1 ELSE 0)
  BY Zenon DEF Shell!CloseDrawer
<1>2. Locking'
  BY Zenon DEF Shell!CloseDrawer, ShellInv, Locking
<1>3. Telling' /\ navHidden' \in BOOLEAN
  BY Zenon DEF Shell!CloseDrawer, Telling
<1> QED BY Zenon, <1>1, <1>2, <1>3 DEF ShellInv

\* A step that leaves the drawer and the screen alone.
LEMMA DrawerStays ==
  ASSUME ShellInv, UNCHANGED <<wide, turned, drawer, portal, shellInert, navHidden, traps>>,
         popover' \in BOOLEAN,
         chromeInert' = (dialogBox' = "booking" \/ dialogBox' = "open"),
         dialogBox' \in {"none", "waiting", "booking", "open"},
         focus' \in {"page", "toggle", "nav", "trigger", "menu", "dialog", "body"}
  PROVE  ShellInv'
<1>1. Locking'
  BY Zenon DEF ShellInv, Locking
<1>2. Telling'
  BY Zenon DEF ShellInv, Telling
<1> QED BY Zenon, <1>1, <1>2 DEF ShellInv

LEMMA FocusMoves ==
  ASSUME ShellInv
  PROVE  \A f \in {"menu", focus} :
           Shell!Moved(f) \in {"page", "toggle", "nav", "trigger", "menu", "dialog", "body"}
BY DEF ShellInv, Shell!Moved

LEMMA ShellStep ==
  ASSUME ShellInv, [Shell!ShellNext]_shellVars
  PROVE  ShellInv'
<1>1. CASE Shell!Toggle
  <2> USE <1>1 DEF Shell!Toggle, Shell!OpenDrawer
  <2>1. traps = 0
    BY Zenon DEF ShellInv
  <2>2. traps' = (IF drawer' THEN 1 ELSE 0)
    <3>1. traps' = 1
      BY <2>1
    <3> QED BY Zenon, <3>1
  <2>3. Locking'
    BY Zenon DEF ShellInv, Locking
  <2>4. Telling' /\ navHidden' \in BOOLEAN
    BY Zenon DEF Telling
  <2> QED BY Zenon, <2>2, <2>3, <2>4 DEF ShellInv
<1>2. CASE Shell!Backdrop
  BY Zenon, <1>2, DrawerShuts DEF Shell!Backdrop, ShellInv, Locking
<1>3. CASE Shell!HelpLink
  BY Zenon, <1>3, DrawerShuts, FocusMoves DEF Shell!HelpLink, ShellInv, Locking
<1>4. CASE Shell!Resize
  <2> USE <1>4 DEF Shell!Resize
  <2>1. Locking'
    BY Zenon DEF ShellInv, Locking
  <2>2. Telling'
    BY Zenon DEF Telling
  <2>3. focus' \in {"page", "toggle", "nav", "trigger", "menu", "dialog", "body"}
    BY Zenon DEF ShellInv
  <2> QED BY Zenon, <2>1, <2>2, <2>3 DEF ShellInv
<1>5. CASE Shell!Viewport
  <2>1. CASE wide
    BY Zenon, <1>5, <2>1, DrawerShuts, FocusMoves DEF Shell!Viewport, ShellInv, Locking
  <2>2. CASE ~wide
    <3>1. /\ ~wide' /\ ~turned' /\ navHidden' = ~drawer
          /\ UNCHANGED <<drawer, portal, shellInert, traps, focus, popover, dialogBox, chromeInert>>
      BY Zenon, <1>5, <2>2 DEF Shell!Viewport
    <3>2. wide' = wide /\ turned' \in BOOLEAN
      BY Zenon, <1>5 DEF Shell!Viewport
    <3>3. Locking'
      BY Zenon, <3>1, <3>2 DEF ShellInv, Locking
    <3>4. Telling' /\ navHidden' \in BOOLEAN
      BY Zenon, <3>1 DEF Telling
    <3> QED BY Zenon, <3>1, <3>3, <3>4 DEF ShellInv
  <2> QED BY <2>1, <2>2
<1>6. CASE Shell!Trigger
  BY Zenon, <1>6, DrawerStays DEF Shell!Trigger, ShellInv, Locking
<1>7. CASE Shell!ClickPage
  BY Zenon, <1>7, DrawerStays DEF Shell!ClickPage, ShellInv, Locking
<1>8. CASE Shell!AskDialog
  BY Zenon, <1>8, DrawerStays DEF Shell!AskDialog, ShellInv, Locking
<1>9. CASE Shell!ShowDialog \/ Shell!DialogFails
  BY Zenon, <1>9, DrawerStays DEF Shell!ShowDialog, Shell!DialogFails, ShellInv, Locking
<1>10. CASE Shell!CloseDialog
  BY Zenon, <1>10, DrawerStays DEF Shell!CloseDialog, ShellInv, Locking
<1>11. CASE Shell!Escape
  <2>1. /\ wide' = wide /\ turned' \in BOOLEAN /\ popover' \in BOOLEAN
        /\ chromeInert' = (dialogBox' = "booking" \/ dialogBox' = "open")
        /\ dialogBox' \in {"none", "waiting", "booking", "open"}
    BY Zenon, <1>11 DEF Shell!Escape, ShellInv, Locking
  <2>2. focus' \in {"page", "toggle", "nav", "trigger", "menu", "dialog", "body"}
    BY Zenon, <1>11, FocusMoves DEF Shell!Escape
  <2>3. CASE drawer
    BY Zenon, <1>11, <2>1, <2>2, <2>3, DrawerShuts DEF Shell!Escape
  <2>4. CASE ~drawer
    BY Zenon, <1>11, <2>1, <2>2, <2>4, DrawerStays DEF Shell!Escape
  <2> QED BY <2>3, <2>4
<1>12. CASE UNCHANGED shellVars
  BY Zenon, <1>12, DrawerStays DEF shellVars, ShellInv, Locking
<1> QED BY Zenon, <1>1, <1>2, <1>3, <1>4, <1>5, <1>6, <1>7, <1>8, <1>9, <1>10, <1>11, <1>12
        DEF Shell!ShellNext

--------------------------------------------------------------------------------
\* Keys in the navigation.

KeysInv == Keys!TypeOK /\ Keys!NoEmptyExpand

LEMMA LinkBounds ==
  ASSUME PartsAssumption
  PROVE  Links \in Nat \ {0} /\ Parent \in 1..Links /\ HelpMenu \subseteq 1..Links /\ HelpMenu # {}
         /\ Submenu # {}
BY DEF PartsAssumption, Keys!LinksAssumption

LEMMA KeysStart ==
  ASSUME PartsAssumption, Keys!KeysInit
  PROVE  KeysInv
<1>1. linkAt \in 0..Links
  BY LinkBounds DEF Keys!KeysInit
<1>2. KeysInv
  BY Zenon, <1>1 DEF Keys!KeysInit, KeysInv, Keys!TypeOK, Keys!NoEmptyExpand
<1> QED BY <1>2

LEMMA KeysStep ==
  ASSUME PartsAssumption, KeysInv, [Keys!KeysNext]_keyVars
  PROVE  KeysInv'
<1>1. {expanded, helping, onSettings, leaving} \subseteq BOOLEAN
  BY Zenon DEF KeysInv, Keys!TypeOK
<1>2. linkAt \in 0..Links
  BY DEF KeysInv, Keys!TypeOK
<1>3. linkAt' \in 0..Links
  <2>1. CASE \E key \in Keys!Keys : Keys!Press(key)
    BY <2>1, <1>2 DEF Keys!Press, Keys!Shown
  <2>2. CASE \E l \in 1..Links : Keys!FocusLink(l)
    BY <2>2, <1>2 DEF Keys!FocusLink, Keys!Shown
  <2>3. CASE Keys!ToggleSubmenu
    BY <2>3, LinkBounds DEF Keys!ToggleSubmenu
  <2>4. CASE Keys!ToggleHelp
    <3>1. (CHOOSE l \in HelpMenu : TRUE) \in 0..Links /\ 0 \in 0..Links
      BY LinkBounds
    <3> QED BY Zenon, <2>4, <3>1 DEF Keys!ToggleHelp
  <2>5. CASE Keys!Arrive
    BY <2>5, LinkBounds DEF Keys!Arrive
  <2>6. CASE UNCHANGED keyVars
    BY <2>6, <1>2 DEF keyVars
  <2> QED BY Zenon, <2>1, <2>2, <2>3, <2>4, <2>5, <2>6 DEF Keys!KeysNext
<1>4. /\ {expanded', helping', onSettings', leaving'} \subseteq BOOLEAN
      /\ expanded' => onSettings' \/ leaving'
  <2>1. CASE UNCHANGED <<expanded, helping, onSettings, leaving>>
    BY Zenon, <2>1, <1>1 DEF KeysInv, Keys!NoEmptyExpand
  <2>2. CASE Keys!ToggleSubmenu
    BY Zenon, <2>2, <1>1, LinkBounds DEF KeysInv, Keys!NoEmptyExpand, Keys!ToggleSubmenu
  <2>3. CASE Keys!ToggleHelp
    BY Zenon, <2>3, <1>1 DEF KeysInv, Keys!NoEmptyExpand, Keys!ToggleHelp
  <2>4. CASE Keys!Arrive
    BY Zenon, <2>4, <1>1 DEF Keys!Arrive
  <2> QED BY Zenon, <2>1, <2>2, <2>3, <2>4
          DEF Keys!KeysNext, Keys!Press, Keys!FocusLink, keyVars
<1> QED BY Zenon, <1>3, <1>4 DEF KeysInv, Keys!TypeOK, Keys!NoEmptyExpand

--------------------------------------------------------------------------------
\* Toasts.

\* What is left of a toast's time and what has passed since it was announced are all of it.
ToastTimes(left, passed) ==
  /\ left \in [Messages -> SUBSET (0..2)] /\ passed \in [Messages -> 0..2]
  /\ \A m \in Messages : /\ passed[m] \in 0..Told!Ttl(m)
                         /\ \A t \in left[m] : t \in 0..Told!Ttl(m) /\ t + passed[m] = Told!Ttl(m)
ToastNodes(nodes, unseen, reports) ==
  /\ nodes \in [Messages -> 0..1] /\ unseen \in [Messages -> 0..1] /\ reports \in [Messages -> 0..1]
  /\ \A m \in Messages : reports[m] = IF m \in Errors /\ unseen[m] = 0 THEN nodes[m] ELSE 0
ToastInv == ToastTimes(timers, since) /\ ToastNodes(toasts, seen, links)

\* A toast goes only after its full time, step by step.
FullTime == \A m \in Messages : toasts[m] > 0 /\ toasts'[m] = 0 => since[m] = Told!Ttl(m)

LEMMA TimeOfDisplay == \A m : Told!Ttl(m) \in 1..2
BY DEF Told!Ttl

LEMMA ToastStart == Told!ToastInit => ToastInv
<1> SUFFICES ASSUME Told!ToastInit
             PROVE  ToastInv
  OBVIOUS
<1>1. /\ toasts = [m \in Messages |-> 0] /\ since = [m \in Messages |-> 0]
      /\ timers = [m \in Messages |-> {}] /\ seen = toasts /\ links = toasts
  BY DEF Told!ToastInit
<1>2. ToastTimes(timers, since)
  BY <1>1, TimeOfDisplay DEF ToastTimes
<1>3. ToastNodes(toasts, seen, links)
  BY <1>1 DEF ToastNodes
<1> QED BY <1>2, <1>3 DEF ToastInv

LEMMA ToastKeeps == ToastInv => Told!TypeOK /\ Told!OneToastPerMessage /\ Told!LinkedOnce
BY TimeOfDisplay DEF ToastInv, ToastTimes, ToastNodes, Told!TypeOK, Told!OneToastPerMessage,
   Told!LinkedOnce

LEMMA ToastStep ==
  ASSUME ToastInv, [Told!ToastNext]_toastVars
  PROVE  ToastInv' /\ (FullTime \/ UNCHANGED toastVars)
<1> USE DEF ToastInv
<1>1. ASSUME NEW m \in Messages, Told!Toast(m)
      PROVE  ToastInv' /\ FullTime
  <2>1. timers' = [timers EXCEPT ![m] = {Told!Ttl(m)}] /\ since' = [since EXCEPT ![m] = 0]
    BY <1>1 DEF Told!Toast
  <2>2. ToastTimes(timers', since')
    BY <2>1, TimeOfDisplay DEF ToastTimes
  <2>3. ToastNodes(toasts', seen', links')
    BY <1>1 DEF Told!Toast, ToastNodes
  <2>4. FullTime
    BY <1>1 DEF Told!Toast, ToastNodes, FullTime
  <2> QED BY <2>2, <2>3, <2>4
<1>2. ASSUME NEW m \in Messages, Told!Remove(m)
      PROVE  ToastInv' /\ FullTime
  <2>1. /\ 0 \in timers[m] /\ timers' = [timers EXCEPT ![m] = timers[m] \ {0}]
        /\ toasts' = [toasts EXCEPT ![m] = 0] /\ links' = [links EXCEPT ![m] = 0]
        /\ since' = since /\ seen' = seen
    BY <1>2 DEF Told!Remove
  <2>2. ToastTimes(timers', since')
    BY <2>1 DEF ToastTimes
  <2>3. ToastNodes(toasts', seen', links')
    BY <2>1 DEF ToastNodes
  <2>4. since[m] = Told!Ttl(m)
    BY <2>1, TimeOfDisplay DEF ToastTimes
  <2>5. FullTime
    BY <2>1, <2>4 DEF FullTime, ToastNodes
  <2> QED BY <2>2, <2>3, <2>5
<1>3. ASSUME NEW m \in Messages, Told!Observe(m)
      PROVE  ToastInv' /\ FullTime
  <2>1. ToastTimes(timers', since')
    BY <1>3 DEF Told!Observe
  <2>2. ToastNodes(toasts', seen', links')
    BY <1>3 DEF Told!Observe, ToastNodes
  <2>3. FullTime
    BY <1>3 DEF Told!Observe, ToastNodes, FullTime
  <2> QED BY <2>1, <2>2, <2>3
<1>4. CASE Told!Tick
  <2>1. /\ \A m \in Messages : 0 \notin timers[m]
        /\ timers' = [m \in Messages |-> {t - 1 : t \in timers[m]}]
        /\ since' = [m \in Messages |-> IF since[m] < Told!Ttl(m) THEN since[m] + 1 ELSE since[m]]
        /\ UNCHANGED <<toasts, seen, links>>
    BY <1>4 DEF Told!Tick
  <2>2. ASSUME NEW m \in Messages
        PROVE  /\ timers'[m] \in SUBSET (0..2) /\ since'[m] \in 0..2
               /\ since'[m] \in 0..Told!Ttl(m)
               /\ \A t \in timers'[m] : t \in 0..Told!Ttl(m) /\ t + since'[m] = Told!Ttl(m)
    BY <2>1, TimeOfDisplay DEF ToastTimes
  <2>3. ToastTimes(timers', since')
    BY <2>1, <2>2 DEF ToastTimes
  <2>4. FullTime
    BY <2>1 DEF ToastNodes, FullTime
  <2> QED BY <2>1, <2>3, <2>4
<1>5. CASE UNCHANGED toastVars
  BY <1>5 DEF toastVars
<1> QED BY Zenon, <1>1, <1>2, <1>3, <1>4, <1>5 DEF Told!ToastNext

--------------------------------------------------------------------------------
\* Old links to the settings.

\* On its way a link keeps its fragment and is where it was asked for, on the first section or
\* where its anchor lives; the script settles where it ends.
LegacyInv ==
  /\ Legacy!TypeOK
  /\ readAnchor => place # "old page"
  /\ link[1] # "elsewhere" =>
       /\ anchor = link[2] /\ place # "elsewhere"
       /\ anchor \notin DOMAIN Owner =>
            \/ place = link[1]
            \/ link[1] = "old page" /\ place = DefaultSection
       /\ readAnchor /\ anchor \in DOMAIN Owner => place = Owner[anchor]

LEMMA SectionsAreApart ==
  ASSUME PartsAssumption
  PROVE  /\ "old page" \notin Sections /\ "elsewhere" \notin Sections
         /\ DefaultSection \in Sections /\ NoAnchor \in Anchors
         /\ \A a \in DOMAIN Owner : Owner[a] \in Sections
BY DEF PartsAssumption, Legacy!LegacyAssumption

LEMMA LegacyStart ==
  ASSUME PartsAssumption, Legacy!LegacyInit
  PROVE  LegacyInv
BY SectionsAreApart DEF Legacy!LegacyInit, LegacyInv, Legacy!TypeOK, Legacy!Places

LEMMA LegacyKeeps == LegacyInv => Legacy!TypeOK /\ Legacy!LinkIsKept
<1> SUFFICES ASSUME LegacyInv, readAnchor, link[1] # "elsewhere"
             PROVE  /\ anchor = link[2]
                    /\ place = IF anchor \in DOMAIN Owner THEN Owner[anchor]
                               ELSE IF link[1] = "old page" THEN DefaultSection ELSE link[1]
  BY DEF LegacyInv, Legacy!LinkIsKept
<1> QED BY DEF LegacyInv

LEMMA LegacyStep ==
  ASSUME PartsAssumption, LegacyInv, [Legacy!LegacyNext]_legacyVars
  PROVE  LegacyInv'
<1>1. /\ place \in Sections \cup {"old page", "elsewhere"} /\ anchor \in Anchors
      /\ readAnchor \in BOOLEAN
      /\ link \in (Sections \cup {"old page", "elsewhere"}) \X Anchors
  BY DEF LegacyInv, Legacy!TypeOK, Legacy!Places
<1>2. ASSUME NEW p \in Legacy!Places, NEW a \in Anchors, Legacy!Follow(p, a)
      PROVE  LegacyInv'
  <2>1. /\ place' = p /\ anchor' = a /\ link' = <<p, a>>
        /\ link'[1] = p /\ link'[2] = a
    BY <1>2 DEF Legacy!Follow
  <2>2. readAnchor' \in BOOLEAN /\ (readAnchor' <=> p = "elsewhere")
    BY Zenon, <1>2 DEF Legacy!Follow
  <2> QED BY <2>1, <2>2 DEF LegacyInv, Legacy!TypeOK, Legacy!Places
<1>3. CASE Legacy!OldPage
  BY <1>1, <1>3, SectionsAreApart DEF LegacyInv, Legacy!TypeOK, Legacy!Places, Legacy!OldPage
<1>4. CASE Legacy!Run
  <2>1. CASE anchor \in DOMAIN Owner /\ Owner[anchor] # place
    <3>1. place' = Owner[anchor] /\ UNCHANGED <<anchor, link, readAnchor>>
      BY <1>4, <2>1 DEF Legacy!Run, Legacy!Target
    <3> QED BY <1>1, <1>4, <2>1, <3>1, SectionsAreApart
            DEF LegacyInv, Legacy!TypeOK, Legacy!Places, Legacy!Run
  <2>2. CASE ~(anchor \in DOMAIN Owner /\ Owner[anchor] # place)
    <3>1. Legacy!Target(place, anchor) = {}
      BY <2>2 DEF Legacy!Target
    <3>2. readAnchor' = TRUE
      BY <1>4, <3>1 DEF Legacy!Run
    <3>3. UNCHANGED <<place, anchor, link>>
      BY <1>4, <3>1 DEF Legacy!Run
    <3> QED BY <1>1, <1>4, <2>2, <3>2, <3>3, SectionsAreApart
            DEF LegacyInv, Legacy!TypeOK, Legacy!Places, Legacy!Run
  <2> QED BY <2>1, <2>2
<1>5. CASE UNCHANGED legacyVars
  BY <1>5 DEF LegacyInv, Legacy!TypeOK, Legacy!Places, legacyVars
<1> QED BY Zenon, <1>2, <1>3, <1>4, <1>5 DEF Legacy!LegacyNext

--------------------------------------------------------------------------------
\* Barcodes and amounts: what can be typed.

CodesInv == Codes!TypeOK /\ amount \in Seq(Chars)

LEMMA CodesStart ==
  ASSUME PartsAssumption, Codes!TypedInit
  PROVE  CodesInv
BY DEF Codes!TypedInit, CodesInv, Codes!TypeOK, PartsAssumption, Codes!TypedAssumption,
       Codes!Length

LEMMA CodesStep ==
  ASSUME PartsAssumption, CodesInv, [Codes!TypedNext]_typedVars
  PROVE  CodesInv'
<1>1. Digits \subseteq 0..9 /\ MaxText \in 1..4
  BY DEF PartsAssumption, Codes!TypedAssumption
<1> USE DEF CodesInv, Codes!TypeOK
<1>2. ASSUME NEW i \in 1..Codes!Length, NEW d \in Digits, Codes!TypeDigit(i, d)
      PROVE  CodesInv'
  BY <1>1, <1>2 DEF Codes!TypeDigit
<1>3. ASSUME NEW c \in Chars, Codes!TypeChar(c)
      PROVE  CodesInv'
  <2>1. amount' = Append(amount, c) /\ Len(amount) < MaxText /\ UNCHANGED <<typing, barcode>>
    BY <1>3 DEF Codes!TypeChar
  <2>2. /\ amount' \in Seq(Chars) /\ Len(amount') = Len(amount) + 1
        /\ \A i \in DOMAIN amount' : amount'[i] \in Chars
    BY <2>1
  <2> QED BY <1>1, <2>1, <2>2
<1>4. CASE Codes!Erase
  <2>1. /\ amount # <<>> /\ amount' = SubSeq(amount, 1, Len(amount) - 1)
        /\ UNCHANGED <<typing, barcode>>
    BY <1>4 DEF Codes!Erase, Codes!Front
  <2>2. Len(amount) \in Nat /\ Len(amount) > 0
    BY <2>1
  <2>3. amount' \in Seq(Chars) /\ Len(amount') = Len(amount) - 1
    <3> DEFINE n == Len(amount) - 1
    <3>1. n \in Nat /\ \A i \in 1..n : amount[i] \in Chars
      BY <2>2
    <3>2. amount' = SubSeq(amount, 1, n)
      BY <2>1
    <3> HIDE DEF n
    <3>3. /\ SubSeq(amount, 1, n) \in Seq(Chars)
          /\ Len(SubSeq(amount, 1, n)) = IF 1 <= n THEN n - 1 + 1 ELSE 0
      BY ONLY <3>1, SubSeqProperties
    <3>4. Len(amount') = n
      BY <3>1, <3>2, <3>3
    <3> QED BY <3>2, <3>3, <3>4 DEF n
  <2>4. \A i \in DOMAIN amount' : amount'[i] \in Chars
    BY <2>3
  <2> QED BY <1>1, <2>1, <2>2, <2>3, <2>4
<1>5. CASE UNCHANGED typedVars
  BY <1>5 DEF typedVars
<1> QED BY Zenon, <1>2, <1>3, <1>4, <1>5 DEF Codes!TypedNext

--------------------------------------------------------------------------------
\* How-to cards.

\* What is kept of a hidden card is its key: it must tell the page, and the role where roles
\* are taught different tasks.
PageOfKey(key) ==
  CASE key = "dashboard_field" -> "dashboard"
    [] key = "stocktake_create" -> "stocktake-new"
    [] key = "stocktake_detail" -> "stocktake-detail"
    [] key \in {"stocktake_list", "stocktake_count"} -> "stocktake"
    [] OTHER -> key
KeyOf(page, office) == Tips!CardOf(page, office).key
Offers(page, office) == Tips!CardOf(page, office).offers

\* What a card is like, page by page.
TellsItsPage(page) ==
  \A office \in BOOLEAN :
    /\ page # "settings-restock" =>
         /\ Tips!CardOf(page, office) # Tips!NoCard
         /\ PageOfKey(KeyOf(page, office)) = page
         /\ page = "dashboard" => (KeyOf(page, office) = "dashboard" <=> office)
         /\ page = "stocktake" => (KeyOf(page, office) = "stocktake_list" <=> office)
    /\ page = "settings-restock" => Tips!CardOf(page, office) = Tips!NoCard
    /\ Offers(page, office) \subseteq
         IF office THEN {"receive", "issue", "item-new", "location-new", "stocktake-new"}
         ELSE {"issue"}

LEMMA CardHas ==
  ASSUME NEW key, NEW offers
  PROVE  /\ Tips!Card(key, offers).key = key /\ Tips!Card(key, offers).offers = offers
         /\ key # "none" => Tips!Card(key, offers) # Tips!NoCard
BY DEF Tips!Card, Tips!NoCard

LEMMA CardOfADashboard == TellsItsPage("dashboard")
<1> DEFINE offers(office) == IF office THEN {"receive", "issue"} ELSE {"issue"}
           key(office) == IF office THEN "dashboard" ELSE "dashboard_field"
<1> SUFFICES ASSUME NEW office \in BOOLEAN
             PROVE  /\ Tips!CardOf("dashboard", office) # Tips!NoCard
                    /\ PageOfKey(KeyOf("dashboard", office)) = "dashboard"
                    /\ KeyOf("dashboard", office) = "dashboard" <=> office
                    /\ Offers("dashboard", office) \subseteq
                         IF office THEN {"receive", "issue", "item-new", "location-new", "stocktake-new"}
                         ELSE {"issue"}
  BY DEF TellsItsPage
<1>1. Tips!CardOf("dashboard", office) =
        IF office THEN Tips!Card("dashboard", {"receive", "issue"})
        ELSE Tips!Card("dashboard_field", {"issue"})
  BY DEF Tips!CardOf, Tips!DashboardCard, Tips!Settings
<1>2. PageOfKey("dashboard") = "dashboard" /\ PageOfKey("dashboard_field") = "dashboard"
  BY DEF PageOfKey
<1>3. CASE office
  <2>1. Tips!CardOf("dashboard", office) = Tips!Card("dashboard", {"receive", "issue"})
    BY Zenon, <1>1, <1>3
  <2>2. KeyOf("dashboard", office) = "dashboard" /\ Offers("dashboard", office) = {"receive", "issue"}
    BY Zenon, <2>1, CardHas DEF KeyOf, Offers
  <2>3. Tips!CardOf("dashboard", office) # Tips!NoCard
    BY <2>1, CardHas
  <2> QED BY <1>2, <1>3, <2>2, <2>3
<1>4. CASE ~office
  <2>1. Tips!CardOf("dashboard", office) = Tips!Card("dashboard_field", {"issue"})
    BY Zenon, <1>1, <1>4
  <2> QED BY <1>2, <1>4, <2>1, CardHas DEF KeyOf, Offers
<1> QED BY <1>3, <1>4

\* A card that is kept under the name of its page.
LEMMA CardOfItsName ==
  ASSUME NEW page, page \notin {"none", "settings-restock", "dashboard", "stocktake"},
         PageOfKey(page) = page,
         \A office \in BOOLEAN :
           \E offers : /\ Tips!CardOf(page, office) = Tips!Card(page, offers)
                       /\ offers \subseteq
                            IF office
                            THEN {"receive", "issue", "item-new", "location-new", "stocktake-new"}
                            ELSE {"issue"}
  PROVE  TellsItsPage(page)
<1> SUFFICES ASSUME NEW office \in BOOLEAN
             PROVE  /\ Tips!CardOf(page, office) # Tips!NoCard
                    /\ KeyOf(page, office) = page
                    /\ Offers(page, office) \subseteq
                         IF office THEN {"receive", "issue", "item-new", "location-new", "stocktake-new"}
                         ELSE {"issue"}
  BY Zenon DEF TellsItsPage
<1>1. PICK offers : /\ Tips!CardOf(page, office) = Tips!Card(page, offers)
                    /\ offers \subseteq
                         IF office THEN {"receive", "issue", "item-new", "location-new", "stocktake-new"}
                         ELSE {"issue"}
  BY Zenon
<1>2. Tips!Card(page, offers) # Tips!NoCard
  BY CardHas
<1>3. KeyOf(page, office) = Tips!Card(page, offers).key
  BY Zenon, <1>1 DEF KeyOf
<1>4. Offers(page, office) = Tips!Card(page, offers).offers
  BY Zenon, <1>1 DEF Offers
<1>5. KeyOf(page, office) = page /\ Offers(page, office) = offers
  BY ONLY <1>3, <1>4, CardHas
<1> QED BY Zenon, <1>1, <1>2, <1>5

LEMMA CardOfAList == \A page \in {"items", "locations", "movements"} : TellsItsPage(page)
<1> SUFFICES ASSUME NEW page \in {"items", "locations", "movements"}
             PROVE  TellsItsPage(page)
  OBVIOUS
<1>1. PageOfKey(page) = page /\ page \notin {"none", "settings-restock", "dashboard", "stocktake"}
  BY DEF PageOfKey
<1>2. ASSUME NEW office \in BOOLEAN
      PROVE  \E offers : /\ Tips!CardOf(page, office) = Tips!Card(page, offers)
                         /\ offers \subseteq
                              IF office
                              THEN {"receive", "issue", "item-new", "location-new", "stocktake-new"}
                              ELSE {"issue"}
  <2>1. Tips!CardOf(page, office) = Tips!ListCard(page, office)
    BY DEF Tips!CardOf, Tips!Settings
  <2>2. CASE page = "items"
    BY <2>1, <2>2 DEF Tips!ListCard
  <2>3. CASE page = "locations"
    BY <2>1, <2>3 DEF Tips!ListCard
  <2>4. CASE page = "movements"
    BY <2>1, <2>4 DEF Tips!ListCard
  <2> QED BY <2>2, <2>3, <2>4
<1> QED BY <1>1, <1>2, CardOfItsName

LEMMA CardOfADetail == \A page \in {"item-detail", "location-detail"} : TellsItsPage(page)
<1> SUFFICES ASSUME NEW page \in {"item-detail", "location-detail"}
             PROVE  TellsItsPage(page)
  OBVIOUS
<1>1. PageOfKey(page) = page /\ page \notin {"none", "settings-restock", "dashboard", "stocktake"}
  BY DEF PageOfKey
<1>2. ASSUME NEW office \in BOOLEAN
      PROVE  \E offers : /\ Tips!CardOf(page, office) = Tips!Card(page, offers)
                         /\ offers \subseteq
                              IF office
                              THEN {"receive", "issue", "item-new", "location-new", "stocktake-new"}
                              ELSE {"issue"}
  <2>1. Tips!CardOf(page, office) = Tips!DetailCard(page, office)
    BY DEF Tips!CardOf, Tips!Settings
  <2>2. CASE office
    BY <2>1, <2>2 DEF Tips!DetailCard
  <2>3. CASE ~office
    BY <2>1, <2>3 DEF Tips!DetailCard
  <2> QED BY <2>2, <2>3
<1> QED BY <1>1, <1>2, CardOfItsName

LEMMA CardOfStocktakes ==
  \A page \in {"stocktake", "stocktake-detail", "stocktake-new"} : TellsItsPage(page)
BY DEF TellsItsPage, KeyOf, Offers, PageOfKey, Tips!CardOf, Tips!StocktakeCard, Tips!Settings,
       Tips!Card, Tips!NoCard

LEMMA CardOfSettings == \A page \in Tips!Settings : TellsItsPage(page)
<1> SUFFICES ASSUME NEW page \in Tips!Settings
             PROVE  TellsItsPage(page)
  OBVIOUS
<1>1. \A office : Tips!CardOf(page, office) = Tips!SettingsCard(page)
  BY DEF Tips!CardOf, Tips!Settings
<1>2. CASE page = "settings-restock"
  BY <1>1, <1>2 DEF TellsItsPage, KeyOf, Offers, Tips!SettingsCard, Tips!Card, Tips!NoCard
<1>3. CASE page # "settings-restock"
  <2>1. Tips!SettingsCard(page) = Tips!Card(page, {})
    BY <1>3 DEF Tips!SettingsCard, Tips!AccessTip
  <2>2. PageOfKey(page) = page /\ page # "none" /\ page # "dashboard" /\ page # "stocktake"
    BY DEF Tips!Settings, PageOfKey
  <2> QED BY <1>1, <1>3, <2>1, <2>2 DEF TellsItsPage, KeyOf, Offers, Tips!Card, Tips!NoCard
<1> QED BY <1>2, <1>3

LEMMA CardsTell ==
  ASSUME PartsAssumption
  PROVE  "none" \notin Pages /\ \A page \in Pages : TellsItsPage(page)
<1>1. Pages \subseteq {"dashboard", "items", "locations", "movements", "item-detail",
                       "location-detail", "stocktake", "stocktake-detail", "stocktake-new"}
                        \cup Tips!Settings
  BY DEF PartsAssumption, Tips!HowToAssumption
<1>2. "none" \notin Pages
  BY <1>1 DEF Tips!Settings
<1> QED BY <1>1, <1>2, CardOfADashboard, CardOfAList, CardOfADetail, CardOfStocktakes, CardOfSettings

LEMMA OneCardOneKey ==
  ASSUME PartsAssumption, NEW p \in Pages, NEW q \in Pages, NEW o \in BOOLEAN, NEW r \in BOOLEAN,
         p # "settings-restock", q # "settings-restock", KeyOf(p, o) = KeyOf(q, r)
  PROVE  p = q /\ (p \in {"dashboard", "stocktake"} => o = r)
<1>1. TellsItsPage(p) /\ TellsItsPage(q)
  BY CardsTell
<1>2. p = q
  BY <1>1 DEF TellsItsPage
<1>3. CASE p = "dashboard"
  BY Zenon, <1>1, <1>2, <1>3 DEF TellsItsPage
<1>4. CASE p = "stocktake"
  BY Zenon, <1>1, <1>2, <1>4 DEF TellsItsPage
<1> QED BY <1>2, <1>3, <1>4

\* A card that is shown has not been hidden by its reader; one that is not was, as this card or
\* as one of the same key.  Hidden cards and kept keys are the same, unless nothing is kept.
Tip == [who : Users, page : Pages, office : BOOLEAN, shown : BOOLEAN]
KeysAreOfHidden ==
  /\ ~blocked => \A u \in Users, p \in Pages, o \in BOOLEAN :
                   <<u, p, o>> \in hidden => <<u, KeyOf(p, o)>> \in remembered
  /\ \A u \in Users : \A key :
       <<u, key>> \in remembered =>
         \E p \in Pages, o \in BOOLEAN :
           <<u, p, o>> \in hidden /\ p # "settings-restock" /\ KeyOf(p, o) = key
ShownOrHidden(t) ==
  /\ t.shown => /\ t.page # "settings-restock"
                /\ ~blocked => <<t.who, KeyOf(t.page, t.office)>> \notin remembered
  /\ ~t.shown /\ t.page # "settings-restock" =>
       \/ <<t.who, t.page, t.office>> \in hidden
       \/ <<t.who, KeyOf(t.page, t.office)>> \in remembered
TipInv ==
  /\ role \in [Users -> {"field", "office", "admin"}] /\ blocked \in BOOLEAN
  /\ \A key \in remembered : key[1] \in Users
  /\ hidden \subseteq Users \X Pages \X BOOLEAN
  /\ KeysAreOfHidden
  /\ tip # Tips!NoTip => tip \in Tip /\ ShownOrHidden(tip)

LEMMA TipStart == Tips!HowToInit => TipInv
<1> SUFFICES ASSUME Tips!HowToInit
             PROVE  TipInv
  OBVIOUS
<1>1. /\ role \in [Users -> {"field", "office", "admin"}] /\ blocked \in BOOLEAN
      /\ remembered = {} /\ tip = Tips!NoTip /\ hidden = {}
  BY Zenon DEF Tips!HowToInit
<1>2. KeysAreOfHidden
  BY <1>1 DEF KeysAreOfHidden
<1>3. /\ \A key \in remembered : key[1] \in Users
      /\ hidden \subseteq Users \X Pages \X BOOLEAN
  BY ONLY <1>1
<1>4. role \in [Users -> {"field", "office", "admin"}] /\ blocked \in BOOLEAN
  BY <1>1
<1>5. tip # Tips!NoTip => tip \in Tip /\ ShownOrHidden(tip)
  BY Zenon, <1>1
<1> QED BY ONLY Zenon, <1>2, <1>3, <1>4, <1>5 DEF TipInv

LEMMA TipKeeps ==
  ASSUME PartsAssumption, TipInv
  PROVE  Tips!TypeOK /\ CardsAreForReaders
<1>1. Tips!TypeOK
  BY DEF TipInv, Tips!TypeOK, Tip
<1>2. CASE tip = Tips!NoTip
  <2>1. ~tip.shown
    BY <1>2 DEF Tips!NoTip
  <2> QED BY Zenon, <1>1, <1>2, <2>1 DEF CardsAreForReaders, Tips!TipsAreRemembered, Tips!OfferedIsAllowed
<1>3. CASE tip # Tips!NoTip
  <2> DEFINE u == tip.who
             p == tip.page
             o == tip.office
  <2>1. /\ u \in Users /\ p \in Pages /\ o \in BOOLEAN /\ tip.shown \in BOOLEAN
        /\ ShownOrHidden(tip)
    BY <1>3 DEF TipInv, Tip
  <2>2. TellsItsPage(p)
    BY <2>1, CardsTell
  <2>3. Tips!CardOf(p, o) # Tips!NoCard <=> p # "settings-restock"
    BY Zenon, <2>1, <2>2 DEF TellsItsPage
  <2>4. tip.shown => blocked \/ <<u, p, o>> \notin hidden
    BY Zenon, <2>1 DEF ShownOrHidden, TipInv, KeysAreOfHidden
  <2>5. ASSUME ~tip.shown, p # "settings-restock"
        PROVE  \E office \in BOOLEAN :
                 /\ <<u, p, office>> \in hidden
                 /\ p \in {"dashboard", "stocktake"} => office = o
    <3>1. CASE <<u, p, o>> \in hidden
      BY Zenon, <2>1, <3>1
    <3>2. CASE <<u, p, o>> \notin hidden
      <4>1. <<u, KeyOf(p, o)>> \in remembered
        BY Zenon, <2>1, <2>5, <3>2 DEF ShownOrHidden
      <4>2. PICK q \in Pages, r \in BOOLEAN :
              <<u, q, r>> \in hidden /\ q # "settings-restock" /\ KeyOf(q, r) = KeyOf(p, o)
        BY Zenon, <4>1, <2>1 DEF TipInv, KeysAreOfHidden
      <4>3. p = q /\ (p \in {"dashboard", "stocktake"} => o = r)
        BY Zenon, <4>2, <2>1, <2>5, OneCardOneKey
      <4> QED BY Zenon, <4>2, <4>3
    <3> QED BY <3>1, <3>2
  <2>6. Tips!TipsAreRemembered
    BY Zenon, <2>3, <2>4, <2>5 DEF Tips!TipsAreRemembered
  <2>7. ASSUME o = Tips!Office(u)
        PROVE  Tips!CardOf(p, o).offers \subseteq Tips!Allowed(u)
    <3>1. Tips!CardOf(p, o).offers \subseteq
            IF o THEN {"receive", "issue", "item-new", "location-new", "stocktake-new"}
            ELSE {"issue"}
      BY Zenon, <2>1, <2>2 DEF TellsItsPage, Offers
    <3> QED BY Zenon, <3>1, <2>7 DEF Tips!Allowed
  <2>8. Tips!OfferedIsAllowed
    BY Zenon, <2>7 DEF Tips!OfferedIsAllowed
  <2> QED BY <1>1, <2>6, <2>8 DEF CardsAreForReaders
<1> QED BY <1>2, <1>3

\* Whoever the page is loaded for, its card is shown or was hidden.
LEMMA LoadedCard ==
  ASSUME PartsAssumption, blocked \in BOOLEAN, NEW u \in Users, NEW p \in Pages, NEW o \in BOOLEAN
  PROVE  Tips!Loaded(u, p, o) \in Tip /\ ShownOrHidden(Tips!Loaded(u, p, o))
<1> DEFINE card == Tips!CardOf(p, o)
           t == Tips!Loaded(u, p, o)
           shows == card # Tips!NoCard /\ ~Tips!IsHidden(u, card)
<1>1. t = [who |-> u, page |-> p, office |-> o, shown |-> shows]
  BY Zenon DEF Tips!Loaded
<1>2. shows <=> /\ p # "settings-restock"
                /\ ~(~blocked /\ <<u, KeyOf(p, o)>> \in remembered)
  BY Zenon, CardsTell DEF TellsItsPage, Tips!IsHidden, KeyOf
<1>3. shows \in BOOLEAN
  BY Zenon
<1> HIDE DEF shows, t
<1>4. t.who = u /\ t.page = p /\ t.office = o /\ t.shown = shows /\ t \in Tip
  BY <1>1, <1>3 DEF Tip
<1>5. ShownOrHidden(t)
  BY Zenon, <1>2, <1>4 DEF ShownOrHidden
<1> QED BY <1>4, <1>5 DEF t

\* Steps that hide nothing.
LEMMA HiddenStay ==
  ASSUME KeysAreOfHidden, UNCHANGED <<blocked, remembered, hidden>>
  PROVE  KeysAreOfHidden'
BY DEF KeysAreOfHidden

LEMMA TipStep ==
  ASSUME PartsAssumption, TipInv, [Tips!HowToNext]_tipVars
  PROVE  TipInv'
<1>1. ASSUME NEW u \in Users, NEW page \in Pages, Tips!Visit(u, page)
      PROVE  TipInv'
  <2>1. Tips!Office(u) \in BOOLEAN
    BY Zenon DEF Tips!Office
  <2>2. tip' = Tips!Loaded(u, page, Tips!Office(u)) /\ UNCHANGED <<role, blocked, remembered, hidden>>
    BY <1>1 DEF Tips!Visit
  <2>3. tip' \in Tip /\ ShownOrHidden(tip')
    BY Zenon, <2>1, <2>2, LoadedCard DEF TipInv
  <2>4. ShownOrHidden(tip)'
    BY Zenon, <2>2, <2>3 DEF ShownOrHidden
  <2> QED BY Zenon, <2>2, <2>3, <2>4, HiddenStay DEF TipInv
<1>2. CASE Tips!Rerender
  <2>1. /\ tip # Tips!NoTip /\ tip' = Tips!Loaded(tip.who, tip.page, tip.office)
        /\ UNCHANGED <<role, blocked, remembered, hidden>>
    BY <1>2 DEF Tips!Rerender
  <2>2. tip.who \in Users /\ tip.page \in Pages /\ tip.office \in BOOLEAN
    BY <2>1 DEF TipInv, Tip
  <2>3. tip' \in Tip /\ ShownOrHidden(tip')
    BY Zenon, <2>1, <2>2, LoadedCard DEF TipInv
  <2>4. ShownOrHidden(tip)'
    BY Zenon, <2>1, <2>3 DEF ShownOrHidden
  <2> QED BY Zenon, <2>1, <2>3, <2>4, HiddenStay DEF TipInv
<1>3. CASE Tips!Hide
  <2> DEFINE u == tip.who
             p == tip.page
             o == tip.office
  <2>1. /\ tip.shown /\ tip' = [tip EXCEPT !.shown = FALSE]
        /\ hidden' = hidden \cup {<<u, p, o>>}
        /\ remembered' = IF blocked THEN remembered ELSE remembered \cup {<<u, KeyOf(p, o)>>}
        /\ UNCHANGED <<role, blocked>>
    BY Zenon, <1>3 DEF Tips!Hide, KeyOf
  <2>2. tip \in Tip /\ ShownOrHidden(tip)
    <3>1. ~Tips!NoTip.shown
      BY DEF Tips!NoTip
    <3> QED BY Zenon, <2>1, <3>1 DEF TipInv
  <2>3. u \in Users /\ p \in Pages /\ o \in BOOLEAN /\ p # "settings-restock"
    BY <2>1, <2>2 DEF Tip, ShownOrHidden
  <2>4. tip' \in Tip /\ tip'.who = u /\ tip'.page = p /\ tip'.office = o /\ ~tip'.shown
    BY <2>1, <2>2 DEF Tip
  <2> HIDE DEF u, p, o
  <2>5. ShownOrHidden(tip)'
    <3>1. <<tip'.who, tip'.page, tip'.office>> \in hidden'
      BY <2>1, <2>4
    <3> QED BY Zenon, <3>1, <2>4 DEF ShownOrHidden
  <2>6. /\ \A key \in remembered' : key[1] \in Users
        /\ hidden' \subseteq Users \X Pages \X BOOLEAN
    BY <2>1, <2>3 DEF TipInv
  <2>7. KeysAreOfHidden'
    <3>1. ASSUME ~blocked, NEW v \in Users, NEW q \in Pages, NEW r \in BOOLEAN,
                 <<v, q, r>> \in hidden'
          PROVE  <<v, KeyOf(q, r)>> \in remembered'
      <4>1. CASE <<v, q, r>> \in hidden
        BY Zenon, <2>1, <3>1, <4>1 DEF TipInv, KeysAreOfHidden
      <4>2. CASE <<v, q, r>> = <<u, p, o>>
        <5>1. v = u /\ q = p /\ r = o
          BY <4>2
        <5> QED BY Zenon, <5>1, <2>1, <3>1
      <4> QED BY <4>1, <4>2, <3>1, <2>1
    <3>2. ASSUME NEW v \in Users, NEW key, <<v, key>> \in remembered'
          PROVE  \E q \in Pages, r \in BOOLEAN :
                   <<v, q, r>> \in hidden' /\ q # "settings-restock" /\ KeyOf(q, r) = key
      <4>1. CASE <<v, key>> \in remembered
        BY Zenon, <2>1, <4>1 DEF TipInv, KeysAreOfHidden
      <4>2. CASE <<v, key>> = <<u, KeyOf(p, o)>>
        <5>1. v = u /\ key = KeyOf(p, o)
          BY <4>2
        <5> QED BY Zenon, <5>1, <2>1, <2>3
      <4> QED BY <4>1, <4>2, <3>2, <2>1
    <3> QED BY Zenon, <3>1, <3>2, <2>1 DEF KeysAreOfHidden
  <2> QED BY Zenon, <2>1, <2>4, <2>5, <2>6, <2>7 DEF TipInv
<1>4. ASSUME NEW u \in Users, NEW r \in {"field", "office", "admin"}, Tips!ChangeRole(u, r)
      PROVE  TipInv'
  <2>1. role' = [role EXCEPT ![u] = r] /\ UNCHANGED <<blocked, remembered, tip, hidden>>
    BY <1>4 DEF Tips!ChangeRole
  <2>2. role' \in [Users -> {"field", "office", "admin"}]
    BY <2>1 DEF TipInv
  <2>3. tip # Tips!NoTip => ShownOrHidden(tip)'
    BY Zenon, <2>1 DEF TipInv, ShownOrHidden
  <2> QED BY Zenon, <2>1, <2>2, <2>3, HiddenStay DEF TipInv
<1>5. CASE UNCHANGED tipVars
  <2>1. tip # Tips!NoTip => ShownOrHidden(tip)'
    BY Zenon, <1>5 DEF TipInv, ShownOrHidden, tipVars
  <2> QED BY Zenon, <1>5, <2>1, HiddenStay DEF TipInv, tipVars
<1> QED BY Zenon, <1>1, <1>2, <1>3, <1>4, <1>5 DEF Tips!HowToNext

--------------------------------------------------------------------------------
\* The parts together.

PartsKept ==
  /\ scene \in Scenes
  /\ BookingInv /\ ImportInv /\ LookupInv /\ StartInv /\ PickerInv /\ PadInv
  /\ ShellInv /\ KeysInv /\ ToastInv /\ LegacyInv /\ CodesInv /\ TipInv

LEMMA PartsStart == PartsInit => PartsKept
<1> SUFFICES ASSUME PartsInit
             PROVE  PartsKept
  OBVIOUS
<1>1. /\ scene \in Scenes
      /\ Booking!Init /\ Import!ImportInit /\ Lookup!LookupInit /\ Start!StartInit
      /\ Choose!PickerInit /\ Pad!PadInit /\ Shell!ShellInit /\ Keys!KeysInit /\ Told!ToastInit
      /\ Legacy!LegacyInit /\ Codes!TypedInit /\ Tips!HowToInit
  BY Zenon DEF PartsInit
<1>2. PartsAssumption
  BY PartsAssumption
<1>3. BookingInv /\ ImportInv /\ LookupInv /\ StartInv /\ PickerInv /\ PadInv
  BY ONLY Zenon, <1>1, <1>2, BookingStart, ImportStart, LookupStart, StartStart, PickerStart, PadStart
<1>4. ShellInv /\ KeysInv /\ ToastInv /\ LegacyInv /\ CodesInv /\ TipInv
  BY ONLY Zenon, <1>1, <1>2, ShellStart, KeysStart, ToastStart, LegacyStart, CodesStart, TipStart
<1> QED BY Zenon, <1>1, <1>3, <1>4 DEF PartsKept

\* Every part steps as itself, or not at all.
LEMMA PartsMove ==
  ASSUME [PartsNext]_partsVars
  PROVE  /\ [Booking!Next]_bookingVars /\ [Import!ImportNext]_importVars
         /\ [Lookup!LookupNext]_lookupVars /\ [Start!StartNext]_startVars
         /\ [Choose!PickerNext]_pickerVars /\ [Pad!PadNext]_padVars
         /\ [Shell!ShellNext]_shellVars /\ [Keys!KeysNext]_keyVars /\ [Told!ToastNext]_toastVars
         /\ [Legacy!LegacyNext]_legacyVars /\ [Codes!TypedNext]_typedVars
         /\ [Tips!HowToNext]_tipVars /\ scene' = scene
BY Zenon DEF PartsNext, partsVars, Form, Frame, formVars, frameVars

LEMMA PartsStep == PartsKept /\ [PartsNext]_partsVars => PartsKept'
<1> SUFFICES ASSUME PartsKept, [PartsNext]_partsVars
             PROVE  PartsKept'
  OBVIOUS
<1>1. /\ [Booking!Next]_bookingVars /\ [Import!ImportNext]_importVars
      /\ [Lookup!LookupNext]_lookupVars /\ [Start!StartNext]_startVars
      /\ [Choose!PickerNext]_pickerVars /\ [Pad!PadNext]_padVars
      /\ [Shell!ShellNext]_shellVars /\ [Keys!KeysNext]_keyVars /\ [Told!ToastNext]_toastVars
      /\ [Legacy!LegacyNext]_legacyVars /\ [Codes!TypedNext]_typedVars
      /\ [Tips!HowToNext]_tipVars /\ scene' = scene
  BY PartsMove
<1>2. PartsAssumption
  BY PartsAssumption
<1>3. BookingInv' /\ ImportInv' /\ LookupInv' /\ StartInv' /\ PickerInv' /\ PadInv'
  BY Zenon, <1>1, <1>2, BookingStep, ImportStep, LookupStep, StartStep, PickerStep, PadStep
     DEF PartsKept
<1>4. ShellInv' /\ KeysInv' /\ ToastInv' /\ LegacyInv' /\ CodesInv' /\ TipInv'
  BY Zenon, <1>1, <1>2, ShellStep, KeysStep, ToastStep, LegacyStep, CodesStep, TipStep
     DEF PartsKept
<1>5. scene' \in Scenes
  BY Zenon, <1>1 DEF PartsKept, Scenes
<1> QED BY Zenon, <1>3, <1>4, <1>5 DEF PartsKept

LEMMA PartsAreKept == PartsSpec => []PartsKept
BY PartsStart, PartsStep, PTL DEF PartsSpec

\* In every reachable state each part is typed, what is modal locks the page and nothing else
\* does, and how-to cards are hidden from whoever hid them and start what their reader may.
THEOREM PartsAreSafe == PartsSpec => []PartsInv
<1>1. PartsKept => PartsInv
  <2> SUFFICES ASSUME PartsKept
               PROVE  PartsInv
    OBVIOUS
  <2>1. /\ Booking!TypeOK /\ Booking!OneDialog /\ Booking!DialogIsModal /\ Booking!NeverLockedOut
        /\ Start!TypeOK /\ Start!ChooserIsFree /\ Choose!TypeOK
    BY Zenon, BookingKeeps, StartKeeps, PickerKeeps DEF PartsKept
  <2>2. Import!TypeOK /\ Lookup!TypeOK /\ Pad!TypeOK
    BY Zenon, LookupKeeps DEF PartsKept, ImportInv, PadInv
  <2>3. Shell!TypeOK /\ Shell!DrawerIsModal /\ Shell!PageIsFree
    BY Zenon, ShellKeeps DEF PartsKept
  <2>4. Keys!TypeOK /\ Told!TypeOK /\ Legacy!TypeOK /\ Codes!TypeOK
    BY Zenon, ToastKeeps, LegacyKeeps DEF PartsKept, KeysInv, CodesInv
  <2>5. Tips!TypeOK /\ CardsAreForReaders
    BY Zenon, PartsAssumption, TipKeeps DEF PartsKept
  <2>6. TypeOK
    BY Zenon, <2>1, <2>2, <2>3, <2>4, <2>5 DEF PartsKept, TypeOK
  <2> QED BY Zenon, <2>1, <2>3, <2>5, <2>6 DEF PartsInv, ModalLocksThePage
<1> QED BY <1>1, PartsAreKept, PTL

\* What is sent is what the form showed as it was confirmed: see SentIsShown.
THEOREM PartsSendTheShown == PartsSpec => []SentIsShown
<1>1. PartsKept => SentIsShown
  <2> SUFFICES ASSUME PartsKept
               PROVE  SentIsShown
    OBVIOUS
  <2>1. Booking!ShortFormSuffices /\ Booking!LotFitsItem /\ Start!OneCampaign /\ Choose!ChosenOnce
    BY Zenon, BookingKeeps, StartKeeps, PickerKeeps DEF PartsKept
  <2>2. Import!ImportIsAsReported
    BY Zenon DEF PartsKept, ImportInv, ReportsKept, Import!ImportIsAsReported
  <2>3. Import!ReportIsOfInputs
    BY Zenon DEF PartsKept, ImportInv, ChecksCurrent, Import!ReportIsOfInputs
  <2> QED BY Zenon, <2>1, <2>2, <2>3 DEF SentIsShown
<1> QED BY <1>1, PartsAreKept, PTL

\* A barcode's suggestion and the users offered are for the text asked for; the search of the
\* location chooser takes up the newest answer and no other, as LatestAnswer promises, and so
\* shows what was found for a text in its box: see AnswersFitInputs.
THEOREM PartsUseWhatFits == PartsSpec => AnswersFitInputs
<1>1. PartsInit => Start!LatestSearch!Init
  <2> SUFFICES ASSUME PartsInit
               PROVE  Start!LatestSearch!Init
    OBVIOUS
  <2>1. chooser = Start!NoChooser
    BY Zenon DEF PartsInit, Start!StartInit
  <2> QED BY <2>1, PartsAssumption, EmptyChooser DEF Start!LatestSearch!Init
<1>2. PartsKept /\ [PartsNext]_partsVars => Newest
  BY Zenon, PartsAssumption, PartsMove, StartStep DEF PartsKept
<1>3. PartsKept /\ [PartsNext]_partsVars => [Suggested]_lookupVars
  BY Zenon, PartsMove, LookupStep DEF PartsKept
<1>4. PartsKept => Lookup!ButtonTells /\ Choose!OfferedAreFound /\ Start!TypedIsFound
  BY Zenon, LookupKeeps, PickerKeeps, StartKeeps DEF PartsKept
<1>5. PartsSpec => Start!NewestSearch
  BY <1>1, <1>2, PartsAreKept, PTL DEF PartsSpec, Start!NewestSearch, Start!LatestSearch!Spec, Newest
<1>6. PartsSpec => Lookup!SuggestionIsForBarcode
  BY <1>3, PartsAreKept, PTL
     DEF PartsSpec, Lookup!SuggestionIsForBarcode, Suggested, lookupVars, Lookup!lookupVars
<1>7. PartsSpec => [](Lookup!ButtonTells /\ Choose!OfferedAreFound /\ Start!TypedIsFound)
  BY <1>4, PartsAreKept, PTL
<1> QED BY <1>5, <1>6, <1>7 DEF AnswersFitInputs

\* The frame gets out of the user's way: a closed keyboard leaves nothing to be given back and
\* every host that was noted right unpadded, Escape keeps the focus in sight, toasts stay their
\* full time and old links end where their anchors live: see FrameIsKept.
THEOREM PartsKeepTheFrame == PartsSpec => FrameIsKept
<1>1. PartsKept => EscapeLeavesFocus
  BY Zenon, EscapeFocus DEF PartsKept
<1>2. PartsKept /\ [PartsNext]_partsVars => [FullTime]_toastVars
  BY Zenon, PartsMove, ToastStep DEF PartsKept
<1>3. PartsKept => /\ Pad!NothingToGiveBack /\ Pad!OwnPaddingIsGivenBack
                   /\ Pad!OneHostIsPadded /\ Pad!FieldHasRoom
  BY Zenon, PadGivesBack DEF PartsKept, PadInv
<1>4. PartsKept => Keys!NoEmptyExpand
  BY Zenon DEF PartsKept, KeysInv
<1>5. PartsKept => Told!OneToastPerMessage /\ Told!LinkedOnce
  BY Zenon, ToastKeeps DEF PartsKept
<1>6. PartsKept => Legacy!LinkIsKept
  BY Zenon, LegacyKeeps DEF PartsKept
<1>7. PartsSpec => Shell!EscapeKeepsFocus
  BY <1>1, PartsAreKept, PTL DEF Shell!EscapeKeepsFocus, EscapeLeavesFocus, shellVars
<1>8. PartsSpec => Told!ToastsStay
  BY <1>2, PartsAreKept, PTL
     DEF PartsSpec, Told!ToastsStay, FullTime, toastVars, Told!toastVars
<1>9. PartsSpec => /\ [](Pad!NothingToGiveBack /\ Pad!OwnPaddingIsGivenBack)
                   /\ [](Pad!OneHostIsPadded /\ Pad!FieldHasRoom)
                   /\ []Keys!NoEmptyExpand
                   /\ [](Told!OneToastPerMessage /\ Told!LinkedOnce)
                   /\ []Legacy!LinkIsKept
  BY <1>3, <1>4, <1>5, <1>6, PartsAreKept, PTL
<1> QED BY <1>7, <1>8, <1>9 DEF FrameIsKept

================================================================================
