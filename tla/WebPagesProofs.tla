----------------------------- MODULE WebPagesProofs -----------------------------
(***************************************************************************)
(* What WebPages asks of each page, for any number of renders, requests,   *)
(* entries, sheets, codes and values.  One part for each page: what it     *)
(* keeps true besides its properties, and that each of its steps does.     *)
(***************************************************************************)
EXTENDS WebPages, StocktakePage, FiniteSetTheorems, TLAPS

--------------------------------------------------------------------------------
\* The requests and answers under way.
Answers == {"sent", "ok", "failed"}
Kinds == {"auto", "batch", "late", "old"}
Snapshots == {c \in Campaign : c.pending = 0}
Loads == [op: {"load"}, page: Nat, st: {"sent", "failed"}]
Loadeds == [op: {"load"}, page: Nat, st: {"ok"}, snap: Snapshots]
Saves == [op: {"save"}, line: Lines, val: Qty, kind: Kinds, st: Answers]
Starts == [op: {"start"}, byHand: BOOLEAN, st: Answers]
Closes == [op: {"close"}, abandon: BOOLEAN, ack: BOOLEAN, byDialog: BOOLEAN, st: Answers]
Messages == {Idle} \cup Loads \cup Loadeds \cup Saves \cup Starts \cup Closes

\* The lines a paint shows as counted are so on the server, and stay so.
OnServer(cnt) == \A l \in Lines : cnt[l] # Nothing => counted[l] # Nothing

\* A message says what is so: its snapshot shows counted lines only, its save was stored,
\* its close asks for no more than the user has confirmed.
True(m) ==
  /\ m \in Loadeds => OnServer(m.snap.cnt)
  /\ m \in Saves /\ m.st = "ok" => counted[m.line] # Nothing
  /\ m \in Closes => /\ m.abandon => consent.abandon
                     /\ m.ack => consent.conflicts

Delivered == /\ net \in [Slots -> Messages]
             /\ \A s \in Slots : True(net[s])

\* While the close dialog is open no count can be sent, and it opened without any.
DialogHoldsCounts == dlg.open => camp.pending = 0

IInv == PageInv /\ CloseHasConsent /\ Delivered /\ DialogHoldsCounts

--------------------------------------------------------------------------------
\* Facts about the data.

\* The operation of a message tells its kind.
LEMMA MessageTypes ==
  ASSUME NEW m \in Messages
  PROVE  /\ m.op = "none" <=> m = Idle
         /\ m.op = "load" => m \in Loads \cup Loadeds
         /\ m.op = "load" /\ m.st = "ok" => m \in Loadeds
         /\ m.op = "save" => m \in Saves
         /\ m.op = "start" => m \in Starts
         /\ m.op = "close" => m \in Closes
BY DEF Messages, Idle, Loads, Loadeds, Saves, Starts, Closes

\* What the page sends, and what settles it, are messages.
LEMMA MessagesMade ==
  /\ Idle \in Messages
  /\ \A p \in Nat : Load(p) \in Loads /\ [Load(p) EXCEPT !.st = "failed"] \in Loads
  /\ \A p \in Nat, c \in Snapshots : Loaded(p, c) \in Loadeds
  /\ \A l \in Lines, q \in Qty, k \in Kinds : Save(l, q, k) \in Saves /\ Save(l, q, k).st # "ok"
  /\ \A b \in BOOLEAN : Start(b) \in Starts
  /\ \A a, b, d \in BOOLEAN : Close(a, b, d) \in Closes
BY DEF Messages, Idle, Load, Loaded, Save, Start, Close, Loads, Loadeds, Saves, Starts,
       Closes, Kinds, Answers

\* An answer settles a message without making another of it.
LEMMA MessagesSettle ==
  ASSUME NEW st \in Answers
  PROVE  /\ \A m \in Saves : [m EXCEPT !.st = st] \in Saves
         /\ \A m \in Starts : [m EXCEPT !.st = st] \in Starts
         /\ \A m \in Closes : [m EXCEPT !.st = st] \in Closes
BY DEF Saves, Starts, Closes

\* Counters of lines and requests are naturals.
LEMMA Sizes == Cardinality(Lines) \in Nat /\ Cardinality(Slots) \in Nat
BY FS_CardinalityType, StocktakeAssumption

\* Pages are numbers.
LEMMA PageNumbers == Pages \subseteq Nat
BY StocktakeAssumption DEF Pages

\* Counting down stops at zero.
LEMMA LessOneFacts ==
  ASSUME NEW n \in Nat
  PROVE  LessOne(n) = IF n = 0 THEN 0 ELSE n - 1
<1> DEFINE S == {0, n - 1}
<1>1. PICK x \in S : \A y \in S : x >= y
  BY DEF S
<1>2. Max(S) \in S /\ \A y \in S : Max(S) >= y
  <2> HIDE DEF S
  <2> QED BY <1>1 DEF Max
<1> QED BY <1>2 DEF LessOne, S

\* The saves of a paint, a batch counting once, are no more than the requests.
LEMMA WaitingFits ==
  ASSUME NEW A \in SUBSET Slots, NEW B \in SUBSET Slots, A \cap B = {}
  PROVE  /\ IsFiniteSet(A)
         /\ Cardinality(A) \in Nat
         /\ Cardinality(A) + (IF B = {} THEN 0 ELSE 1) \in 0..Cardinality(Slots)
         /\ Cardinality(A) = 0 <=> A = {}
<1>1. IsFiniteSet(A) /\ Cardinality(A) \in Nat
  BY FS_Subset, FS_CardinalityType, StocktakeAssumption
<1>2. Cardinality(A) <= Cardinality(Slots)
  BY FS_Subset, StocktakeAssumption
<1>3. ASSUME NEW b \in B
      PROVE  Cardinality(A) + 1 <= Cardinality(Slots)
  <2>1. Cardinality(A \cup {b}) = Cardinality(A) + 1
    BY <1>1, FS_AddElement
  <2> QED BY <2>1, FS_Subset, StocktakeAssumption
<1> QED BY <1>1, <1>2, <1>3, Sizes, FS_EmptySet

\* The two sorts of saves are different ones.
LEMMA BusyFacts ==
  /\ Busy({"auto"}) \subseteq Slots /\ Busy({"batch"}) \subseteq Slots
  /\ Busy({"auto"}) \cap Busy({"batch"}) = {}
  /\ Busy({"auto", "batch"}) = Busy({"auto"}) \cup Busy({"batch"})
BY DEF Busy

\* With nothing pending no save of this paint is under way.
LEMMA NothingPending ==
  ASSUME PendingIsExact, camp.pending = 0
  PROVE  Busy({"auto"}) = {} /\ Busy({"batch"}) = {}
BY BusyFacts, WaitingFits DEF PendingIsExact

--------------------------------------------------------------------------------
\* What a step may do to the messages.

\* A message that claims nothing.
Harmless == {Idle} \cup Loads \cup Starts \cup {m \in Saves : m.st # "ok"}

\* A slot holds no claim it did not hold before.
NoNewClaim(s) ==
  \/ net'[s] = net[s]
  \/ net'[s] \in Harmless
  \/ net[s] \in Saves /\ net'[s] \in Saves /\ net'[s].line = net[s].line /\ net'[s].st = net[s].st
  \/ /\ net[s] \in Closes /\ net'[s] \in Closes
     /\ net'[s].abandon = net[s].abandon /\ net'[s].ack = net[s].ack

\* A slot holds a save of one sort after the step if and only if it did before.
SameSave(s) ==
  \A sort \in {"auto", "batch"} :
    net'[s].op = "save" /\ net'[s].kind = sort <=> net[s].op = "save" /\ net[s].kind = sort

\* Counts and consents are never taken back.
Grows == /\ \A l \in Lines : counted[l] # Nothing => counted'[l] # Nothing
         /\ consent.abandon => consent'.abandon
         /\ consent.conflicts => consent'.conflicts

\* What was true of the messages under way stays true, and the rest was true when said.
LEMMA ClaimsKeep ==
  ASSUME IInv, Grows, net' \in [Slots -> Messages],
         \A s \in Slots : NoNewClaim(s) \/ True(net[s])'
  PROVE  Delivered'
<1> SUFFICES ASSUME NEW s \in Slots, NoNewClaim(s) PROVE True(net[s])'
  BY DEF Delivered
<1>1. net[s] \in Messages /\ True(net[s])
  BY DEF IInv, Delivered
<1>2. CASE net'[s] = net[s]
  <2>1. net[s] \in Loadeds => net[s].snap.cnt = net'[s].snap.cnt
    BY <1>2
  <2>2. net[s] \in Saves => net[s].line \in Lines
    BY DEF Saves
  <2>3. ASSUME net[s] \in Loadeds PROVE OnServer(net[s].snap.cnt)'
    BY <1>1, <2>1, <2>3 DEF True, OnServer, Grows
  <2>4. net[s] \in Saves /\ net[s].st = "ok" => counted'[net[s].line] # Nothing
    BY <1>1, <2>2 DEF True, Grows
  <2>5. net[s] \in Closes => /\ net[s].abandon => consent'.abandon
                             /\ net[s].ack => consent'.conflicts
    BY <1>1 DEF True, Grows
  <2> QED BY <1>2, <2>3, <2>4, <2>5 DEF True
<1>3. CASE net'[s] \in Harmless
  BY <1>3 DEF Harmless, True, Idle, Loads, Loadeds, Starts, Saves, Closes
<1>4. CASE /\ net[s] \in Saves /\ net'[s] \in Saves
           /\ net'[s].line = net[s].line /\ net'[s].st = net[s].st
  BY <1>1, <1>4 DEF True, Loadeds, Saves, Closes, Grows
<1>5. CASE /\ net[s] \in Closes /\ net'[s] \in Closes
           /\ net'[s].abandon = net[s].abandon /\ net'[s].ack = net[s].ack
  BY <1>1, <1>5 DEF True, Loadeds, Saves, Closes, Grows
<1> QED BY <1>2, <1>3, <1>4, <1>5 DEF NoNewClaim

\* Saves that are as before wait as before.
LEMMA BusyKeeps ==
  ASSUME \A s \in Slots : SameSave(s)
  PROVE  Busy({"auto"})' = Busy({"auto"}) /\ Busy({"batch"})' = Busy({"batch"})
BY DEF Busy, SameSave

\* A step of the server or of the others keeps the page as it is.
LEMMA ServerKeeps ==
  ASSUME IInv, UNCHANGED client, net' \in [Slots -> Messages],
         status' \in {"open", "counting", "closed"},
         counted' \in [Lines -> Qty \cup {Nothing}], moved' \subseteq Lines,
         \A l \in Lines : counted[l] # Nothing => counted'[l] # Nothing,
         \A s \in Slots : SameSave(s) /\ (NoNewClaim(s) \/ True(net[s])'),
         CloseHasConsent'
  PROVE  IInv'
<1>1. Delivered'
  BY ClaimsKeep DEF client, Grows
<1>2. TypeOK'
  <2>1. \A m \in Messages : m.op \in {"none", "load", "save", "start", "close"}
    BY DEF Messages, Idle, Loads, Loadeds, Saves, Starts, Closes
  <2> QED BY <2>1 DEF client, IInv, PageInv, TypeOK
<1>3. PendingIsExact'
  BY BusyKeeps DEF client, IInv, PageInv, PendingIsExact
<1>4. CountedIsOnServer'
  BY DEF client, IInv, PageInv, CountedIsOnServer
<1>5. DialogHoldsCounts'
  BY DEF client, IInv, DialogHoldsCounts
<1> QED BY <1>1, <1>2, <1>3, <1>4, <1>5 DEF IInv, PageInv

\* A step of the browser: what is left to show of it.
LEMMA BrowserKeeps ==
  ASSUME IInv, UNCHANGED server, net' \in [Slots -> Messages],
         \A s \in Slots : NoNewClaim(s) \/ True(net[s])',
         screen' \in {"blank", "page", "error"},
         auto' \in {"no", "starting", "failed"},
         dlg' \in [open: BOOLEAN, uncounted: 0..Cardinality(Lines),
                   conflicts: 0..Cardinality(Lines), busy: BOOLEAN],
         consent' \in [abandon: BOOLEAN, conflicts: BOOLEAN],
         consent.abandon => consent'.abandon, consent.conflicts => consent'.conflicts,
         camp' \in Campaign \/ camp' = camp,
         OnServer(camp'.cnt), PendingIsExact', DialogHoldsCounts'
  PROVE  IInv'
<1>1. Delivered'
  BY ClaimsKeep DEF server, Grows
<1>2. TypeOK'
  <2>1. \A m \in Messages : m.op \in {"none", "load", "save", "start", "close"}
    BY DEF Messages, Idle, Loads, Loadeds, Saves, Starts, Closes
  <2> QED BY <2>1 DEF server, IInv, PageInv, TypeOK
<1>3. CountedIsOnServer'
  BY DEF server, CountedIsOnServer, OnServer
<1>4. CloseHasConsent'
  BY DEF server, IInv, CloseHasConsent, Uncounted
<1> QED BY <1>1, <1>2, <1>3, <1>4 DEF IInv, PageInv

\* The counter of a page that is exact is within its bound.
LEMMA PendingFits ==
  ASSUME PendingIsExact'
  PROVE  camp'.pending \in 0..Cardinality(Slots)
<1> DEFINE A == Busy({"auto"})'
           B == Busy({"batch"})'
<1>1. A \in SUBSET Slots /\ B \in SUBSET Slots /\ A \cap B = {}
  BY DEF Busy
<1>2. Cardinality(A) + (IF B = {} THEN 0 ELSE 1) \in 0..Cardinality(Slots)
  <2> HIDE DEF A, B
  <2> QED BY <1>1, WaitingFits
<1> QED BY <1>2 DEF PendingIsExact

--------------------------------------------------------------------------------
\* The initial states satisfy the invariant.
LEMMA InitInvariant == Init => IInv
<1> SUFFICES ASSUME Init PROVE IInv
  OBVIOUS
<1>1. PICK s \in Slots : net = [[t \in Slots |-> Idle] EXCEPT ![s] = Load(0)]
  BY DEF Init
<1>2. \A t \in Slots : net[t] \in {Idle} \cup Loads
  BY <1>1, MessagesMade
<1>3. net \in [Slots -> Messages]
  BY <1>1, <1>2 DEF Messages
<1>4. Delivered
  BY <1>2, <1>3 DEF Delivered, True, Idle, Loads, Loadeds, Saves, Closes
<1>5. TypeOK
  <2>1. camp \in Campaign
    BY Sizes DEF Init, NoCampaign, Campaign
  <2>2. dlg \in [open: BOOLEAN, uncounted: 0..Cardinality(Lines),
                 conflicts: 0..Cardinality(Lines), busy: BOOLEAN]
    BY Sizes DEF Init, NoDialog
  <2>3. \A t \in Slots : net[t].op \in {"none", "load", "save", "start", "close"}
    BY <1>2 DEF Idle, Loads
  <2> QED BY <1>3, <2>1, <2>2, <2>3 DEF Init, TypeOK
<1>6. PendingIsExact
  <2>1. Busy({"auto"}) = {} /\ Busy({"batch"}) = {}
    BY <1>2 DEF Busy, Idle, Loads
  <2> QED BY <2>1, FS_EmptySet DEF PendingIsExact, Init, NoCampaign
<1>7. CountedIsOnServer /\ CloseHasConsent /\ DialogHoldsCounts
  BY DEF Init, NoCampaign, NoDialog, CountedIsOnServer, CloseHasConsent, DialogHoldsCounts
<1> QED BY <1>4, <1>5, <1>6, <1>7 DEF IInv, PageInv

--------------------------------------------------------------------------------
\* The server's steps.

\* A snapshot of the server is one a page can show.
LEMMA SnapshotFacts ==
  ASSUME IInv, NEW p \in Nat
  PROVE  Snapshot(p) \in Snapshots /\ OnServer(Snapshot(p).cnt)
<1>1. Cardinality(Uncounted) \in 0..Cardinality(Lines)
  <2>1. Uncounted \in SUBSET Lines
    BY DEF Uncounted
  <2> QED BY <2>1, FS_Subset, FS_CardinalityType, StocktakeAssumption
<1>2. Cardinality(moved) \in 0..Cardinality(Lines)
  BY FS_Subset, FS_CardinalityType, StocktakeAssumption DEF IInv, PageInv, TypeOK
<1>3. [l \in Lines |-> IF PageOf[l] = p THEN counted[l] ELSE Nothing]
        \in [Lines -> Qty \cup {Nothing}]
  BY DEF IInv, PageInv, TypeOK
<1>4. Snapshot(p) \in Snapshots
  BY <1>1, <1>2, <1>3, Sizes DEF Snapshot, Snapshots, Campaign, IInv, PageInv, TypeOK
<1>5. OnServer(Snapshot(p).cnt)
  BY DEF OnServer, Snapshot
<1> QED BY <1>4, <1>5

\* What a slot holds, by its operation.
LEMMA SlotTypes ==
  ASSUME IInv, NEW s \in Slots
  PROVE  /\ net[s] \in Messages
         /\ net[s].op = "none" <=> net[s] = Idle
         /\ net[s].op = "load" => net[s] \in Loads \cup Loadeds
         /\ net[s].op = "load" /\ net[s].st = "ok" => net[s] \in Loadeds
         /\ net[s].op = "save" => net[s] \in Saves
         /\ net[s].op = "start" => net[s] \in Starts
         /\ net[s].op = "close" => net[s] \in Closes
BY MessageTypes DEF IInv, Delivered

\* renderStocktakeDetail's request is answered.
LEMMA ServeLoadKeeps ==
  ASSUME IInv, NEW s \in Slots, ServeLoad(s)
  PROVE  IInv'
<1> DEFINE p == net[s].page
<1>1. p \in Nat
  BY SlotTypes DEF ServeLoad, Loads, Loadeds
<1>2. Snapshot(p) \in Snapshots /\ OnServer(Snapshot(p).cnt)
  BY <1>1, SnapshotFacts
<1>3. net' = [net EXCEPT ![s] = Loaded(p, Snapshot(p))] /\ UNCHANGED <<server, client>>
  BY DEF ServeLoad
<1>4. Loaded(p, Snapshot(p)) \in Loadeds
  BY <1>1, <1>2, MessagesMade
<1>5. net' \in [Slots -> Messages]
  BY <1>3, <1>4 DEF IInv, Delivered, Messages
<1>6. net[s].op = "load" /\ net'[s] \in Loadeds /\ net'[s].snap.cnt = Snapshot(p).cnt
  BY <1>3, <1>4 DEF ServeLoad, IInv, Delivered, Loaded
<1>7. True(net[s])'
  BY <1>2, <1>3, <1>6 DEF True, OnServer, server, Loadeds, Saves, Closes
<1>8. \A t \in Slots : SameSave(t) /\ (NoNewClaim(t) \/ True(net[t])')
  BY <1>3, <1>6, <1>7 DEF IInv, Delivered, SameSave, NoNewClaim, Loadeds
<1>9. CloseHasConsent'
  BY <1>3 DEF server, client, IInv, CloseHasConsent, Uncounted
<1> QED BY <1>3, <1>5, <1>8, <1>9, ServerKeeps DEF server, client, IInv, PageInv, TypeOK

\* setCount: stored, or refused because the campaign is not counting.
LEMMA ServeSaveKeeps ==
  ASSUME IInv, NEW s \in Slots, ServeSave(s)
  PROVE  IInv'
<1>1. net[s] \in Saves
  BY SlotTypes DEF ServeSave
<1>2. PICK st \in {"ok", "failed"} : /\ Settled(s, st)
                                     /\ st = "ok" <=> status = "counting"
  BY DEF ServeSave
<1>3. net' = [net EXCEPT ![s] = [net[s] EXCEPT !.st = st]] /\ net'[s] \in Saves
  BY <1>1, <1>2, MessagesSettle DEF Settled, IInv, Delivered, Answers
<1>4. net'[s].st = st /\ net'[s].line = net[s].line /\ net'[s].kind = net[s].kind
  BY <1>1, <1>3 DEF Saves, IInv, Delivered
<1>5. net' \in [Slots -> Messages]
  BY <1>3 DEF IInv, Delivered, Messages
<1>6. /\ counted' \in [Lines -> Qty \cup {Nothing}]
      /\ \A l \in Lines : counted[l] # Nothing => counted'[l] # Nothing
      /\ st = "ok" => counted'[net[s].line] # Nothing
  <2>1. net[s].line \in Lines /\ net[s].val \in Qty /\ net[s].val # Nothing
    BY <1>1, StocktakeAssumption DEF Saves
  <2> QED BY <1>2, <2>1 DEF ServeSave, IInv, PageInv, TypeOK
<1>7. True(net[s])'
  BY <1>3, <1>4, <1>6 DEF True, Loadeds, Saves, Closes
<1>8. \A t \in Slots : SameSave(t) /\ (NoNewClaim(t) \/ True(net[t])')
  BY <1>1, <1>3, <1>4, <1>7 DEF IInv, Delivered, SameSave, NoNewClaim, Saves
<1>9. status' = status /\ moved' = moved /\ UNCHANGED client
  BY DEF ServeSave
<1>10. CloseHasConsent'
  <2>1. status' = "closed" => counted' = counted
    BY <1>9 DEF ServeSave
  <2> QED BY <1>9, <2>1 DEF client, IInv, CloseHasConsent, Uncounted
<1> QED BY <1>5, <1>6, <1>8, <1>9, <1>10, ServerKeeps DEF IInv, PageInv, TypeOK

\* start: once, from open.
LEMMA ServeStartKeeps ==
  ASSUME IInv, NEW s \in Slots, ServeStart(s)
  PROVE  IInv'
<1>1. net[s] \in Starts
  BY SlotTypes DEF ServeStart
<1>2. PICK st \in {"ok", "failed"} : Settled(s, st)
  BY DEF ServeStart
<1>3. net' = [net EXCEPT ![s] = [net[s] EXCEPT !.st = st]] /\ net'[s] \in Starts
  BY <1>1, <1>2, MessagesSettle DEF Settled, IInv, Delivered, Answers
<1>4. net' \in [Slots -> Messages]
  BY <1>3 DEF IInv, Delivered, Messages
<1>5. \A t \in Slots : SameSave(t) /\ NoNewClaim(t)
  BY <1>1, <1>3 DEF IInv, Delivered, SameSave, NoNewClaim, Starts, Harmless
<1>6. /\ counted' = counted /\ moved' = moved /\ UNCHANGED client
      /\ status' \in {"open", "counting", "closed"} /\ (status' = "closed" => status = "closed")
  BY DEF ServeStart, IInv, PageInv, TypeOK
<1>7. CloseHasConsent'
  BY <1>6 DEF client, IInv, CloseHasConsent, Uncounted
<1> QED BY <1>4, <1>5, <1>6, <1>7, ServerKeeps DEF IInv, PageInv, TypeOK

\* close: with the consents the request carries, and no further.
LEMMA ServeCloseKeeps ==
  ASSUME IInv, NEW s \in Slots, ServeClose(s)
  PROVE  IInv'
<1>1. net[s] \in Closes
  BY SlotTypes DEF ServeClose
<1>2. PICK st \in {"ok", "failed"} : Settled(s, st)
  BY DEF ServeClose
<1>3. net' = [net EXCEPT ![s] = [net[s] EXCEPT !.st = st]] /\ net'[s] \in Closes
  BY <1>1, <1>2, MessagesSettle DEF Settled, IInv, Delivered, Answers
<1>4. net' \in [Slots -> Messages]
  BY <1>3 DEF IInv, Delivered, Messages
<1>5. net'[s].abandon = net[s].abandon /\ net'[s].ack = net[s].ack
  BY <1>1, <1>3 DEF Closes, IInv, Delivered
<1>6. \A t \in Slots : SameSave(t) /\ NoNewClaim(t)
  BY <1>1, <1>3, <1>5 DEF IInv, Delivered, SameSave, NoNewClaim, Closes
<1>7. /\ counted' = counted /\ moved' = moved /\ UNCHANGED client
      /\ status' \in {"open", "counting", "closed"}
  BY DEF ServeClose, IInv, PageInv, TypeOK
<1>8. CloseHasConsent'
  <2>1. CASE CloseRefused(net[s])
    BY <1>7, <2>1 DEF ServeClose, client, IInv, CloseHasConsent, Uncounted
  <2>2. CASE ~CloseRefused(net[s])
    <3>1. True(net[s])
      BY DEF IInv, Delivered
    <3> QED BY <1>1, <1>7, <2>2, <3>1 DEF True, CloseRefused, client, CloseHasConsent, Uncounted
  <2> QED BY <2>1, <2>2
<1> QED BY <1>4, <1>6, <1>7, <1>8, ServerKeeps DEF IInv, PageInv, TypeOK

\* A request or its answer is lost.
LEMMA BreakKeeps ==
  ASSUME IInv, NEW s \in Slots, Break(s)
  PROVE  IInv'
<1>1. /\ net' = [net EXCEPT ![s] = net'[s]] /\ net'[s] \in Messages
      /\ SameSave(s) /\ NoNewClaim(s)
  <2>1. CASE net[s].op = "load"
    <3>1. net[s].page \in Nat
      BY <2>1, SlotTypes DEF Loads, Loadeds
    <3>2. net' = [net EXCEPT ![s] = [Load(net[s].page) EXCEPT !.st = "failed"]]
      BY <2>1 DEF Break
    <3>3. net'[s] \in Loads /\ net' = [net EXCEPT ![s] = net'[s]]
      BY <3>1, <3>2, MessagesMade DEF IInv, Delivered
    <3> QED BY <2>1, <3>3 DEF Messages, SameSave, NoNewClaim, Harmless, Loads
  <2>2. CASE net[s].op # "load"
    <3>1. net' = [net EXCEPT ![s] = [net[s] EXCEPT !.st = "failed"]]
      BY <2>2 DEF Break, Settled
    <3>2. net[s] \in Saves \/ net[s] \in Starts \/ net[s] \in Closes
      BY <2>2, SlotTypes DEF Break, IInv, PageInv, TypeOK
    <3>3. CASE net[s] \in Saves
      <4>1. net'[s] \in Saves /\ net'[s].st = "failed" /\ net'[s].kind = net[s].kind
        BY <3>1, <3>3, MessagesSettle DEF Saves, Answers, IInv, Delivered
      <4> QED BY <3>1, <3>3, <4>1
              DEF IInv, Delivered, Messages, SameSave, NoNewClaim, Harmless, Saves
    <3>4. CASE net[s] \in Starts
      <4>1. net'[s] \in Starts
        BY <3>1, <3>4, MessagesSettle DEF Answers, IInv, Delivered
      <4> QED BY <3>1, <3>4, <4>1
              DEF IInv, Delivered, Messages, SameSave, NoNewClaim, Harmless, Starts
    <3>5. CASE net[s] \in Closes
      <4>1. /\ net'[s] \in Closes
            /\ net'[s].abandon = net[s].abandon /\ net'[s].ack = net[s].ack
        BY <3>1, <3>5, MessagesSettle DEF Closes, Answers, IInv, Delivered
      <4> QED BY <3>1, <3>5, <4>1
              DEF IInv, Delivered, Messages, SameSave, NoNewClaim, Closes
    <3> QED BY <3>2, <3>3, <3>4, <3>5
  <2> QED BY <2>1, <2>2
<1>2. net' \in [Slots -> Messages]
  BY <1>1 DEF IInv, Delivered
<1>3. \A t \in Slots : SameSave(t) /\ NoNewClaim(t)
  BY <1>1 DEF IInv, Delivered, SameSave, NoNewClaim
<1>4. UNCHANGED <<server, client>>
  BY DEF Break
<1>5. CloseHasConsent'
  BY <1>4 DEF server, client, IInv, CloseHasConsent, Uncounted
<1> QED BY <1>2, <1>3, <1>4, <1>5, ServerKeeps DEF server, IInv, PageInv, TypeOK

\* Others count a line, or move its stock, while the page looks on.
LEMMA OthersKeep ==
  ASSUME IInv, Others
  PROVE  IInv'
<1>1. /\ UNCHANGED client /\ net' = net /\ status' = status /\ status # "closed"
      /\ counted' \in [Lines -> Qty \cup {Nothing}] /\ moved' \subseteq Lines
      /\ \A l \in Lines : counted[l] # Nothing => counted'[l] # Nothing
  BY StocktakeAssumption DEF Others, OthersCount, OthersMove, IInv, PageInv, TypeOK
<1>2. \A t \in Slots : SameSave(t) /\ NoNewClaim(t)
  BY <1>1 DEF SameSave, NoNewClaim
<1>3. CloseHasConsent'
  BY <1>1 DEF CloseHasConsent
<1> QED BY <1>1, <1>2, <1>3, ServerKeeps DEF IInv, Delivered, PageInv, TypeOK

--------------------------------------------------------------------------------
\* The browser's steps.

\* A step that gives one slot another message, and sends or settles no save of this paint.
LEMMA OneSlot ==
  ASSUME IInv, NEW s \in Slots, net' = [net EXCEPT ![s] = net'[s]],
         net'[s] \in Messages, SameSave(s), NoNewClaim(s)
  PROVE  /\ net' \in [Slots -> Messages]
         /\ \A t \in Slots : SameSave(t) /\ NoNewClaim(t)
<1>1. net' \in [Slots -> Messages] /\ \A t \in Slots \ {s} : net'[t] = net[t]
  BY DEF IInv, Delivered
<1> QED BY <1>1 DEF SameSave, NoNewClaim

\* A slot that is made free, or used for a request that is not a count.
LEMMA SlotUsed ==
  ASSUME IInv, NEW s \in Slots, NEW m \in {Idle} \cup Loads \cup Starts,
         net' = [net EXCEPT ![s] = m], net[s].op # "save"
  PROVE  /\ net' \in [Slots -> Messages]
         /\ \A t \in Slots : SameSave(t) /\ NoNewClaim(t)
<1>1. net'[s] = m /\ m \in Messages /\ m \in Harmless /\ m.op # "save"
  BY DEF IInv, Delivered, Messages, Harmless, Idle, Loads, Starts
<1>2. SameSave(s) /\ NoNewClaim(s)
  BY <1>1 DEF SameSave, NoNewClaim
<1> QED BY <1>1, <1>2, OneSlot

\* A step that leaves the campaign, the dialog and the counts under way alone.
LEMMA CountQuietKeeps ==
  ASSUME IInv, UNCHANGED <<server, camp, dlg, consent>>, net' \in [Slots -> Messages],
         \A t \in Slots : SameSave(t) /\ NoNewClaim(t),
         screen' \in {"blank", "page", "error"}, auto' \in {"no", "starting", "failed"}
  PROVE  IInv'
<1>1. PendingIsExact' /\ DialogHoldsCounts'
  BY BusyKeeps DEF IInv, PageInv, PendingIsExact, DialogHoldsCounts
<1>2. OnServer(camp'.cnt)
  BY DEF IInv, PageInv, CountedIsOnServer, OnServer
<1> QED BY <1>1, <1>2, BrowserKeeps DEF IInv, PageInv, TypeOK

\* The paint of an answer: a new campaign, no counts of it under way.
LEMMA CountPaintKeeps ==
  ASSUME IInv, NEW s \in Slots, Paint(s)
  PROVE  IInv'
<1> DEFINE n == AfterPaint(s)
           snap == net[s].snap
<1>1. net[s] \in Loadeds /\ snap \in Snapshots /\ OnServer(snap.cnt)
  BY SlotTypes DEF Paint, Loadeds, IInv, Delivered, True
<1>2. \A t \in Slots : \/ n[t] = Idle
                       \/ net[t].op # "save" /\ n[t] = net[t]
                       \/ /\ net[t] \in Saves /\ n[t] \in Saves /\ n[t].kind = "old"
                          /\ n[t].line = net[t].line /\ n[t].st = net[t].st
  <2> TAKE t \in Slots
  <2>1. n[t] = IF t = s THEN Idle
               ELSE IF net[t].op = "save" THEN [net[t] EXCEPT !.kind = "old"] ELSE net[t]
    <3>1. net[s].op = "load"
      BY DEF Paint
    <3>2. n[t] = CASE t = s -> Idle
                   [] net[t].op = "save" -> [net[t] EXCEPT !.kind = "old"]
                   [] OTHER -> net[t]
      BY DEF AfterPaint
    <3> HIDE DEF n
    <3> QED BY <3>1, <3>2
  <2>2. net[t].op = "save" => net[t] \in Saves
    BY SlotTypes
  <2> HIDE DEF n
  <2> QED BY <2>1, <2>2 DEF Saves, Kinds
<1>3. \/ net' = n
      \/ \E u \in Slots, m \in Starts : net' = [t \in Slots |-> IF t = u THEN m ELSE n[t]]
  <2>1. CASE snap.status = "open" /\ auto = "no"
    <3>1. PICK u \in Slots : net' = [t \in Slots |-> IF t = u THEN Start(FALSE) ELSE n[t]]
      BY <2>1 DEF Paint
    <3> HIDE DEF n
    <3> QED BY <3>1, MessagesMade
  <2>2. CASE ~(snap.status = "open" /\ auto = "no")
    <3>1. net' = n
      BY <2>2 DEF Paint
    <3> QED BY <3>1
  <2> QED BY <2>1, <2>2
<1>4. \A t \in Slots : /\ net'[t] \in Messages /\ NoNewClaim(t)
                       /\ ~(net'[t].op = "save" /\ net'[t].kind \in {"auto", "batch"})
  <2> HIDE DEF n
  <2> TAKE t \in Slots
  <2>1. net'[t] = n[t] \/ net'[t] \in Starts
    BY <1>3
  <2>2. CASE net'[t] \in Starts
    BY <2>2 DEF Messages, NoNewClaim, Harmless, Starts
  <2>3. CASE net'[t] = n[t]
    <3>1. net[t] \in Messages
      BY SlotTypes
    <3> QED BY <1>2, <2>3, <3>1 DEF Messages, NoNewClaim, Harmless, Saves, Idle
  <2> QED BY <2>1, <2>2, <2>3
<1>5. net' \in [Slots -> Messages]
  <2>1. n = [t \in Slots |-> n[t]]
    BY DEF AfterPaint
  <2> HIDE DEF n
  <2> QED BY <1>3, <1>4, <2>1
<1>6. /\ camp' \in Campaign /\ camp'.pending = 0 /\ camp'.cnt = snap.cnt
      /\ UNCHANGED <<server, dlg, consent>>
  <2>1. camp' = [snap EXCEPT !.manual = (snap.status = "open" /\ auto = "failed")]
    BY DEF Paint
  <2> QED BY <1>1, <2>1 DEF Paint, Snapshots, Campaign
<1>7. PendingIsExact'
  <2>1. Busy({"auto"})' = {} /\ Busy({"batch"})' = {}
    BY <1>4 DEF Busy
  <2> QED BY <1>6, <2>1, FS_EmptySet DEF PendingIsExact
<1>8. DialogHoldsCounts' /\ OnServer(camp'.cnt)
  BY <1>1, <1>6 DEF DialogHoldsCounts
<1>9. screen' \in {"blank", "page", "error"} /\ auto' \in {"no", "starting", "failed"}
  BY DEF Paint, IInv, PageInv, TypeOK
<1> QED BY <1>4, <1>5, <1>6, <1>7, <1>8, <1>9, BrowserKeeps DEF IInv, PageInv, TypeOK

\* A page that could not be loaded, and its retry.
LEMMA LoadFailsKeeps ==
  ASSUME IInv, NEW s \in Slots, LoadFails(s)
  PROVE  IInv'
BY SlotUsed, CountQuietKeeps DEF LoadFails, IInv, PageInv, TypeOK

\* Another render of the page.
LEMMA CountRenderKeeps ==
  ASSUME IInv, NEW p \in Nat, Render(net, p), screen' = "blank",
         UNCHANGED <<server, camp, auto, dlg, consent>>
  PROVE  IInv'
<1>1. PICK t \in Slots : net[t] = Idle /\ net' = [net EXCEPT ![t] = Load(p)]
  BY DEF Render
<1>2. net[t].op # "save" /\ Load(p) \in Loads
  BY <1>1, SlotTypes, MessagesMade
<1>3. net' \in [Slots -> Messages] /\ \A u \in Slots : SameSave(u) /\ NoNewClaim(u)
  BY <1>1, <1>2, SlotUsed
<1> QED BY <1>3, CountQuietKeeps DEF IInv, PageInv, TypeOK

\* Retry and the buttons of the pager.
LEMMA PagerKeeps ==
  ASSUME IInv, Retry \/ \E p \in Pages : TurnPage(p)
  PROVE  IInv'
<1>1. PICK p \in Pages : Render(net, p)
  BY DEF Retry, TurnPage
<1>2. screen' = "blank" /\ UNCHANGED <<server, camp, auto, dlg, consent>>
  BY DEF Retry, TurnPage
<1> QED BY <1>1, <1>2, CountRenderKeeps, PageNumbers

\* Start counting, by hand.
LEMMA StartByHandKeeps ==
  ASSUME IInv, StartByHand
  PROVE  IInv'
<1>1. PICK s \in Slots : net[s] = Idle /\ net' = [net EXCEPT ![s] = Start(TRUE)]
  BY DEF StartByHand, Free
<1>2. net[s].op # "save" /\ Start(TRUE) \in Starts
  BY <1>1, SlotTypes, MessagesMade
<1>3. net' \in [Slots -> Messages] /\ \A u \in Slots : SameSave(u) /\ NoNewClaim(u)
  BY <1>1, <1>2, SlotUsed
<1> QED BY <1>3, CountQuietKeeps DEF StartByHand, client, IInv, PageInv, TypeOK

\* ... and its answer, or that of the automatic start.
LEMMA StartAnsweredKeeps ==
  ASSUME IInv, NEW s \in Slots, StartAnswered(s)
  PROVE  IInv'
<1>1. camp.page \in Nat
  BY DEF IInv, PageInv, TypeOK, Campaign
<1>2. PICK m \in {Idle} \cup Loads : net' = [net EXCEPT ![s] = m]
  BY <1>1, MessagesMade DEF StartAnswered
<1>3. net[s].op # "save"
  BY DEF StartAnswered
<1>4. net' \in [Slots -> Messages] /\ \A u \in Slots : SameSave(u) /\ NoNewClaim(u)
  BY <1>2, <1>3, SlotUsed
<1>5. screen' \in {"blank", "page", "error"} /\ auto' \in {"no", "starting", "failed"}
  BY DEF StartAnswered, IInv, PageInv, TypeOK
<1> QED BY <1>4, <1>5, CountQuietKeeps DEF StartAnswered

--------------------------------------------------------------------------------
\* Counting.

\* What the page writes into its campaign leaves a campaign.
LEMMA CampaignFacts ==
  ASSUME NEW c \in Campaign
  PROVE  /\ \A n \in 0..Cardinality(Slots) :
              LET d == [c EXCEPT !.pending = n]
              IN  d \in Campaign /\ d.pending = n /\ d.cnt = c.cnt
         /\ \A l \in Lines, q \in Qty :
              LET d == [c EXCEPT !.cnt[l] = q]
              IN  d \in Campaign /\ d.pending = c.pending /\ d.cnt = [c.cnt EXCEPT ![l] = q]
         /\ \A l \in Lines, q \in Qty :
              LET d == Counts(c, l, q)
              IN  d \in Campaign /\ d.pending = c.pending /\ d.cnt = [c.cnt EXCEPT ![l] = q]
<1>1. c.uncounted \in Nat /\ c.uncounted <= Cardinality(Lines)
  BY Sizes DEF Campaign
<1>2. LessOne(c.uncounted) \in 0..Cardinality(Lines)
  BY <1>1, Sizes, LessOneFacts
<1>3. ASSUME NEW n \in 0..Cardinality(Slots)
      PROVE  LET d == [c EXCEPT !.pending = n]
             IN  d \in Campaign /\ d.pending = n /\ d.cnt = c.cnt
  BY DEF Campaign
<1>4. ASSUME NEW l \in Lines, NEW q \in Qty
      PROVE  LET d == [c EXCEPT !.cnt[l] = q]
             IN  d \in Campaign /\ d.pending = c.pending /\ d.cnt = [c.cnt EXCEPT ![l] = q]
  BY DEF Campaign
<1>5. ASSUME NEW l \in Lines, NEW q \in Qty
      PROVE  LET d == Counts(c, l, q)
             IN  d \in Campaign /\ d.pending = c.pending /\ d.cnt = [c.cnt EXCEPT ![l] = q]
  BY <1>2 DEF Campaign, Counts
<1> QED BY <1>3, <1>4, <1>5

\* A campaign in which a line is shown as counted that is.
LEMMA ShowsCounted ==
  ASSUME IInv, NEW s \in Slots, net[s] \in Saves, net[s].st = "ok",
         NEW cnt, cnt = [camp.cnt EXCEPT ![net[s].line] = net[s].val]
  PROVE  OnServer(cnt)
<1>1. counted[net[s].line] # Nothing
  BY DEF IInv, Delivered, True
<1>2. OnServer(camp.cnt) /\ camp.cnt \in [Lines -> Qty \cup {Nothing}]
  BY DEF IInv, PageInv, TypeOK, CountedIsOnServer, OnServer, Campaign
<1> QED BY <1>1, <1>2 DEF OnServer

\* A field that is left, or Enter in it: one more save is pending.
LEMMA AutosaveKeeps ==
  ASSUME IInv, NEW l \in Lines, NEW q \in Qty, Autosave(l, q)
  PROVE  IInv'
<1>1. PICK s \in Slots : net[s] = Idle /\ net' = [net EXCEPT ![s] = Save(l, q, "auto")]
  BY DEF Autosave, Free
<1>2. net[s].op # "save" /\ net \in [Slots -> Messages]
  BY <1>1, SlotTypes DEF IInv, Delivered
<1>3. /\ net'[s] = Save(l, q, "auto") /\ net'[s] \in Saves /\ net'[s].st # "ok"
      /\ \A t \in Slots \ {s} : net'[t] = net[t]
  BY <1>1, <1>2, MessagesMade DEF Kinds
<1>4. net' \in [Slots -> Messages] /\ \A t \in Slots : NoNewClaim(t)
  BY <1>1, <1>2, <1>3 DEF Messages, NoNewClaim, Harmless
<1>5. Busy({"auto"})' = Busy({"auto"}) \cup {s} /\ s \notin Busy({"auto"})
  <2>1. net'[s].op = "save" /\ net'[s].kind = "auto"
    BY <1>3 DEF Save
  <2> QED BY <1>2, <1>3, <2>1 DEF Busy
<1>6. Busy({"batch"})' = Busy({"batch"})
  <2>1. net'[s].kind = "auto"
    BY <1>3 DEF Save
  <2> QED BY <1>2, <1>3, <2>1 DEF Busy
<1>7. /\ UNCHANGED <<server, screen, auto, dlg, consent>> /\ ~dlg.open
      /\ camp \in Campaign /\ camp' = [camp EXCEPT !.pending = @ + 1]
  BY DEF Autosave, CanCount, IInv, PageInv, TypeOK
<1>8. camp'.pending = camp.pending + 1
  BY <1>7 DEF Campaign
<1>9. PendingIsExact'
  <2>1. Cardinality(Busy({"auto"}) \cup {s}) = Cardinality(Busy({"auto"})) + 1
    BY <1>5, BusyFacts, WaitingFits, FS_AddElement
  <2>2. Cardinality(Busy({"auto"})) \in Nat
    BY BusyFacts, WaitingFits
  <2>3. camp.pending = Cardinality(Busy({"auto"})) + (IF Busy({"batch"}) = {} THEN 0 ELSE 1)
    BY DEF IInv, PageInv, PendingIsExact
  <2>4. Cardinality(Busy({"auto"})') = Cardinality(Busy({"auto"})) + 1
    BY <1>5, <2>1
  <2> QED BY <1>6, <1>8, <2>2, <2>3, <2>4 DEF PendingIsExact
<1>10. camp' \in Campaign /\ camp'.cnt = camp.cnt
  BY <1>7, <1>8, <1>9, PendingFits, CampaignFacts
<1>11. OnServer(camp'.cnt) /\ DialogHoldsCounts'
  BY <1>7, <1>10 DEF IInv, PageInv, CountedIsOnServer, OnServer, DialogHoldsCounts
<1> QED BY <1>4, <1>7, <1>9, <1>10, <1>11, BrowserKeeps DEF IInv, PageInv, TypeOK

\* Count as system: a request for every uncounted line of the page, one save pending.
LEMMA CountAsSystemKeeps ==
  ASSUME IInv, CountAsSystem
  PROVE  IInv'
<1> DEFINE todo == {l \in OnPage(camp.page) : camp.cnt[l] = Nothing}
<1>1. PICK slotOf \in [todo -> Free] :
        net' = [s \in Slots |-> IF \E l \in todo : slotOf[l] = s
                  THEN LET l == CHOOSE k \in todo : slotOf[k] = s IN Save(l, System[l], "batch")
                  ELSE net[s]]
  BY DEF CountAsSystem
<1>2. todo \subseteq Lines /\ todo # {} /\ Free \subseteq Slots
  BY DEF CountAsSystem, OnPage, Free
<1>3. /\ UNCHANGED <<server, screen, auto, dlg, consent>> /\ ~dlg.open
      /\ camp \in Campaign /\ camp' = [camp EXCEPT !.pending = 1]
  BY DEF CountAsSystem, CanClose, IInv, PageInv, TypeOK
<1>4. Busy({"auto"}) = {} /\ Busy({"batch"}) = {}
  BY NothingPending DEF CountAsSystem, IInv, PageInv
<1> DEFINE Used == {s \in Slots : \E l \in todo : slotOf[l] = s}
<1>5. \A s \in Used : \E l \in Lines, q \in Qty : net'[s] = Save(l, q, "batch")
  <2> TAKE s \in Used
  <2> DEFINE l == CHOOSE k \in todo : slotOf[k] = s
  <2>1. l \in todo
    BY DEF Used
  <2>2. net'[s] = Save(l, System[l], "batch")
    BY <1>1 DEF Used
  <2>3. System[l] \in Qty
    BY <1>2, <2>1, StocktakeAssumption
  <2> QED BY <1>2, <2>1, <2>2, <2>3
<1>6. \A s \in Slots \ Used : net'[s] = net[s]
  BY <1>1 DEF Used
<1>7. \A s \in Used : /\ net'[s] \in Saves /\ net'[s].st # "ok"
                      /\ net'[s].op = "save" /\ net'[s].kind = "batch"
  <2> HIDE DEF Used
  <2>1. \A l \in Lines, q \in Qty : /\ Save(l, q, "batch") \in Saves
                                    /\ Save(l, q, "batch").st # "ok"
    BY MessagesMade DEF Kinds
  <2>2. \A l \in Lines, q \in Qty : Save(l, q, "batch").op = "save" /\ Save(l, q, "batch").kind = "batch"
    BY DEF Save
  <2> QED BY <1>5, <2>1, <2>2
<1>8. net' \in [Slots -> Messages] /\ \A s \in Slots : NoNewClaim(s)
  <2>1. net \in [Slots -> Messages] /\ DOMAIN net' = Slots
    BY <1>1 DEF IInv, Delivered
  <2>2. net' = [s \in Slots |-> net'[s]]
    BY <1>1
  <2> HIDE DEF Used
  <2>3. \A s \in Slots : net'[s] \in Messages /\ NoNewClaim(s)
    BY <1>6, <1>7, <2>1 DEF Messages, NoNewClaim, Harmless
  <2> QED BY <2>2, <2>3
<1>9. Used \subseteq Slots /\ Used # {}
  BY <1>2 DEF Used
<1>10. Busy({"auto"})' = {} /\ Busy({"batch"})' = Used
  <2> HIDE DEF Used
  <2> QED BY <1>4, <1>6, <1>7, <1>9 DEF Busy
<1>11. PendingIsExact'
  <2>1. camp'.pending = 1
    BY <1>3 DEF Campaign
  <2> HIDE DEF Used
  <2> QED BY <1>9, <1>10, <2>1, FS_EmptySet DEF PendingIsExact
<1>12. camp' \in Campaign /\ camp'.cnt = camp.cnt
  <2>1. camp'.pending = 1
    BY <1>3 DEF Campaign
  <2> QED BY <1>3, <1>11, <2>1, PendingFits, CampaignFacts
<1>13. OnServer(camp'.cnt) /\ DialogHoldsCounts'
  BY <1>3, <1>12 DEF IInv, PageInv, CountedIsOnServer, OnServer, DialogHoldsCounts
<1> HIDE DEF todo, Used
<1> QED BY <1>3, <1>8, <1>11, <1>12, <1>13, BrowserKeeps DEF IInv, PageInv, TypeOK

\* One pending save less.
LEMMA OneLess ==
  ASSUME IInv, Busy({"auto"}) # {} \/ Busy({"batch"}) # {}
  PROVE  /\ camp.pending \in Nat /\ camp.pending > 0
         /\ LessOne(camp.pending) = camp.pending - 1
         /\ LessOne(camp.pending) \in 0..Cardinality(Slots)
<1>1. camp.pending = Cardinality(Busy({"auto"})) + (IF Busy({"batch"}) = {} THEN 0 ELSE 1)
  BY DEF IInv, PageInv, PendingIsExact
<1>2. /\ Cardinality(Busy({"auto"})) \in Nat
      /\ Cardinality(Busy({"auto"})) = 0 <=> Busy({"auto"}) = {}
  BY BusyFacts, WaitingFits
<1>3. camp.pending \in 0..Cardinality(Slots)
  BY DEF IInv, PageInv, TypeOK, Campaign
<1> QED BY <1>1, <1>2, <1>3, LessOneFacts, Sizes

\* The answer to a save, with the slots and the campaign it leaves.
LEMMA SaveEndsKeeps ==
  ASSUME IInv, NEW s \in Slots, net[s] \in Saves,
         net' \in [Slots -> Messages], \A t \in Slots : NoNewClaim(t),
         UNCHANGED <<server, screen, auto, dlg, consent>>,
         camp' \in Campaign, PendingIsExact', camp'.pending <= camp.pending,
         \/ camp'.cnt = camp.cnt
         \/ net[s].st = "ok" /\ camp'.cnt = [camp.cnt EXCEPT ![net[s].line] = net[s].val]
  PROVE  IInv'
<1>1. OnServer(camp'.cnt)
  BY ShowsCounted DEF IInv, PageInv, CountedIsOnServer, OnServer
<1>2. DialogHoldsCounts'
  <2>1. camp.pending \in Nat /\ camp'.pending \in Nat
    BY Sizes DEF IInv, PageInv, TypeOK, Campaign
  <2> QED BY <2>1 DEF IInv, DialogHoldsCounts
<1> QED BY <1>1, <1>2, BrowserKeeps DEF IInv, PageInv, TypeOK

\* A save of a field is answered.
LEMMA AutosaveAnsweredKeeps ==
  ASSUME IInv, NEW s \in Slots, AutosaveAnswered(s)
  PROVE  IInv'
<1> DEFINE l == net[s].line
           q == net[s].val
           settled == [camp EXCEPT !.pending = LessOne(@)]
<1>1. /\ net[s] \in Saves /\ l \in Lines /\ q \in Qty /\ s \in Busy({"auto"})
      /\ net[s].st \in {"ok", "failed"}
  <2>1. net[s] \in Saves
    BY SlotTypes DEF AutosaveAnswered
  <2> QED BY <2>1 DEF AutosaveAnswered, SaveEnds, Saves, Answers, Busy
<1>2. /\ net' = [net EXCEPT ![s] = Idle] /\ UNCHANGED <<server, screen, auto, dlg, consent>>
      /\ camp' = IF net[s].st = "failed" THEN settled
                 ELSE IF camp.cnt[l] = Nothing THEN Counts(settled, l, q)
                 ELSE [settled EXCEPT !.cnt[l] = q]
  BY DEF AutosaveAnswered, SaveEnds
<1>3. net' \in [Slots -> Messages] /\ \A t \in Slots : NoNewClaim(t)
  BY <1>2 DEF IInv, Delivered, Messages, NoNewClaim, Harmless
<1>4. /\ camp.pending \in Nat /\ settled \in Campaign
      /\ settled.pending = camp.pending - 1 /\ settled.cnt = camp.cnt
  BY <1>1, OneLess, CampaignFacts DEF IInv, PageInv, TypeOK
<1>5. /\ camp' \in Campaign /\ camp'.pending = camp.pending - 1
      /\ \/ camp'.cnt = camp.cnt
         \/ net[s].st = "ok" /\ camp'.cnt = [camp.cnt EXCEPT ![l] = q]
  <2>1. CASE net[s].st = "failed"
    BY <1>2, <1>4, <2>1
  <2>2. CASE net[s].st = "ok"
    <3> HIDE DEF settled, l, q
    <3> QED BY <1>1, <1>2, <1>4, <2>2, CampaignFacts
  <2> QED BY <1>1, <2>1, <2>2
<1>6. Busy({"auto"})' = Busy({"auto"}) \ {s} /\ Busy({"batch"})' = Busy({"batch"})
  <2>1. net \in [Slots -> Messages] /\ Idle.op = "none" /\ net[s].kind = "auto"
    BY DEF IInv, Delivered, Idle, AutosaveAnswered
  <2> QED BY <1>2, <2>1 DEF Busy
<1>7. PendingIsExact'
  <2>1. /\ Cardinality(Busy({"auto"})) \in Nat
        /\ Cardinality(Busy({"auto"}) \ {s}) = Cardinality(Busy({"auto"})) - 1
    BY <1>1, BusyFacts, WaitingFits, FS_RemoveElement
  <2>2. camp.pending = Cardinality(Busy({"auto"})) + (IF Busy({"batch"}) = {} THEN 0 ELSE 1)
    BY DEF IInv, PageInv, PendingIsExact
  <2>3. Cardinality(Busy({"auto"})') = Cardinality(Busy({"auto"})) - 1
    BY <1>6, <2>1
  <2> QED BY <1>5, <1>6, <2>1, <2>2, <2>3 DEF PendingIsExact
<1> HIDE DEF settled, l, q
<1>8. camp'.pending <= camp.pending
  BY <1>4, <1>5
<1> QED BY <1>1, <1>2, <1>3, <1>5, <1>7, <1>8, SaveEndsKeeps DEF l, q

\* A save of count-as-system is answered: the last success and the first failure settle it.
LEMMA BatchAnsweredKeeps ==
  ASSUME IInv, NEW s \in Slots, BatchAnswered(s)
  PROVE  IInv'
<1> DEFINE l == net[s].line
           q == net[s].val
           ok == net[s].st = "ok"
           done == IF ok THEN Counts(camp, l, q) ELSE camp
           more == ok /\ Busy({"batch"}) # {s}
<1>1. net[s] \in Saves /\ l \in Lines /\ q \in Qty /\ s \in Busy({"batch"})
  <2>1. net[s] \in Saves
    BY SlotTypes DEF BatchAnswered
  <2> QED BY <2>1 DEF BatchAnswered, Saves, Busy
<1>2. /\ net' = [t \in Slots |-> IF t = s THEN Idle
                   ELSE IF ~ok /\ t \in Busy({"batch"}) THEN [net[t] EXCEPT !.kind = "late"]
                   ELSE net[t]]
      /\ UNCHANGED <<server, screen, auto, dlg, consent>>
      /\ camp' = IF more THEN done ELSE [done EXCEPT !.pending = LessOne(@)]
  BY DEF BatchAnswered, SaveEnds
<1>3. \A t \in Slots : \/ net'[t] = Idle
                       \/ net[t] \in Messages /\ net'[t] = net[t]
                       \/ /\ net[t] \in Saves /\ net'[t] \in Saves /\ net'[t].kind = "late"
                          /\ net'[t].line = net[t].line /\ net'[t].st = net[t].st
  <2> TAKE t \in Slots
  <2>1. net[t] \in Messages /\ (t \in Busy({"batch"}) => net[t] \in Saves)
    BY SlotTypes DEF Busy
  <2>2. net'[t] = IF t = s THEN Idle
                  ELSE IF ~ok /\ t \in Busy({"batch"}) THEN [net[t] EXCEPT !.kind = "late"]
                  ELSE net[t]
    BY <1>2
  <2> QED BY <2>1, <2>2 DEF Saves, Kinds
<1>4. net' \in [Slots -> Messages] /\ \A t \in Slots : NoNewClaim(t)
  <2>1. net' = [t \in Slots |-> net'[t]]
    BY <1>2
  <2>2. \A t \in Slots : net'[t] \in Messages /\ NoNewClaim(t)
    BY <1>3 DEF Messages, NoNewClaim, Harmless
  <2> QED BY <2>1, <2>2
<1>5. /\ done \in Campaign /\ done.pending = camp.pending
      /\ \/ done.cnt = camp.cnt
         \/ ok /\ done.cnt = [camp.cnt EXCEPT ![l] = q]
  <2>1. camp \in Campaign
    BY DEF IInv, PageInv, TypeOK
  <2>2. CASE ok
    <3>1. done = Counts(camp, l, q)
      BY <2>2
    <3> HIDE DEF done, l, q
    <3> QED BY <1>1, <2>1, <2>2, <3>1, CampaignFacts
  <2>3. CASE ~ok
    <3>1. done = camp
      BY <2>3
    <3> HIDE DEF done, ok, l, q
    <3> QED BY <2>1, <3>1
  <2> QED BY <2>2, <2>3
<1>6. /\ camp.pending \in Nat /\ LessOne(camp.pending) = camp.pending - 1
      /\ LessOne(camp.pending) \in 0..Cardinality(Slots)
  BY <1>1, OneLess
<1>7. /\ camp' \in Campaign /\ camp'.cnt = done.cnt
      /\ camp'.pending = IF more THEN camp.pending ELSE camp.pending - 1
  <2> HIDE DEF done, more
  <2> QED BY <1>2, <1>5, <1>6, CampaignFacts
<1>8. Busy({"auto"})' = Busy({"auto"})
  <2>1. \A t \in Slots : ~(net[t].op = "save" /\ net[t].kind = "auto") =>
                           ~(net'[t].op = "save" /\ net'[t].kind = "auto")
    BY <1>3 DEF Idle
  <2>2. \A t \in Slots : net[t].op = "save" /\ net[t].kind = "auto" => net'[t] = net[t]
    BY <1>2 DEF Busy, BatchAnswered
  <2> QED BY <2>1, <2>2 DEF Busy
<1>9. Busy({"batch"})' = IF ok THEN Busy({"batch"}) \ {s} ELSE {}
  <2>1. ASSUME NEW t \in Slots
        PROVE  net'[t].op = "save" /\ net'[t].kind = "batch" <=>
                 ok /\ t # s /\ net[t].op = "save" /\ net[t].kind = "batch"
    <3>1. CASE t = s
      BY <1>2, <3>1 DEF Idle
    <3>2. CASE t # s /\ ~ok /\ t \in Busy({"batch"})
      <4>1. net[t] \in Saves
        BY <3>2, SlotTypes DEF Busy
      <4>2. net'[t] = [net[t] EXCEPT !.kind = "late"]
        BY <1>2, <3>2
      <4> QED BY <3>2, <4>1, <4>2 DEF Saves
    <3>3. CASE t # s /\ (ok \/ t \notin Busy({"batch"}))
      <4>1. net'[t] = net[t]
        BY <1>2, <3>3
      <4> QED BY <3>3, <4>1 DEF Busy
    <3> QED BY <3>1, <3>2, <3>3
  <2> QED BY <2>1 DEF Busy
<1>10. PendingIsExact'
  <2>1. camp.pending = Cardinality(Busy({"auto"})) + 1 /\ Cardinality(Busy({"auto"})) \in Nat
    BY <1>1, BusyFacts, WaitingFits DEF IInv, PageInv, PendingIsExact
  <2>2. Busy({"batch"})' = {} <=> ~more
    BY <1>1, <1>9
  <2> HIDE DEF more
  <2> QED BY <1>7, <1>8, <2>1, <2>2 DEF PendingIsExact
<1>11. camp'.pending <= camp.pending
  BY <1>6, <1>7
<1> HIDE DEF l, q, done, more
<1> QED BY <1>1, <1>2, <1>4, <1>5, <1>7, <1>10, <1>11, SaveEndsKeeps DEF l, q

\* What is left of a failed batch, or of an earlier paint, is answered.
LEMMA LateAnsweredKeeps ==
  ASSUME IInv, NEW s \in Slots, LateAnswered(s)
  PROVE  IInv'
<1>1. net[s] \in Saves /\ net[s].line \in Lines /\ net[s].val \in Qty
  <2>1. net[s] \in Saves
    BY SlotTypes DEF LateAnswered
  <2> QED BY <2>1 DEF Saves
<1>2. /\ net' = [net EXCEPT ![s] = Idle] /\ UNCHANGED <<server, screen, auto, dlg, consent>>
      /\ \/ camp' = camp
         \/ net[s].st = "ok" /\ camp' = Counts(camp, net[s].line, net[s].val)
  BY DEF LateAnswered, SaveEnds
<1>3. net' \in [Slots -> Messages] /\ \A t \in Slots : NoNewClaim(t)
  BY <1>2 DEF IInv, Delivered, Messages, NoNewClaim, Harmless
<1>4. camp \in Campaign /\ camp.pending \in Nat
  BY Sizes DEF IInv, PageInv, TypeOK, Campaign
<1>5. /\ camp' \in Campaign /\ camp'.pending = camp.pending
      /\ \/ camp'.cnt = camp.cnt
         \/ net[s].st = "ok" /\ camp'.cnt = [camp.cnt EXCEPT ![net[s].line] = net[s].val]
  BY <1>1, <1>2, <1>4, CampaignFacts
<1>6. \A t \in Slots : SameSave(t)
  <2>1. net \in [Slots -> Messages] /\ Idle.op = "none" /\ net[s].kind \notin {"auto", "batch"}
    BY DEF IInv, Delivered, Idle, LateAnswered
  <2> QED BY <1>2, <2>1 DEF SameSave
<1>7. PendingIsExact'
  BY <1>5, <1>6, BusyKeeps DEF IInv, PageInv, PendingIsExact
<1> QED BY <1>1, <1>2, <1>3, <1>4, <1>5, <1>7, SaveEndsKeeps

--------------------------------------------------------------------------------
\* Closing.

\* A close request asks for what was named.
LEMMA QueryFacts ==
  ASSUME NEW u \in Nat, NEW c \in Nat, NEW b \in BOOLEAN
  PROVE  /\ CloseQuery(u, c, b) \in Closes
         /\ CloseQuery(u, c, b).abandon <=> u > 0
         /\ CloseQuery(u, c, b).ack <=> c > 0
<1>1. (u > 0) \in BOOLEAN /\ (c > 0) \in BOOLEAN
  OBVIOUS
<1>2. ASSUME NEW x \in BOOLEAN, NEW y \in BOOLEAN
      PROVE  /\ Close(x, y, b) \in Closes
             /\ Close(x, y, b).abandon <=> x
             /\ Close(x, y, b).ack <=> y
  BY DEF Close, Closes, Answers
<1> QED BY <1>1, <1>2, Zenon DEF CloseQuery

\* A close request from a clean campaign, or the dialog that stands before it.
LEMMA ClickCloseKeeps ==
  ASSUME IInv, ClickClose
  PROVE  IInv'
<1>1. UNCHANGED <<server, screen, camp, auto, consent>> /\ camp.pending = 0
  BY DEF ClickClose
<1>2. PICK m \in Closes :
        /\ ~m.abandon /\ ~m.ack
        /\ net' = net \/ \E s \in Slots : net[s] = Idle /\ net' = [net EXCEPT ![s] = m]
  <2>1. /\ CloseQuery(0, 0, FALSE) \in Closes
        /\ ~CloseQuery(0, 0, FALSE).abandon /\ ~CloseQuery(0, 0, FALSE).ack
    <3>1. 0 \in Nat /\ ~(0 > 0) /\ FALSE \in BOOLEAN
      OBVIOUS
    <3> QED BY <3>1, QueryFacts, Zenon
  <2>2. \/ net' = net
        \/ \E s \in Slots : net[s] = Idle /\ net' = [net EXCEPT ![s] = CloseQuery(0, 0, FALSE)]
    BY DEF ClickClose, Free
  <2> QED BY <2>1, <2>2
<1>3. \A t \in Slots : \/ net'[t] = net[t]
                       \/ net[t] = Idle /\ net'[t] = m
  BY <1>2 DEF IInv, Delivered
<1>4. net' \in [Slots -> Messages]
  BY <1>2 DEF IInv, Delivered, Messages
<1>5. \A t \in Slots : SameSave(t) /\ (NoNewClaim(t) \/ True(net[t])')
  <2>1. True(m)'
    BY <1>2 DEF True, Loadeds, Saves, Closes
  <2>2. m.op = "close" /\ Idle.op = "none"
    BY DEF Closes, Idle
  <2> QED BY <1>3, <2>1, <2>2 DEF SameSave, NoNewClaim
<1>6. dlg' \in [open: BOOLEAN, uncounted: 0..Cardinality(Lines),
                conflicts: 0..Cardinality(Lines), busy: BOOLEAN]
  <2>1. dlg' = dlg \/ dlg' = [open |-> TRUE, uncounted |-> camp.uncounted,
                              conflicts |-> camp.conflicts, busy |-> FALSE]
    BY DEF ClickClose
  <2>2. camp.uncounted \in 0..Cardinality(Lines) /\ camp.conflicts \in 0..Cardinality(Lines)
    BY DEF IInv, PageInv, TypeOK, Campaign
  <2>3. [open |-> TRUE, uncounted |-> camp.uncounted, conflicts |-> camp.conflicts, busy |-> FALSE]
          \in [open: BOOLEAN, uncounted: 0..Cardinality(Lines),
               conflicts: 0..Cardinality(Lines), busy: BOOLEAN]
    BY <2>2
  <2> QED BY <2>1, <2>3 DEF IInv, PageInv, TypeOK
<1>7. PendingIsExact' /\ DialogHoldsCounts'
  BY <1>1, <1>5, BusyKeeps DEF IInv, PageInv, PendingIsExact, DialogHoldsCounts
<1>8. OnServer(camp'.cnt)
  BY <1>1 DEF IInv, PageInv, CountedIsOnServer, OnServer
<1> QED BY <1>1, <1>4, <1>5, <1>6, <1>7, <1>8, BrowserKeeps DEF IInv, PageInv, TypeOK

\* The dialog is confirmed: what it named is what the request asks for.
LEMMA ConfirmKeeps ==
  ASSUME IInv, Confirm
  PROVE  IInv'
<1> DEFINE m == CloseQuery(dlg.uncounted, dlg.conflicts, TRUE)
<1>1. UNCHANGED <<server, screen, camp, auto>> /\ dlg.open
  BY DEF Confirm
<1>2. m \in Closes /\ (m.abandon <=> dlg.uncounted > 0) /\ (m.ack <=> dlg.conflicts > 0)
  <2>1. dlg.uncounted \in Nat /\ dlg.conflicts \in Nat
    BY Sizes DEF IInv, PageInv, TypeOK
  <2> QED BY <2>1, QueryFacts
<1>3. /\ consent' = [abandon |-> consent.abandon \/ dlg.uncounted > 0,
                     conflicts |-> consent.conflicts \/ dlg.conflicts > 0]
      /\ dlg' = [dlg EXCEPT !.busy = TRUE]
  BY DEF Confirm
<1>4. PICK s \in Slots : net[s] = Idle /\ net' = [net EXCEPT ![s] = m]
  BY DEF Confirm, Free
<1> HIDE DEF m
<1>5. net' \in [Slots -> Messages] /\ \A t \in Slots \ {s} : net'[t] = net[t]
  BY <1>2, <1>4 DEF IInv, Delivered, Messages
<1>6. net'[s] = m
  BY <1>4 DEF IInv, Delivered
<1>7. /\ consent'.abandon <=> consent.abandon \/ dlg.uncounted > 0
      /\ consent'.conflicts <=> consent.conflicts \/ dlg.conflicts > 0
  BY <1>3
<1>8. True(net[s])'
  BY <1>2, <1>6, <1>7 DEF True, Loadeds, Saves, Closes
<1>9. \A t \in Slots : SameSave(t) /\ (NoNewClaim(t) \/ True(net[t])')
  <2>1. net'[s].op = "close" /\ net[s].op = "none"
    BY <1>2, <1>4, <1>6 DEF Closes, Idle
  <2> QED BY <1>5, <1>8, <2>1 DEF SameSave, NoNewClaim
<1>10. /\ dlg' \in [open: BOOLEAN, uncounted: 0..Cardinality(Lines),
                    conflicts: 0..Cardinality(Lines), busy: BOOLEAN]
       /\ consent' \in [abandon: BOOLEAN, conflicts: BOOLEAN]
       /\ dlg'.open = dlg.open
  BY <1>3 DEF IInv, PageInv, TypeOK
<1>11. PendingIsExact' /\ DialogHoldsCounts'
  BY <1>1, <1>9, <1>10, BusyKeeps DEF IInv, PageInv, PendingIsExact, DialogHoldsCounts
<1>12. OnServer(camp'.cnt)
  BY <1>1 DEF IInv, PageInv, CountedIsOnServer, OnServer
<1> QED BY <1>1, <1>5, <1>7, <1>9, <1>10, <1>11, <1>12, BrowserKeeps DEF IInv, PageInv, TypeOK

\* The dialog is left; a request of it that is under way stays under way.
LEMMA CancelCloseKeeps ==
  ASSUME IInv, CancelClose
  PROVE  IInv'
<1>1. /\ UNCHANGED <<server, screen, camp, auto, consent>> /\ dlg' = NoDialog
      /\ net' = [s \in Slots |-> IF net[s].op = "close" THEN [net[s] EXCEPT !.byDialog = FALSE]
                                                        ELSE net[s]]
  BY DEF CancelClose
<1>2. \A t \in Slots : net'[t] \in Messages /\ SameSave(t) /\ NoNewClaim(t)
  <2> TAKE t \in Slots
  <2>1. CASE net[t].op = "close"
    <3>1. net[t] \in Closes /\ net'[t] = [net[t] EXCEPT !.byDialog = FALSE]
      BY <1>1, <2>1, SlotTypes
    <3> QED BY <3>1 DEF Closes, Messages, SameSave, NoNewClaim
  <2>2. CASE net[t].op # "close"
    BY <1>1, <2>2, SlotTypes DEF SameSave, NoNewClaim
  <2> QED BY <2>1, <2>2
<1>3. net' \in [Slots -> Messages]
  <2>1. net' = [t \in Slots |-> net'[t]]
    BY <1>1
  <2> QED BY <1>2, <2>1
<1>4. dlg' \in [open: BOOLEAN, uncounted: 0..Cardinality(Lines),
                conflicts: 0..Cardinality(Lines), busy: BOOLEAN] /\ ~dlg'.open
  BY <1>1, Sizes DEF NoDialog
<1>5. PendingIsExact' /\ DialogHoldsCounts'
  BY <1>1, <1>2, <1>4, BusyKeeps DEF IInv, PageInv, PendingIsExact, DialogHoldsCounts
<1>6. OnServer(camp'.cnt)
  BY <1>1 DEF IInv, PageInv, CountedIsOnServer, OnServer
<1> QED BY <1>1, <1>2, <1>3, <1>4, <1>5, <1>6, BrowserKeeps DEF IInv, PageInv, TypeOK

\* The answer to a close.
LEMMA CloseAnsweredKeeps ==
  ASSUME IInv, NEW s \in Slots, CloseAnswered(s)
  PROVE  IInv'
<1>1. UNCHANGED <<server, camp, auto, consent>> /\ net[s].op = "close"
  BY DEF CloseAnswered
<1>2. PICK m \in {Idle} \cup Loads : net' = [net EXCEPT ![s] = m]
  BY MessagesMade DEF CloseAnswered
<1>3. net' \in [Slots -> Messages] /\ \A t \in Slots : SameSave(t) /\ NoNewClaim(t)
  BY <1>1, <1>2, SlotUsed
<1>4. /\ dlg' \in [open: BOOLEAN, uncounted: 0..Cardinality(Lines),
                   conflicts: 0..Cardinality(Lines), busy: BOOLEAN]
      /\ dlg'.open => dlg.open
  <2>1. dlg' \in {dlg, NoDialog, [dlg EXCEPT !.busy = FALSE]}
    BY DEF CloseAnswered
  <2>2. NoDialog \in [open: BOOLEAN, uncounted: 0..Cardinality(Lines),
                      conflicts: 0..Cardinality(Lines), busy: BOOLEAN] /\ ~NoDialog.open
    BY Sizes DEF NoDialog
  <2> QED BY <2>1, <2>2 DEF IInv, PageInv, TypeOK
<1>5. screen' \in {"blank", "page", "error"}
  BY DEF CloseAnswered, IInv, PageInv, TypeOK
<1>6. PendingIsExact' /\ DialogHoldsCounts'
  BY <1>1, <1>3, <1>4, BusyKeeps DEF IInv, PageInv, PendingIsExact, DialogHoldsCounts
<1>7. OnServer(camp'.cnt)
  BY <1>1 DEF IInv, PageInv, CountedIsOnServer, OnServer
<1> QED BY <1>1, <1>3, <1>4, <1>5, <1>6, <1>7, BrowserKeeps DEF IInv, PageInv, TypeOK

--------------------------------------------------------------------------------
\* Every step keeps the invariant.
LEMMA StepInvariant == IInv /\ [Next]_vars => IInv'
<1> SUFFICES ASSUME IInv, [Next]_vars PROVE IInv'
  OBVIOUS
<1>1. ASSUME NEW s \in Slots, Serve(s) PROVE IInv'
  BY <1>1, ServeLoadKeeps, ServeSaveKeeps, ServeStartKeeps, ServeCloseKeeps DEF Serve
<1>2. ASSUME NEW s \in Slots, Answer(s) PROVE IInv'
  BY <1>2, CountPaintKeeps, LoadFailsKeeps, StartAnsweredKeeps, AutosaveAnsweredKeeps,
     BatchAnsweredKeeps, LateAnsweredKeeps, CloseAnsweredKeeps DEF Answer
<1>3. CASE User
  BY <1>3, PagerKeeps, StartByHandKeeps, CountAsSystemKeeps, ClickCloseKeeps, ConfirmKeeps,
     CancelCloseKeeps, AutosaveKeeps DEF User
<1>4. CASE UNCHANGED vars
  <2>1. UNCHANGED <<server, net, client>>
    BY <1>4 DEF vars
  <2>2. \A t \in Slots : SameSave(t) /\ NoNewClaim(t)
    BY <2>1 DEF SameSave, NoNewClaim
  <2>3. CloseHasConsent'
    BY <2>1 DEF server, client, IInv, CloseHasConsent, Uncounted
  <2> QED BY <2>1, <2>2, <2>3, ServerKeeps DEF server, IInv, Delivered, PageInv, TypeOK
<1> QED BY <1>1, <1>2, <1>3, <1>4, BreakKeeps, OthersKeep DEF Next

\* Every reachable state satisfies the inductive invariant.
THEOREM Inductive == Spec => []IInv
BY InitInvariant, StepInvariant, PTL DEF Spec

\* What the count screen says of its counts is so, in every reachable state.
THEOREM PageInvariant == Spec => []PageInv
<1>1. IInv => PageInv
  BY DEF IInv
<1> QED BY <1>1, Inductive, PTL

\* A stocktake is closed over uncounted lines, or over movements after the snapshot, only
\* with the consent a dialog was given (closeStocktake).
THEOREM HasConsent == Spec => []CloseHasConsent
<1>1. IInv => CloseHasConsent
  BY DEF IInv
<1> QED BY <1>1, Inductive, PTL

\* A close is sent only when nothing is pending: not by a click, and not by a dialog, which
\* keeps counts away for as long as it is open.
LEMMA CloseStep ==
  ASSUME IInv, Next, NEW s \in Slots, net'[s].op = "close", net[s].op # "close"
  PROVE  Busy({"auto", "batch"}) = {}
<1>1. net \in [Slots -> Messages]
  BY DEF IInv, Delivered
<1>2. ASSUME NEW t \in Slots, Serve(t) \/ Answer(t) \/ Break(t) PROVE FALSE
  <2>1. \A u \in Slots : net'[u] = net[u] \/ net'[u].op # "close" \/ net'[u].op = net[u].op
    <3> TAKE u \in Slots
    <3>1. ASSUME Serve(t) \/ Break(t) PROVE net'[u] = net[u] \/ net'[u].op = net[u].op
      BY <1>1, <3>1, SlotTypes DEF Serve, ServeLoad, ServeSave, ServeStart, ServeClose, Break,
         Settled, Load, Loaded, Messages, Idle, Loads, Loadeds, Saves, Starts, Closes
    <3>2. ASSUME Paint(t) PROVE net'[u].op # "close" \/ net'[u].op = net[u].op
      <4>1. net'[u] = AfterPaint(t)[u] \/ net'[u] = Start(FALSE)
        BY <3>2 DEF Paint, AfterPaint
      <4>2. net[t].op = "load"
        BY <3>2 DEF Paint
      <4>3. AfterPaint(t)[u] = IF u = t THEN Idle
                               ELSE IF net[u].op = "save" THEN [net[u] EXCEPT !.kind = "old"]
                               ELSE net[u]
        BY <4>2 DEF AfterPaint
      <4>4. net[u].op = "save" => net[u] \in Saves
        BY SlotTypes
      <4> QED BY <4>1, <4>3, <4>4 DEF Start, Idle, Saves
    <3>3. ASSUME LoadFails(t) \/ StartAnswered(t) \/ CloseAnswered(t)
          PROVE  net'[u] = net[u] \/ net'[u].op # "close"
      BY <1>1, <3>3 DEF LoadFails, StartAnswered, CloseAnswered, Load, Idle
    <3>4. ASSUME AutosaveAnswered(t) \/ LateAnswered(t)
          PROVE  net'[u] = net[u] \/ net'[u].op # "close"
      BY <1>1, <3>4 DEF AutosaveAnswered, LateAnswered, SaveEnds, Idle
    <3>5. ASSUME BatchAnswered(t)
          PROVE  net'[u] = net[u] \/ net'[u].op # "close" \/ net'[u].op = net[u].op
      BY <1>1, <3>5, SlotTypes DEF BatchAnswered, SaveEnds, Idle, Busy, Saves
    <3> QED BY <1>2, <3>1, <3>2, <3>3, <3>4, <3>5 DEF Answer
  <2> QED BY <2>1
<1>3. CASE ClickClose \/ Confirm
  <2>1. camp.pending = 0
    BY <1>3 DEF ClickClose, Confirm, IInv, DialogHoldsCounts
  <2> QED BY <2>1, NothingPending, BusyFacts DEF IInv, PageInv
<1>4. ASSUME User, ~ClickClose, ~Confirm PROVE FALSE
  <2>1. CASE Retry \/ StartByHand \/ \E p \in Pages : TurnPage(p)
    BY <1>1, <2>1 DEF Retry, StartByHand, TurnPage, Render, Load, Start
  <2>2. CASE \E l \in Lines, q \in Qty : Autosave(l, q)
    BY <1>1, <2>2 DEF Autosave, Save
  <2>3. CASE CountAsSystem
    <3>1. net'[s] = net[s] \/ \E l : net'[s] = Save(l, System[l], "batch")
      BY <2>3 DEF CountAsSystem
    <3>2. \A l : Save(l, System[l], "batch").op = "save"
      BY DEF Save
    <3> QED BY <3>1, <3>2
  <2>4. CASE CancelClose
    BY <1>1, <2>4 DEF CancelClose
  <2> QED BY <1>4, <2>1, <2>2, <2>3, <2>4 DEF User
<1>5. CASE Others
  BY <1>5 DEF Others, OthersCount, OthersMove
<1> QED BY <1>2, <1>3, <1>4, <1>5 DEF Next

\* No close is sent while a count typed since the last paint is unanswered, or a
\* count-as-system of which nothing has failed; see CloseWaitsForSaves for the counts that are
\* not waited for.
THEOREM WaitsForSaves == Spec => CloseWaitsForSaves
<1> DEFINE Waits == (\E s \in Slots : net'[s].op = "close" /\ net[s].op # "close")
                      => Busy({"auto", "batch"}) = {}
<1>1. IInv /\ [Next]_vars => [Waits]_vars
  BY CloseStep
<1> QED BY <1>1, Inductive, PTL DEF Spec, CloseWaitsForSaves

--------------------------------------------------------------------------------
\* Movements.

\* Renders are numbered once, and only a form on the page has a timer.
MovesTyped ==
  /\ Movements!TypeOK
  /\ seq \in Nat
  /\ \A r, s \in reqs : r.seq = s.seq => r = s
  /\ timer => Movements!HasShell

\* What a reusing render asks for is what the form says, until the form is complained about.
AsksForTheForm ==
  ~overtaken /\ results.error = "none" =>
    \A r \in reqs : r.seq = seq /\ ~r.full
                     => r.f.kind = form.kind /\ r.f.inverted = form.inverted

MovesInv == MovesTyped /\ AsksForTheForm /\ Movements!KindAndDatesAreTold

\* A render is a request for a filter, of a number of its own.
LEMMA RenderTyped ==
  ASSUME MovesTyped, NEW f \in Movements!Filter, NEW reuse \in BOOLEAN, Movements!Render(f, reuse)
  PROVE  /\ seq' = seq + 1 /\ seq' \in 0..MaxSeq /\ seq' \in Nat
         /\ \A r \in reqs' : r.seq \in 1..seq' /\ r.full \in BOOLEAN /\ r.f \in Movements!Filter
         /\ \A r, s \in reqs' : r.seq = s.seq => r = s
         /\ \A r \in reqs' : r.seq = seq' => r.full = ~(reuse /\ Movements!HasShell) /\ r.f = f
         /\ busy' \in [mount: BOOLEAN, results: BOOLEAN]
<1> DEFINE new == [seq |-> seq + 1, full |-> ~(reuse /\ Movements!HasShell), f |-> f]
<1>1. MaxSeq \in Nat
  BY PagesAssumption DEF PagesAssumption, Movements!MovementsAssumption
<1>2. /\ seq \in Nat /\ seq < MaxSeq /\ seq' = seq + 1 /\ reqs' = reqs \cup {new}
      /\ \A r \in reqs : r.seq \in 1..seq /\ r.full \in BOOLEAN /\ r.f \in Movements!Filter
      /\ \A r, s \in reqs : r.seq = s.seq => r = s
  BY DEF MovesTyped, Movements!TypeOK, Movements!Render
<1>3. new.seq = seq + 1 /\ new.full = ~(reuse /\ Movements!HasShell) /\ new.f = f
  OBVIOUS
<1>4. (~(reuse /\ Movements!HasShell)) \in BOOLEAN
  OBVIOUS
<1>5. busy' \in [mount: BOOLEAN, results: BOOLEAN]
  BY DEF MovesTyped, Movements!TypeOK, Movements!Render
<1> HIDE DEF new
<1>6. \A r \in reqs' : r \in reqs \/ r = new
  BY <1>2
<1>7. \A r \in reqs' : r.seq \in 1..seq' /\ r.full \in BOOLEAN /\ r.f \in Movements!Filter
  <2> TAKE r \in reqs'
  <2>1. CASE r \in reqs
    BY <2>1, <1>2
  <2>2. CASE r = new
    BY <2>2, <1>2, <1>3, <1>4
  <2> QED BY <2>1, <2>2, <1>6
<1>8. \A r \in reqs : r.seq # new.seq
  BY <1>2, <1>3
<1>9. \A r, s \in reqs' : r.seq = s.seq => r = s
  BY <1>2, <1>6, <1>8
<1>10. \A r \in reqs' : r.seq = seq' => r.full = (~(reuse /\ Movements!HasShell)) /\ r.f = f
  BY <1>2, <1>3, <1>6, <1>8
<1> QED BY <1>1, <1>2, <1>5, <1>7, <1>9, <1>10

\* A button, or the timer of a replaced form, that asks for what the form says.
LEMMA RenderKeeps ==
  ASSUME MovesInv, NEW f \in Movements!Filter, NEW reuse \in BOOLEAN, Movements!Render(f, reuse),
         UNCHANGED <<shell, form, results, timer>>, ghost' \in Movements!Form \cup {Movements!NoShell},
         overtaken' \in BOOLEAN, overtaken => overtaken',
         ~overtaken' /\ reuse /\ Movements!HasShell => f.kind = form.kind /\ f.inverted = form.inverted
  PROVE  MovesInv'
<1>1. /\ seq \in Nat /\ seq' = seq + 1 /\ seq' \in 0..MaxSeq /\ seq' \in Nat
      /\ \A r \in reqs' : r.seq \in 1..seq' /\ r.full \in BOOLEAN /\ r.f \in Movements!Filter
      /\ \A r, s \in reqs' : r.seq = s.seq => r = s
      /\ \A r \in reqs' : r.seq = seq' => r.full = (~(reuse /\ Movements!HasShell)) /\ r.f = f
      /\ busy' \in [mount: BOOLEAN, results: BOOLEAN]
  BY RenderTyped DEF MovesInv, MovesTyped
<1>2. results' \in [seq: 0..seq', is: {"nothing", "rows", "failure"}, own: BOOLEAN,
                    f: Movements!Filter, error: {"none", "dates", "text"}]
      /\ results.seq <= seq
  BY <1>1 DEF MovesInv, MovesTyped, Movements!TypeOK
<1>3. MovesTyped'
  BY <1>1, <1>2 DEF MovesInv, MovesTyped, Movements!TypeOK, Movements!HasShell
<1>4. AsksForTheForm'
  BY <1>1 DEF AsksForTheForm
<1>5. Movements!KindAndDatesAreTold'
  BY <1>1, <1>2 DEF Movements!KindAndDatesAreTold, Movements!Settled
<1> QED BY <1>3, <1>4, <1>5 DEF MovesInv

\* A filter taken from fields that nothing is wrong with.
LEMMA AppliedTyped ==
  ASSUME NEW said \in Movements!Form, NEW group \in Groups \cup {""},
         Movements!Complaint(said) = "none"
  PROVE  /\ Movements!Applied(said, group) \in Movements!Filter
         /\ Movements!Applied(said, group).kind = said.kind
         /\ Movements!Applied(said, group).inverted = said.inverted
BY DEF Movements!Applied, Movements!Filter, Movements!Form, Movements!Complaint, Movements!Text

\* The form applies what it now says, or complains.
LEMMA ApplyKeeps ==
  ASSUME MovesInv, Movements!HasShell, Movements!Apply(form'), form' \in Movements!Form,
         UNCHANGED <<shell, ghost, overtaken>>, timer' \in BOOLEAN
  PROVE  MovesInv'
<1> DEFINE error == Movements!Complaint(form')
           f == Movements!Applied(form', shell.group)
<1>1. /\ results' = [results EXCEPT !.error = error] /\ error \in {"none", "dates", "text"}
      /\ results \in [seq: 0..seq, is: {"nothing", "rows", "failure"}, own: BOOLEAN,
                      f: Movements!Filter, error: {"none", "dates", "text"}]
  BY DEF MovesInv, MovesTyped, Movements!TypeOK, Movements!Apply, Movements!Says,
     Movements!Complaint
<1>2. shell.group \in Groups \cup {""}
  BY DEF MovesInv, MovesTyped, Movements!TypeOK, Movements!HasShell, Movements!Filter
<1>3. CASE error = "none"
  <2>1. f \in Movements!Filter /\ f.kind = form'.kind /\ f.inverted = form'.inverted
    BY <1>2, <1>3, AppliedTyped
  <2>2. Movements!Render(f, TRUE)
    BY <1>3 DEF Movements!Apply
  <2>3. /\ seq \in Nat /\ seq' = seq + 1 /\ seq' \in 0..MaxSeq /\ seq' \in Nat
        /\ \A r \in reqs' : r.seq \in 1..seq' /\ r.full \in BOOLEAN /\ r.f \in Movements!Filter
        /\ \A r, s \in reqs' : r.seq = s.seq => r = s
        /\ \A r \in reqs' : r.seq = seq' => r.f = f
        /\ busy' \in [mount: BOOLEAN, results: BOOLEAN]
    BY <2>1, <2>2, RenderTyped DEF MovesInv, MovesTyped
  <2> HIDE DEF f, error
  <2>4. /\ results' \in [seq: 0..seq', is: {"nothing", "rows", "failure"}, own: BOOLEAN,
                         f: Movements!Filter, error: {"none", "dates", "text"}]
        /\ results'.seq <= seq
    BY <1>1, <2>3
  <2>5. MovesTyped'
    BY <2>3, <2>4 DEF MovesInv, MovesTyped, Movements!TypeOK, Movements!HasShell
  <2>6. AsksForTheForm'
    BY <2>1, <2>3 DEF AsksForTheForm
  <2>7. Movements!KindAndDatesAreTold'
    BY <2>3, <2>4 DEF Movements!KindAndDatesAreTold, Movements!Settled
  <2> QED BY <2>5, <2>6, <2>7 DEF MovesInv
<1>4. CASE error # "none"
  <2>1. UNCHANGED <<seq, reqs, busy>>
    BY <1>4 DEF Movements!Apply
  <2> HIDE DEF f, error
  <2>2. /\ results' \in [seq: 0..seq', is: {"nothing", "rows", "failure"}, own: BOOLEAN,
                         f: Movements!Filter, error: {"none", "dates", "text"}]
        /\ results'.error # "none"
    BY <1>1, <1>4, <2>1
  <2>3. MovesTyped'
    BY <2>1, <2>2 DEF MovesInv, MovesTyped, Movements!TypeOK, Movements!HasShell
  <2>4. AsksForTheForm' /\ Movements!KindAndDatesAreTold'
    BY <2>2 DEF AsksForTheForm, Movements!KindAndDatesAreTold, Movements!Settled
  <2> QED BY <2>3, <2>4 DEF MovesInv
<1> QED BY <1>3, <1>4

\* The answers.
LEMMA MovesAnswered ==
  ASSUME MovesInv, NEW r \in reqs,
         \/ Movements!Dropped(r) \/ Movements!PaintFull(r)
         \/ Movements!PaintResults(r) \/ Movements!Fails(r)
  PROVE  MovesInv'
<1>1. /\ seq \in Nat /\ seq' = seq /\ reqs' \subseteq reqs
      /\ r.seq \in 1..seq /\ r.full \in BOOLEAN /\ r.f \in Movements!Filter
      /\ results \in [seq: 0..seq, is: {"nothing", "rows", "failure"}, own: BOOLEAN,
                      f: Movements!Filter, error: {"none", "dates", "text"}]
  BY DEF MovesInv, MovesTyped, Movements!TypeOK, Movements!Dropped, Movements!PaintFull,
     Movements!PaintResults, Movements!Fails
<1>2. /\ \A q \in reqs' : q.seq \in 1..seq' /\ q.full \in BOOLEAN /\ q.f \in Movements!Filter
      /\ \A p, q \in reqs' : p.seq = q.seq => p = q
  BY <1>1 DEF MovesInv, MovesTyped, Movements!TypeOK
<1>7. CASE Movements!Dropped(r)
  <2>1. MovesTyped'
    BY <1>1, <1>7 DEF MovesInv, MovesTyped, Movements!TypeOK, Movements!HasShell,
       Movements!Dropped, Movements!page
  <2>2. AsksForTheForm' /\ Movements!KindAndDatesAreTold'
    BY <1>7 DEF MovesInv, AsksForTheForm, Movements!KindAndDatesAreTold, Movements!Settled,
       Movements!Dropped, Movements!page
  <2> QED BY <2>1, <2>2 DEF MovesInv
<1>3. ASSUME r.seq = seq, reqs' = reqs \ {r}
      PROVE  \A q \in reqs' : q.seq # seq
  BY <1>3 DEF MovesInv, MovesTyped
<1>4. CASE Movements!PaintFull(r)
  <2>1. /\ r.seq = seq /\ reqs' = reqs \ {r} /\ busy' = [mount |-> FALSE, results |-> FALSE]
        /\ shell' = r.f /\ form' = Movements!Fields(r.f) /\ timer' = FALSE
        /\ ghost' = (IF timer THEN form ELSE ghost) /\ overtaken' = overtaken
        /\ results' = [seq |-> r.seq, is |-> "rows", own |-> FALSE, f |-> r.f, error |-> "none"]
    BY <1>4 DEF Movements!PaintFull, Movements!IsNewest, Movements!Replaced
  <2>2. form' \in Movements!Form /\ form'.kind = r.f.kind /\ form'.inverted = r.f.inverted
    BY <1>1, <2>1 DEF Movements!Fields, Movements!Filter, Movements!Form
  <2>3. shell' # Movements!NoShell
    <3>1. r.f.kind # "none" /\ Movements!NoShell.kind = "none"
      BY <1>1 DEF Movements!Filter, Movements!Kind, Movements!NoShell
    <3> QED BY <2>1, <3>1
  <2>6. results' \in [seq: 0..seq', is: {"nothing", "rows", "failure"}, own: BOOLEAN,
                       f: Movements!Filter, error: {"none", "dates", "text"}]
    BY <1>1, <2>1
  <2>4. MovesTyped'
    BY <1>1, <1>2, <2>1, <2>2, <2>3, <2>6
    DEF MovesInv, MovesTyped, Movements!TypeOK, Movements!HasShell
  <2>5. AsksForTheForm' /\ Movements!KindAndDatesAreTold'
    BY <1>1, <1>3, <2>1, <2>2 DEF AsksForTheForm, Movements!KindAndDatesAreTold, Movements!Settled
  <2> QED BY <2>4, <2>5 DEF MovesInv
<1>5. CASE Movements!PaintResults(r)
  <2>1. /\ r.seq = seq /\ ~r.full /\ reqs' = reqs \ {r} /\ busy' = [busy EXCEPT !.results = FALSE]
        /\ results' = [results EXCEPT !.seq = r.seq, !.is = "rows", !.own = TRUE, !.f = r.f]
        /\ UNCHANGED <<shell, form, timer, ghost, overtaken>>
    BY <1>5 DEF Movements!PaintResults, Movements!IsNewest
  <2>5. results' \in [seq: 0..seq', is: {"nothing", "rows", "failure"}, own: BOOLEAN,
                       f: Movements!Filter, error: {"none", "dates", "text"}]
    <3>1. r.seq \in 0..seq'
      BY <1>1
    <3> QED BY <1>1, <2>1, <3>1
  <2>2. MovesTyped'
    BY <1>1, <1>2, <2>1, <2>5 DEF MovesInv, MovesTyped, Movements!TypeOK, Movements!HasShell
  <2>3. results'.error = results.error /\ results'.f = r.f
    BY <1>1, <2>1
  <2>4. AsksForTheForm' /\ Movements!KindAndDatesAreTold'
    BY <1>1, <1>3, <2>1, <2>3
    DEF MovesInv, AsksForTheForm, Movements!KindAndDatesAreTold, Movements!Settled
  <2> QED BY <2>2, <2>4 DEF MovesInv
<1>6. CASE Movements!Fails(r)
  <2>1. /\ r.seq = seq /\ reqs' = reqs \ {r} /\ busy' = [mount |-> FALSE, results |-> FALSE]
        /\ results' = [results EXCEPT !.seq = r.seq, !.is = "failure"]
        /\ form' = form /\ overtaken' = overtaken
        /\ \/ /\ timer' = FALSE /\ shell' = Movements!NoShell
              /\ ghost' = IF timer THEN form ELSE ghost
           \/ UNCHANGED <<shell, ghost, timer>>
    BY <1>1, <1>6 DEF Movements!Fails, Movements!IsNewest, Movements!Replaced
  <2>5. results' \in [seq: 0..seq', is: {"nothing", "rows", "failure"}, own: BOOLEAN,
                       f: Movements!Filter, error: {"none", "dates", "text"}]
    <3>1. r.seq \in 0..seq'
      BY <1>1
    <3> QED BY <1>1, <2>1, <3>1
  <2>6. /\ shell' \in Movements!Filter \cup {Movements!NoShell}
        /\ ghost' \in Movements!Form \cup {Movements!NoShell}
        /\ timer' \in BOOLEAN /\ (timer' => shell' # Movements!NoShell)
    <3> USE DEF MovesInv, MovesTyped, Movements!TypeOK, Movements!HasShell
    <3>1. CASE UNCHANGED <<shell, ghost, timer>>
      BY <3>1
    <3>2. CASE timer' = FALSE /\ shell' = Movements!NoShell /\ ghost' = IF timer THEN form ELSE ghost
      BY <3>2
    <3> QED BY <2>1, <3>1, <3>2
  <2>7. busy' \in [mount: BOOLEAN, results: BOOLEAN] /\ form' \in Movements!Form
        /\ overtaken' \in BOOLEAN
    BY <2>1 DEF MovesInv, MovesTyped, Movements!TypeOK
  <2>2. MovesTyped'
    BY <1>1, <1>2, <2>1, <2>5, <2>6, <2>7 DEF MovesInv, MovesTyped, Movements!TypeOK, Movements!HasShell
  <2>3. AsksForTheForm' /\ Movements!KindAndDatesAreTold'
    BY <1>1, <1>3, <2>1 DEF AsksForTheForm, Movements!KindAndDatesAreTold, Movements!Settled
  <2> QED BY <2>2, <2>3 DEF MovesInv
<1> QED BY <1>4, <1>5, <1>6, <1>7

\* Every step of the page.
LEMMA MovesStep == MovesInv /\ Movements!Next => MovesInv'
<1> SUFFICES ASSUME MovesInv, Movements!Next PROVE MovesInv'
  OBVIOUS
<1> USE DEF Movements!page
<1>1. /\ form \in Movements!Form /\ timer \in BOOLEAN /\ overtaken \in BOOLEAN
      /\ ghost \in Movements!Form \cup {Movements!NoShell}
      /\ shell \in Movements!Filter \cup {Movements!NoShell} /\ results.f \in Movements!Filter
      /\ timer => Movements!HasShell
  BY DEF MovesInv, MovesTyped, Movements!TypeOK
<1>2. CASE Movements!Answer
  BY <1>2, MovesAnswered DEF Movements!Answer
<1>3. CASE Movements!TimerFires
  <2>1. CASE ~form.inverted /\ form.item = "junk"
    <3>1. UNCHANGED <<seq, reqs, busy, results, shell, form, ghost, overtaken>> /\ timer' = FALSE
      BY <1>3, <2>1 DEF Movements!TimerFires
    <3> QED BY <3>1 DEF MovesInv, MovesTyped, Movements!TypeOK, Movements!HasShell, AsksForTheForm,
            Movements!KindAndDatesAreTold, Movements!Settled
  <2>2. CASE ~(~form.inverted /\ form.item = "junk")
    <3>1. Movements!Apply(form')
      BY <1>3, <2>2 DEF Movements!TimerFires
    <3> QED BY <1>1, <1>3, <3>1, ApplyKeeps DEF Movements!TimerFires
  <2> QED BY <2>1, <2>2
<1>4. CASE Movements!GhostFires
  <2>1. CASE Movements!Complaint(ghost) = "none"
    <3> DEFINE f == Movements!Applied(ghost, "")
    <3>1. ghost \in Movements!Form
      BY <1>1, <1>4 DEF Movements!GhostFires
    <3>2. f \in Movements!Filter
      BY <2>1, <3>1, AppliedTyped
    <3>3. Movements!Render(f, TRUE) /\ overtaken' = TRUE
          /\ UNCHANGED <<shell, form, results, timer>> /\ ghost' = Movements!NoShell
      BY <1>4, <2>1 DEF Movements!GhostFires
    <3> HIDE DEF f
    <3> QED BY <3>2, <3>3, RenderKeeps
  <2>2. CASE Movements!Complaint(ghost) # "none"
    <3>1. UNCHANGED <<seq, reqs, busy, results, shell, form, timer, overtaken>>
          /\ ghost' = Movements!NoShell
      BY <1>4, <2>2 DEF Movements!GhostFires
    <3> QED BY <3>1 DEF MovesInv, MovesTyped, Movements!TypeOK, Movements!HasShell, AsksForTheForm,
            Movements!KindAndDatesAreTold, Movements!Settled
  <2> QED BY <2>1, <2>2
<1>5. CASE Movements!RenderAnew
  <2>1. Movements!NoFilter \in Movements!Filter
    BY DEF Movements!NoFilter, Movements!Filter, Movements!Kind, Movements!Text
  <2> QED BY <1>1, <1>5, <2>1, RenderKeeps DEF Movements!RenderAnew
<1>6. CASE Movements!ClickApply
  BY <1>1, <1>6, ApplyKeeps DEF Movements!ClickApply
<1>7. ASSUME NEW f \in Movements!Filter, Movements!HasShell,
             Movements!Render(Movements!ReadFilters(Movements!Base, f), TRUE),
             UNCHANGED <<Movements!page, overtaken>>
      PROVE  MovesInv'
  <2> DEFINE g == Movements!ReadFilters(Movements!Base, f)
  <2>1. g \in Movements!Filter /\ g.kind = form.kind /\ g.inverted = form.inverted
    BY <1>1, <1>7 DEF Movements!ReadFilters, Movements!Filter, Movements!Form
  <2> HIDE DEF g
  <2>2. Movements!Render(g, TRUE)
    BY <1>7 DEF g
  <2> QED BY <1>1, <1>7, <2>1, <2>2, RenderKeeps
<1>8. Movements!HasShell => Movements!Base \in Movements!Filter
  BY <1>1 DEF Movements!Base, Movements!HasShell
<1>9. CASE Movements!TurnPage
  <2>1. results.f.next \in BOOLEAN
    BY <1>1 DEF Movements!Filter
  <2>2. Movements!HasShell /\ [Movements!Base EXCEPT !.next = ~results.f.next] \in Movements!Filter
    BY <1>8, <1>9, <2>1 DEF Movements!TurnPage, Movements!Filter
  <2> QED BY <1>7, <1>9, <2>2 DEF Movements!TurnPage
<1>10. ASSUME NEW g \in Groups, Movements!ClickGroup(g) PROVE MovesInv'
  <2>1. Movements!HasShell
        /\ [Movements!Base EXCEPT !.group = g, !.next = FALSE] \in Movements!Filter
    BY <1>8, <1>10 DEF Movements!ClickGroup, Movements!Filter
  <2> QED BY <1>7, <1>10, <2>1 DEF Movements!ClickGroup
<1>11. ASSUME NEW k \in Movements!Kind, Movements!PickKind(k) PROVE MovesInv'
  <2>1. form' \in Movements!Form /\ Movements!Apply(form')
    BY <1>1, <1>11 DEF Movements!PickKind, Movements!Form
  <2> QED BY <1>1, <1>11, <2>1, ApplyKeeps DEF Movements!PickKind
<1>12. ASSUME NEW b \in BOOLEAN, Movements!PickDates(b) PROVE MovesInv'
  <2>1. form' \in Movements!Form /\ Movements!Apply(form')
    BY <1>1, <1>12 DEF Movements!PickDates, Movements!Form
  <2> QED BY <1>1, <1>12, <2>1, ApplyKeeps DEF Movements!PickDates
<1>13. ASSUME NEW t \in Movements!Text, Movements!Type(t) PROVE MovesInv'
  <2>1. form' \in Movements!Form /\ form'.kind = form.kind /\ form'.inverted = form.inverted
        /\ timer' = TRUE /\ Movements!HasShell
        /\ UNCHANGED <<seq, reqs, busy, shell, ghost, results, overtaken>>
    BY <1>1, <1>13 DEF Movements!Type, Movements!Form
  <2> QED BY <2>1 DEF MovesInv, MovesTyped, Movements!TypeOK, Movements!HasShell, AsksForTheForm,
          Movements!KindAndDatesAreTold, Movements!Settled
<1> QED BY <1>2, <1>3, <1>4, <1>5, <1>6, <1>9, <1>10, <1>11, <1>12, <1>13
        DEF Movements!Next, Movements!Timers, Movements!User

\* The page as its script starts.
LEMMA MovesInit == Movements!Init => MovesInv
<1> SUFFICES ASSUME Movements!Init PROVE MovesInv
  OBVIOUS
<1>1. MaxSeq \in Nat /\ MaxSeq # 0
  BY PagesAssumption DEF PagesAssumption, Movements!MovementsAssumption
<1>2. Movements!NoFilter \in Movements!Filter /\ Movements!Fields(Movements!NoFilter) \in Movements!Form
  BY DEF Movements!NoFilter, Movements!Filter, Movements!Kind, Movements!Text, Movements!Fields,
     Movements!Form
<1>3. /\ seq = 1 /\ reqs = {[seq |-> 1, full |-> TRUE, f |-> Movements!NoFilter]}
      /\ busy = [mount |-> TRUE, results |-> FALSE]
      /\ shell = Movements!NoShell /\ form = Movements!Fields(Movements!NoFilter)
      /\ ghost = Movements!NoShell /\ timer = FALSE /\ overtaken = FALSE
      /\ results = [seq |-> 0, is |-> "nothing", own |-> FALSE, f |-> Movements!NoFilter,
                    error |-> "none"]
  BY DEF Movements!Init, Movements!NoResults
<1>4. \A r \in reqs : r.seq = 1 /\ r.full \in BOOLEAN /\ r.full /\ r.f = Movements!NoFilter
  <2> DEFINE first == [seq |-> 1, full |-> TRUE, f |-> Movements!NoFilter]
  <2>1. first.seq = 1 /\ first.full \in BOOLEAN /\ first.full /\ first.f = Movements!NoFilter
    OBVIOUS
  <2>2. \A r \in reqs : r = first
    BY <1>3
  <2> HIDE DEF first
  <2> QED BY <2>1, <2>2
<1>5. results \in [seq: 0..seq, is: {"nothing", "rows", "failure"}, own: BOOLEAN,
                  f: Movements!Filter, error: {"none", "dates", "text"}]
  BY <1>2, <1>3
<1>6. \A r, s \in reqs : r.seq = s.seq => r = s
  BY <1>3
<1>7. Movements!TypeOK
  <2>1. seq \in 0..MaxSeq
    BY <1>1, <1>3
  <2>2. \A r \in reqs : r.seq \in 1..seq /\ r.full \in BOOLEAN /\ r.f \in Movements!Filter
    <3>1. seq = 1
      BY <1>3
    <3> QED BY <1>2, <1>4, <3>1
  <2>3. busy \in [mount: BOOLEAN, results: BOOLEAN]
    BY <1>3
  <2> QED BY <1>2, <1>3, <1>5, <2>1, <2>2, <2>3 DEF Movements!TypeOK
<1>8. MovesTyped
  BY <1>3, <1>6, <1>7 DEF MovesTyped
<1>9. results.seq # seq
  BY <1>3
<1> QED BY <1>4, <1>8, <1>9 DEF MovesInv, AsksForTheForm, Movements!KindAndDatesAreTold, Movements!Settled

\* A step asks for a newer render, shows the newest, or does neither.
LEMMA MovesImplements ==
  MovesInv /\ Movements!Next => [Movements!LatestSpec!Next]_<<seq, results.seq>>
<1> SUFFICES ASSUME MovesInv, Movements!Next PROVE [Movements!LatestSpec!Next]_<<seq, results.seq>>
  OBVIOUS
<1> USE DEF Movements!LatestSpec!Next, Movements!LatestSpec!Ask, Movements!LatestSpec!Show
<1>1. seq \in Nat
      /\ results \in [seq: 0..seq, is: {"nothing", "rows", "failure"}, own: BOOLEAN,
                      f: Movements!Filter, error: {"none", "dates", "text"}]
  BY DEF MovesInv, MovesTyped, Movements!TypeOK
<1>2. ASSUME NEW f, NEW reuse, Movements!Render(f, reuse) PROVE seq' > seq
  BY <1>1, <1>2 DEF Movements!Render
<1>3. ASSUME NEW said, Movements!Apply(said)
      PROVE  results'.seq = results.seq /\ (seq' > seq \/ seq' = seq)
  BY <1>1, <1>2, <1>3 DEF Movements!Apply, Movements!Says
<1>4. CASE Movements!Answer
  <2>1. PICK r \in reqs : \/ Movements!Dropped(r) \/ Movements!PaintFull(r)
                          \/ Movements!PaintResults(r) \/ Movements!Fails(r)
    BY <1>4 DEF Movements!Answer
  <2>2. CASE Movements!Dropped(r)
    BY <2>2 DEF Movements!Dropped, Movements!page
  <2>3. CASE Movements!PaintFull(r)
    BY <2>3 DEF Movements!PaintFull, Movements!IsNewest
  <2>4. CASE Movements!PaintResults(r)
    BY <1>1, <2>4 DEF Movements!PaintResults, Movements!IsNewest
  <2>5. CASE Movements!Fails(r)
    BY <1>1, <2>5 DEF Movements!Fails, Movements!IsNewest
  <2> QED BY <2>1, <2>2, <2>3, <2>4, <2>5
<1>5. CASE Movements!TimerFires
  BY <1>3, <1>5 DEF Movements!TimerFires
<1>6. CASE Movements!GhostFires
  BY <1>2, <1>6 DEF Movements!GhostFires
<1>7. CASE Movements!RenderAnew
  BY <1>2, <1>7 DEF Movements!RenderAnew, Movements!page
<1>8. CASE Movements!ClickApply
  BY <1>3, <1>8 DEF Movements!ClickApply
<1>9. CASE Movements!TurnPage
  BY <1>2, <1>9 DEF Movements!TurnPage, Movements!page
<1>10. ASSUME NEW k \in Movements!Kind, Movements!PickKind(k)
       PROVE  [Movements!LatestSpec!Next]_<<seq, results.seq>>
  BY <1>3, <1>10 DEF Movements!PickKind
<1>11. ASSUME NEW b \in BOOLEAN, Movements!PickDates(b)
       PROVE  [Movements!LatestSpec!Next]_<<seq, results.seq>>
  BY <1>3, <1>11 DEF Movements!PickDates
<1>12. ASSUME NEW t \in Movements!Text, Movements!Type(t)
       PROVE  [Movements!LatestSpec!Next]_<<seq, results.seq>>
  BY <1>12 DEF Movements!Type
<1>13. ASSUME NEW g \in Groups, Movements!ClickGroup(g)
       PROVE  [Movements!LatestSpec!Next]_<<seq, results.seq>>
  BY <1>2, <1>13 DEF Movements!ClickGroup, Movements!page
<1> QED BY <1>4, <1>5, <1>6, <1>7, <1>8, <1>9, <1>10, <1>11, <1>12, <1>13
        DEF Movements!Next, Movements!Timers, Movements!User

--------------------------------------------------------------------------------
\* Items and locations.

ListView == [box: Texts, due: BOOLEAN, newest: Nat, busy: BOOLEAN]
ListRows == SUBSET (Entries \X {"none", "active", "inactive"})
ListLoad == [no: Nat, view: Nat, term: Texts, served: BOOLEAN, rows: ListRows]
ListShown == [no: Nat, term: Texts, rows: ListRows, ticks: SUBSET Entries,
              is: {"blank", "rows", "failure"}]
ListWrite == [op: {"create", "reactivate"}, entry: Entries, served: BOOLEAN]

\* There is a render for every answer to a change that may still come.
ListTyped ==
  /\ List!TypeOK
  /\ views \in [1..MaxViews -> ListView] /\ loads \subseteq ListLoad /\ list \in ListShown
  /\ writes \subseteq ListWrite /\ IsFiniteSet(writes)
  /\ Cardinality(writes) + view <= MaxViews

\* The newest request of a render is for the text in its box, if that is applied.
AsksForTheText ==
  \A l \in loads : l.no = views[l.view].newest /\ ~views[l.view].due
                    => l.term = views[l.view].box

\* As long as every change that took effect was told and followed by a new render, what was
\* served or is shown for the newest request is what the server holds.
ServedIsCurrent ==
  ~lost /\ (\A w \in writes : ~w.served) =>
    /\ \A l \in loads : l.served /\ l.view = view /\ l.no = views[view].newest
                         => l.rows = List!Found(l.term)
    /\ List!Settled => list.rows = List!Found(list.term)

ListInv == /\ ListTyped /\ AsksForTheText /\ ServedIsCurrent
           /\ List!TextIsApplied /\ List!LabelsAreTicked

\* A render whose newest request has another number.
LEMMA ViewAsked ==
  ASSUME NEW w \in ListView, NEW n \in Nat
  PROVE  LET x == [w EXCEPT !.newest = n, !.busy = TRUE]
         IN  x \in ListView /\ x.newest = n /\ x.box = w.box /\ x.due = w.due
BY DEF ListView

\* A request is the newest of its render from now on, and for the text in its box.
LEMMA LoadTyped ==
  ASSUME ListTyped, NEW v \in 1..MaxViews, NEW w \in ListView, List!Load(v, w),
         view' \in 1..MaxViews, v <= view', view <= view'
  PROVE  /\ sent \in Nat /\ sent' = sent + 1 /\ sent' \in 0..MaxLoads
         /\ views' \in [1..MaxViews -> ListView] /\ loads' \subseteq ListLoad
         /\ \A u \in 1..MaxViews : views'[u].box \in Texts /\ views'[u].newest <= sent'
         /\ \A u \in 1..MaxViews : u > view' => views'[u] = List!Blank
         /\ \A l \in loads' : l.no \in 1..sent' /\ l.view \in 1..view' /\ l.term \in Texts
         /\ views'[v].newest = sent' /\ views'[v].box = w.box /\ views'[v].due = w.due
         /\ \A u \in 1..MaxViews : u # v => views'[u] = views[u]
         /\ \A l \in loads : l.no <= sent /\ l.view \in 1..view
         /\ \A l \in loads' : \/ l \in loads
                              \/ l.no = sent' /\ l.view = v /\ l.term = w.box /\ ~l.served
<1> DEFINE new == List!Request(sent + 1, v, w.box)
           mine == [w EXCEPT !.newest = sent + 1, !.busy = TRUE]
<1>1. /\ MaxViews \in Nat /\ MaxLoads \in Nat
  BY PagesAssumption DEF PagesAssumption, List!ListAssumption
<1>2. /\ sent \in Nat /\ sent < MaxLoads /\ sent' = sent + 1 /\ view \in 1..MaxViews
      /\ loads' = loads \cup {new} /\ views' = [views EXCEPT ![v] = mine]
      /\ views \in [1..MaxViews -> ListView] /\ loads \subseteq ListLoad
      /\ \A l \in loads : l.no \in 1..sent /\ l.view \in 1..view /\ l.term \in Texts
      /\ \A u \in 1..MaxViews : views[u].newest <= sent
      /\ \A u \in 1..MaxViews : u > view => views[u] = List!Blank
  BY <1>1 DEF ListTyped, List!TypeOK, List!Load
<1>3. /\ new \in ListLoad /\ new.no = sent + 1 /\ new.view = v /\ new.term = w.box /\ ~new.served
  BY <1>1, <1>2 DEF List!Request, ListLoad, ListView, ListRows
<1>4. mine \in ListView /\ mine.newest = sent + 1 /\ mine.box = w.box /\ mine.due = w.due
  <2>1. sent + 1 \in Nat
    BY <1>2
  <2> QED BY <2>1, ViewAsked
<1> HIDE DEF new, mine
<1>5. /\ views' \in [1..MaxViews -> ListView] /\ views'[v] = mine
      /\ \A u \in 1..MaxViews : u # v => views'[u] = views[u]
  BY <1>2, <1>4
<1>6. \A u \in 1..MaxViews : views'[u].box \in Texts /\ views'[u].newest <= sent'
  <2> TAKE u \in 1..MaxViews
  <2>1. views'[u] \in ListView /\ views[u] \in ListView
    BY <1>2, <1>5
  <2>2. CASE u = v
    BY <1>2, <1>4, <1>5, <2>1, <2>2 DEF ListView
  <2>3. CASE u # v
    BY <1>2, <1>5, <2>1, <2>3 DEF ListView
  <2> QED BY <2>2, <2>3
<1>7. \A u \in 1..MaxViews : u > view' => views'[u] = List!Blank
  BY <1>1, <1>2, <1>5
<1>8. \A l \in loads' : l \in loads \/ l = new
  BY <1>2
<1>9. \A l \in loads' : l.no \in 1..sent' /\ l.view \in 1..view' /\ l.term \in Texts
  <2> TAKE l \in loads'
  <2>1. CASE l \in loads
    BY <1>1, <1>2, <2>1
  <2>2. CASE l = new
    BY <1>1, <1>2, <1>3, <2>2 DEF ListView
  <2> QED BY <1>8, <2>1, <2>2
<1>10. loads' \subseteq ListLoad /\ sent' \in 0..MaxLoads
  BY <1>1, <1>2, <1>3
<1>11. \A l \in loads : l.no <= sent /\ l.view \in 1..view
  BY <1>2
<1> QED BY <1>2, <1>3, <1>4, <1>5, <1>6, <1>7, <1>8, <1>9, <1>10, <1>11

\* A request of a render that is there: a search, or a timer.
LEMMA LoadKeeps ==
  ASSUME ListInv, NEW v \in 1..view, NEW w \in ListView, List!Load(v, w),
         UNCHANGED <<List!server, view, List!shownVars>>
  PROVE  ListInv'
<1> USE DEF List!server, List!shownVars
<1>1. /\ MaxViews \in Nat /\ view \in 1..MaxViews /\ v \in 1..MaxViews
      /\ list \in ListShown /\ list.no \in 0..sent
  <2>1. MaxViews \in Nat
    BY PagesAssumption DEF PagesAssumption, List!ListAssumption
  <2>2. view \in 1..MaxViews /\ list \in ListShown /\ list.no \in 0..sent
    BY DEF ListInv, ListTyped, List!TypeOK
  <2>3. \A u \in 1..view : u \in 1..MaxViews
    BY <2>1, <2>2
  <2> QED BY <2>1, <2>2, <2>3
<1>2. /\ sent \in Nat /\ sent' = sent + 1 /\ sent' \in 0..MaxLoads
      /\ views' \in [1..MaxViews -> ListView] /\ loads' \subseteq ListLoad
      /\ \A u \in 1..MaxViews : views'[u].box \in Texts /\ views'[u].newest <= sent'
      /\ \A u \in 1..MaxViews : u > view' => views'[u] = List!Blank
      /\ \A l \in loads' : l.no \in 1..sent' /\ l.view \in 1..view' /\ l.term \in Texts
      /\ views'[v].newest = sent' /\ views'[v].box = w.box /\ views'[v].due = w.due
      /\ \A u \in 1..MaxViews : u # v => views'[u] = views[u]
      /\ \A l \in loads : l.no <= sent /\ l.view \in 1..view
      /\ \A l \in loads' : \/ l \in loads
                           \/ l.no = sent' /\ l.view = v /\ l.term = w.box /\ ~l.served
  <2>1. ListTyped /\ v <= view' /\ view <= view' /\ view' \in 1..MaxViews
    BY <1>1 DEF ListInv
  <2> QED BY ONLY <1>1, <2>1, w \in ListView, List!Load(v, w), LoadTyped
<1>3. ListTyped'
  <2>1. list' \in ListShown /\ list'.no \in 0..sent'
    BY <1>1, <1>2
  <2> QED BY <1>1, <1>2, <2>1 DEF ListInv, ListTyped, List!TypeOK
<1>4. AsksForTheText'
  <2> SUFFICES ASSUME NEW l \in loads', l.no = views'[l.view].newest, ~views'[l.view].due
               PROVE  l.term = views'[l.view].box
    BY DEF AsksForTheText
  <2>1. CASE l \in loads
    <3>1. l.view \in 1..MaxViews /\ l.view # v
      BY <1>1, <1>2, <2>1
    <3> QED BY <1>2, <2>1, <3>1 DEF ListInv, AsksForTheText
  <2>2. CASE l.view = v /\ l.term = w.box
    BY <1>2, <2>2
  <2> QED BY <1>2, <2>1, <2>2
<1>5. List!Settled' => List!Settled /\ views'[view] = views[view]
  BY <1>1, <1>2 DEF List!Settled
<1>6. ServedIsCurrent'
  <2> SUFFICES ASSUME ~lost, \A x \in writes : ~x.served
               PROVE  /\ \A l \in loads' : l.served /\ l.view = view /\ l.no = views'[view].newest
                                            => l.rows = List!Found(l.term)
                      /\ List!Settled' => list.rows = List!Found(list.term)
    BY DEF ServedIsCurrent, List!Found
  <2>1. ASSUME NEW l \in loads', l.served, l.view = view, l.no = views'[view].newest
        PROVE  l.rows = List!Found(l.term)
    <3>1. l \in loads /\ l.no # sent'
      BY <1>2, <2>1
    <3>2. views'[view] = views[view]
      BY <1>1, <1>2, <2>1, <3>1
    <3> QED BY <2>1, <3>1, <3>2 DEF ListInv, ServedIsCurrent
  <2> QED BY <1>5, <2>1 DEF ListInv, ServedIsCurrent
<1>7. List!TextIsApplied' /\ List!LabelsAreTicked'
  BY <1>5 DEF ListInv, List!TextIsApplied, List!LabelsAreTicked, List!Ids
<1> QED BY <1>3, <1>4, <1>6, <1>7 DEF ListInv

\* A key in the search box: what is shown may be of another text, but the timer is started.
LEMMA TypeKeeps ==
  ASSUME ListInv, NEW text \in Texts, List!Type(text)
  PROVE  ListInv'
<1> USE DEF List!server, List!shownVars
<1>1. /\ MaxViews \in Nat /\ view \in 1..MaxViews /\ views \in [1..MaxViews -> ListView]
      /\ \A u \in 1..MaxViews : u > view => views[u] = List!Blank
  BY PagesAssumption DEF PagesAssumption, List!ListAssumption, ListInv, ListTyped, List!TypeOK
<1>2. /\ views' = [views EXCEPT ![view].box = text, ![view].due = TRUE]
      /\ UNCHANGED <<List!server, view, loads, sent, List!shownVars>>
  BY DEF List!Type
<1>3. /\ views' \in [1..MaxViews -> ListView] /\ views'[view].due
      /\ views'[view].box = text /\ views'[view].newest = views[view].newest
      /\ \A u \in 1..MaxViews : u # view => views'[u] = views[u]
  BY <1>1, <1>2 DEF ListView
<1>4. \A u \in 1..MaxViews : views'[u].box \in Texts /\ views'[u].newest = views[u].newest
  <2> TAKE u \in 1..MaxViews
  <2>1. views'[u] \in ListView
    BY <1>3
  <2> QED BY <1>3, <2>1 DEF ListView
<1>5. \A u \in 1..MaxViews : u > view' => views'[u] = List!Blank
  BY <1>1, <1>2, <1>3
<1>6. ListTyped'
  BY <1>1, <1>2, <1>3, <1>4, <1>5 DEF ListInv, ListTyped, List!TypeOK
<1>7. AsksForTheText'
  <2> SUFFICES ASSUME NEW l \in loads, l.no = views'[l.view].newest, ~views'[l.view].due
               PROVE  l.term = views'[l.view].box
    BY <1>2 DEF AsksForTheText
  <2>1. l.view \in 1..MaxViews /\ l.view # view
    BY <1>1, <1>3 DEF ListInv, ListTyped, List!TypeOK
  <2> QED BY <1>3, <2>1 DEF ListInv, AsksForTheText
<1>8. List!Settled' <=> List!Settled
  BY <1>1, <1>2, <1>3 DEF List!Settled
<1>9. ServedIsCurrent'
  BY <1>1, <1>2, <1>3, <1>8 DEF ListInv, ServedIsCurrent, List!Found
<1>10. List!TextIsApplied' /\ List!LabelsAreTicked'
  BY <1>2, <1>3 DEF ListInv, List!TextIsApplied, List!LabelsAreTicked, List!Ids
<1> QED BY <1>6, <1>7, <1>9, <1>10 DEF ListInv

\* What a request finds is of the entries there are.
LEMMA FoundTyped ==
  ASSUME ListTyped, NEW term \in Texts
  PROVE  List!Found(term) \in ListRows
<1>1. Match \in [Texts -> SUBSET Entries]
  BY PagesAssumption DEF PagesAssumption, List!ListAssumption
<1>2. stored \in [Entries -> {"none", "active", "inactive"}]
  BY DEF ListTyped, List!TypeOK
<1> QED BY <1>1, <1>2 DEF List!Found, ListRows

\* The server answers a list request.
LEMMA ServeListKeeps ==
  ASSUME ListInv, NEW l \in loads, List!Serve(l)
  PROVE  ListInv'
<1> USE DEF List!server, List!shownVars
<1> DEFINE new == [l EXCEPT !.served = TRUE, !.rows = List!Found(l.term)]
<1>1. /\ loads' = (loads \ {l}) \cup {new} /\ l \in ListLoad
      /\ UNCHANGED <<List!server, views, view, sent, List!shownVars>>
      /\ l.no \in 1..sent /\ l.view \in 1..view /\ l.term \in Texts
  BY DEF ListInv, ListTyped, List!TypeOK, List!Serve
<1>2. List!Found(l.term) \in ListRows
  BY <1>1, FoundTyped DEF ListInv
<1>3. /\ new \in ListLoad /\ new.no = l.no /\ new.view = l.view /\ new.term = l.term
      /\ new.rows = List!Found(l.term)
  BY <1>1, <1>2 DEF ListLoad
<1> HIDE DEF new
<1>4. \A x \in loads' : x \in loads \/ x = new
  BY <1>1
<1>5. /\ loads' \subseteq ListLoad
      /\ \A x \in loads' : x.no \in 1..sent /\ x.view \in 1..view /\ x.term \in Texts
  BY <1>1, <1>3, <1>4 DEF ListInv, ListTyped, List!TypeOK
<1>6. ListTyped'
  BY <1>1, <1>5 DEF ListInv, ListTyped, List!TypeOK
<1>7. AsksForTheText'
  BY <1>1, <1>3, <1>4 DEF ListInv, AsksForTheText
<1>8. ServedIsCurrent'
  <2>1. \A x \in loads' : x \in loads \/ x.rows = List!Found(x.term)
    BY <1>3, <1>4
  <2> QED BY <1>1, <2>1 DEF ListInv, ServedIsCurrent, List!Found, List!Settled
<1>9. List!TextIsApplied' /\ List!LabelsAreTicked'
  BY <1>1 DEF ListInv, List!TextIsApplied, List!LabelsAreTicked, List!Ids, List!Settled
<1> QED BY <1>6, <1>7, <1>8, <1>9 DEF ListInv

\* An answer or a failure that is old is dropped; one that is not ends its render's wait and,
\* if the render is on the page, is shown.
LEMMA ListAnsweredKeeps ==
  ASSUME ListInv, NEW l \in loads, List!Drop(l) \/ List!Arrive(l) \/ List!Fail(l)
  PROVE  ListInv'
<1> USE DEF List!server, List!shownVars
<1>1. /\ loads' = loads \ {l} /\ l \in ListLoad /\ list \in ListShown
      /\ UNCHANGED <<List!server, view, sent, selected, labels>>
      /\ l.no \in 1..sent /\ l.view \in 1..MaxViews /\ l.term \in Texts
      /\ views \in [1..MaxViews -> ListView] /\ selected \subseteq Entries /\ view \in 1..MaxViews
      /\ MaxViews \in Nat /\ l.view <= view
  <2>1. MaxViews \in Nat
    BY PagesAssumption DEF PagesAssumption, List!ListAssumption
  <2>2. l.view \in 1..view /\ view \in 1..MaxViews
    BY DEF ListInv, ListTyped, List!TypeOK
  <2>3. l.view \in 1..MaxViews /\ l.view <= view
    BY <2>1, <2>2
  <2> QED BY <2>1, <2>2, <2>3 DEF ListInv, ListTyped, List!TypeOK, List!Drop, List!Arrive, List!Fail
<1>2. /\ views' \in [1..MaxViews -> ListView] /\ pageBusy' \in BOOLEAN
      /\ \A u \in 1..MaxViews : /\ views'[u].box = views[u].box /\ views'[u].due = views[u].due
                                /\ views'[u].newest = views[u].newest
                                /\ u # l.view => views'[u] = views[u]
  <2>1. views' = views \/ views' = [views EXCEPT ![l.view].busy = FALSE]
    BY DEF List!Drop, List!Arrive, List!Fail
  <2>2. CASE views' = views
    BY <1>1, <2>2 DEF List!Drop, List!Arrive, List!Fail, ListInv, ListTyped, List!TypeOK
  <2>3. CASE views' = [views EXCEPT ![l.view].busy = FALSE]
    <3>1. views' \in [1..MaxViews -> ListView] /\ pageBusy' \in BOOLEAN
      BY <1>1, <2>3 DEF List!Drop, List!Arrive, List!Fail, ListInv, ListTyped, List!TypeOK, ListView
    <3>2. ASSUME NEW u \in 1..MaxViews
          PROVE  /\ views'[u].box = views[u].box /\ views'[u].due = views[u].due
                 /\ views'[u].newest = views[u].newest /\ (u # l.view => views'[u] = views[u])
      <4>1. views[u] \in ListView
        BY <1>1
      <4>2. views'[u] = IF u = l.view THEN [views[u] EXCEPT !.busy = FALSE] ELSE views[u]
        BY <1>1, <2>3
      <4> QED BY <4>1, <4>2 DEF ListView
    <3> QED BY <3>1, <3>2
  <2> QED BY <2>1, <2>2, <2>3
<1>3. \/ list' = list
      \/ l.view = view /\ l.no = views[view].newest /\ l.served /\ list' = List!Rows(l)
      \/ /\ l.view = view /\ l.no = views[view].newest
         /\ list' = [no |-> l.no, term |-> l.term, rows |-> {}, ticks |-> {}, is |-> "failure"]
  BY DEF List!Drop, List!Arrive, List!Fail, List!IsNewest
<1>4. list' \in ListShown /\ list'.no \in 0..sent
  <2>1. List!Rows(l) \in ListShown /\ List!Rows(l).no = l.no
    BY <1>1 DEF List!Rows, ListShown, ListLoad
  <2>2. list.no \in 0..sent
    BY DEF ListInv, ListTyped, List!TypeOK
  <2>3. [no |-> l.no, term |-> l.term, rows |-> {}, ticks |-> {}, is |-> "failure"] \in ListShown
    BY <1>1 DEF ListShown, ListLoad, ListRows
  <2>4. CASE list' = list
    BY <1>1, <2>2, <2>4
  <2>5. CASE list' = List!Rows(l)
    BY <1>1, <2>1, <2>5
  <2>6. CASE list' = [no |-> l.no, term |-> l.term, rows |-> {}, ticks |-> {}, is |-> "failure"]
    BY <1>1, <2>3, <2>6
  <2> QED BY <1>3, <2>4, <2>5, <2>6
<1>5. \A u \in 1..MaxViews : u > view => views'[u] = List!Blank
  <2> SUFFICES ASSUME NEW u \in 1..MaxViews, u > view PROVE views'[u] = List!Blank
    OBVIOUS
  <2>1. u # l.view
    BY <1>1
  <2>2. views[u] = List!Blank
    BY DEF ListInv, ListTyped, List!TypeOK
  <2> QED BY <1>2, <2>1, <2>2
<1>6. ListTyped'
  <2>1. \A u \in 1..MaxViews : views'[u].box \in Texts /\ views'[u].newest <= sent
    BY <1>2 DEF ListInv, ListTyped, List!TypeOK
  <2>2. list'.term \in Texts /\ list'.is \in {"blank", "rows", "failure"}
    BY <1>4 DEF ListShown
  <2> QED BY <1>1, <1>2, <1>4, <1>5, <2>1, <2>2 DEF ListInv, ListTyped, List!TypeOK
<1>7. AsksForTheText'
  <2> SUFFICES ASSUME NEW x \in loads', x.no = views'[x.view].newest, ~views'[x.view].due
               PROVE  x.term = views'[x.view].box
    BY DEF AsksForTheText
  <2>1. x \in loads /\ x.view \in 1..MaxViews
    <3>1. x \in loads /\ x.view \in 1..view
      BY <1>1 DEF ListInv, ListTyped, List!TypeOK
    <3> QED BY <1>1, <3>1
  <2> QED BY <1>2, <2>1 DEF ListInv, AsksForTheText
<1>8. views'[view].newest = views[view].newest /\ views'[view].due = views[view].due
      /\ views'[view].box = views[view].box
  BY <1>1, <1>2
<1>9. ServedIsCurrent'
  <2> SUFFICES ASSUME ~lost, \A w \in writes : ~w.served
               PROVE  /\ \A x \in loads' : x.served /\ x.view = view /\ x.no = views'[view].newest
                                            => x.rows = List!Found(x.term)
                      /\ List!Settled' => list'.rows = List!Found(list'.term)
    BY <1>1 DEF ServedIsCurrent, List!Found
  <2>1. /\ \A x \in loads : x.served /\ x.view = view /\ x.no = views[view].newest
                             => x.rows = List!Found(x.term)
        /\ List!Settled => list.rows = List!Found(list.term)
    BY DEF ListInv, ServedIsCurrent
  <2>2. List!Settled' => list'.rows = List!Found(list'.term)
    <3>1. CASE list' = list
      BY <1>1, <1>8, <2>1, <3>1 DEF List!Settled
    <3>2. CASE l.view = view /\ l.no = views[view].newest /\ l.served /\ list' = List!Rows(l)
      BY <2>1, <3>2 DEF List!Rows
    <3> QED BY <1>3, <3>1, <3>2 DEF List!Settled
  <2> QED BY <1>1, <1>8, <2>1, <2>2
<1>10. List!TextIsApplied'
  <2> SUFFICES ASSUME list'.no = views[view].newest, list'.is = "rows", ~views[view].due
               PROVE  list'.term = views[view].box
    BY <1>1, <1>8 DEF List!TextIsApplied, List!Settled
  <2>1. CASE list' = list
    BY <2>1 DEF ListInv, List!TextIsApplied, List!Settled
  <2>2. CASE l.view = view /\ l.no = views[view].newest /\ list' = List!Rows(l)
    BY <2>2 DEF ListInv, AsksForTheText, List!Rows
  <2> QED BY <1>3, <2>1, <2>2
<1>11. List!LabelsAreTicked'
  <2>1. CASE list' = list
    BY <1>1, <2>1 DEF ListInv, List!LabelsAreTicked, List!Ids
  <2>2. CASE list' = List!Rows(l)
    BY <1>1, <2>2 DEF ListInv, List!LabelsAreTicked, List!Ids, List!Rows
  <2>3. CASE list' = [no |-> l.no, term |-> l.term, rows |-> {}, ticks |-> {}, is |-> "failure"]
    BY <1>1, <2>3 DEF ListInv, List!LabelsAreTicked, List!Ids
  <2> QED BY <1>3, <2>1, <2>2, <2>3
<1> QED BY <1>6, <1>7, <1>9, <1>10, <1>11 DEF ListInv

\* Counting is the same thing in every module.
LEMMA SameCounting ==
  ASSUME NEW S
  PROVE  (List!IsFiniteSet(S) <=> IsFiniteSet(S)) /\ List!Cardinality(S) = Cardinality(S)
BY DEF List!IsFiniteSet, IsFiniteSet, List!Cardinality, Cardinality

\* There is room for a number of renders, of which one is on the page.
LEMMA ListBounds ==
  MaxViews \in Nat /\ (ListTyped => view \in Nat /\ view \in 1..MaxViews)
<1>1. MaxViews \in Nat
  BY PagesAssumption DEF PagesAssumption, List!ListAssumption
<1>2. ListTyped => view \in 1..MaxViews
  BY DEF ListTyped, List!TypeOK
<1> QED BY <1>1, <1>2

\* There are no more labels than entries.
LEMMA LabelsBounded ==
  ASSUME NEW S \in SUBSET Entries
  PROVE  List!Cardinality(S) \in 0..List!Cardinality(Entries)
<1>1. List!IsFiniteSet(Entries)
  BY PagesAssumption DEF PagesAssumption, List!ListAssumption
<1>2. IsFiniteSet(Entries)
  BY <1>1, SameCounting
<1>3. IsFiniteSet(S) /\ Cardinality(S) <= Cardinality(Entries)
  BY <1>2, FS_Subset
<1>4. Cardinality(S) \in Nat /\ Cardinality(Entries) \in Nat
  BY <1>2, <1>3, FS_CardinalityType
<1> QED BY <1>3, <1>4, SameCounting

\* A tick is one more label or one less.
LEMMA TickKeeps ==
  ASSUME ListInv, NEW e \in Entries, List!Tick(e)
  PROVE  ListInv'
<1> USE DEF List!server, List!shownVars
<1> DEFINE ticks == IF e \in list.ticks THEN list.ticks \ {e} ELSE list.ticks \cup {e}
<1>1. /\ e \in List!Ids(list.rows) /\ list \in ListShown /\ selected \subseteq Entries
      /\ selected' = IF e \in list.ticks THEN selected \ {e} ELSE selected \cup {e}
      /\ list' = [list EXCEPT !.ticks = ticks]
      /\ labels' = List!Cardinality(selected')
      /\ UNCHANGED <<List!server, views, view, loads, sent, pageBusy>>
      /\ list.ticks = selected \cap List!Ids(list.rows)
  BY DEF ListInv, ListTyped, List!TypeOK, List!LabelsAreTicked, List!Tick
<1>2. ticks \subseteq Entries /\ selected' \subseteq Entries
  BY <1>1 DEF ListShown
<1>3. ticks = selected' \cap List!Ids(list.rows)
  BY <1>1
<1> HIDE DEF ticks
<1>4. /\ list' \in ListShown /\ list'.no = list.no /\ list'.term = list.term
      /\ list'.rows = list.rows /\ list'.is = list.is /\ list'.ticks = ticks
  BY <1>1, <1>2 DEF ListShown
<1>5. labels' \in 0..List!Cardinality(Entries)
  BY <1>1, <1>2, LabelsBounded
<1>6. ListTyped'
  BY <1>1, <1>2, <1>4, <1>5 DEF ListInv, ListTyped, List!TypeOK
<1>7. AsksForTheText' /\ ServedIsCurrent' /\ List!TextIsApplied'
  BY <1>1, <1>4 DEF ListInv, AsksForTheText, ServedIsCurrent, List!TextIsApplied, List!Settled,
     List!Found
<1>8. List!LabelsAreTicked'
  BY <1>1, <1>3, <1>4 DEF List!LabelsAreTicked, List!Ids
<1> QED BY <1>6, <1>7, <1>8 DEF ListInv

\* A change is asked for, within the bound of renders.
LEMMA WriteKeeps ==
  ASSUME ListInv, NEW op \in {"create", "reactivate"}, NEW e \in Entries, List!Write(op, e)
  PROVE  ListInv'
<1> USE DEF List!server, List!shownVars
<1> DEFINE new == [op |-> op, entry |-> e, served |-> FALSE]
<1>1. /\ writes' = writes \cup {new} /\ Cardinality(writes) + view < MaxViews
      /\ UNCHANGED <<kind, stored, lost, views, view, loads, sent, List!shownVars>>
  BY SameCounting DEF List!Write, List!MayWrite
<1>2. new \in ListWrite /\ ~new.served
  BY DEF ListWrite
<1> HIDE DEF new
<1>3. IsFiniteSet(writes') /\ Cardinality(writes') + view <= MaxViews
  <2>1. IsFiniteSet(writes) /\ Cardinality(writes) \in Nat
    BY FS_CardinalityType DEF ListInv, ListTyped
  <2>2. IsFiniteSet(writes') /\ (Cardinality(writes') = Cardinality(writes)
                                \/ Cardinality(writes') = Cardinality(writes) + 1)
    BY <1>1, <2>1, FS_AddElement
  <2>3. view \in Nat /\ MaxViews \in Nat
    BY ListBounds DEF ListInv
  <2> QED BY <1>1, <2>1, <2>2, <2>3
<1>4. ListTyped'
  BY <1>1, <1>2, <1>3 DEF ListInv, ListTyped, List!TypeOK
<1>5. ServedIsCurrent'
  <2>1. (\A w \in writes' : ~w.served) => \A w \in writes : ~w.served
    BY <1>1
  <2> QED BY <1>1, <2>1 DEF ListInv, ServedIsCurrent, List!Found, List!Settled
<1>6. AsksForTheText' /\ List!TextIsApplied' /\ List!LabelsAreTicked'
  BY <1>1 DEF ListInv, AsksForTheText, List!TextIsApplied, List!LabelsAreTicked, List!Settled,
     List!Ids
<1> QED BY <1>4, <1>5, <1>6 DEF ListInv

\* The server makes it: what is shown need not be true until it is answered.
LEMMA ServeWriteKeeps ==
  ASSUME ListInv, NEW w \in writes, List!ServeWrite(w)
  PROVE  ListInv'
<1> USE DEF List!server, List!shownVars
<1> DEFINE new == [w EXCEPT !.served = TRUE]
<1>1. /\ stored' = [stored EXCEPT ![w.entry] = "active"] /\ w \in ListWrite
      /\ writes' = (writes \ {w}) \cup {new}
      /\ UNCHANGED <<kind, lost, views, view, loads, sent, List!shownVars>>
      /\ stored \in [Entries -> {"none", "active", "inactive"}]
  BY DEF ListInv, ListTyped, List!TypeOK, List!ServeWrite
<1>2. new \in ListWrite /\ new.served
  BY <1>1 DEF ListWrite
<1> HIDE DEF new
<1>3. IsFiniteSet(writes') /\ Cardinality(writes') + view <= MaxViews
  <2>1. IsFiniteSet(writes) /\ Cardinality(writes) \in Nat /\ Cardinality(writes) + view <= MaxViews
    BY FS_CardinalityType DEF ListInv, ListTyped
  <2>2. IsFiniteSet(writes \ {w}) /\ Cardinality(writes \ {w}) = Cardinality(writes) - 1
    BY <2>1, FS_RemoveElement
  <2>3. IsFiniteSet(writes') /\ (Cardinality(writes') = Cardinality(writes \ {w})
                                \/ Cardinality(writes') = Cardinality(writes \ {w}) + 1)
    BY <1>1, <2>2, FS_AddElement
  <2>4. view \in Nat /\ MaxViews \in Nat
    BY ListBounds DEF ListInv
  <2> QED BY <2>1, <2>2, <2>3, <2>4
<1>4. ListTyped'
  <2>1. stored' \in [Entries -> {"none", "active", "inactive"}]
    BY <1>1
  <2> QED BY <1>1, <1>2, <1>3, <2>1 DEF ListInv, ListTyped, List!TypeOK
<1>5. ServedIsCurrent'
  BY <1>1, <1>2 DEF ServedIsCurrent
<1>6. AsksForTheText' /\ List!TextIsApplied' /\ List!LabelsAreTicked'
  BY <1>1 DEF ListInv, AsksForTheText, List!TextIsApplied, List!LabelsAreTicked, List!Settled,
     List!Ids
<1> QED BY <1>4, <1>5, <1>6 DEF ListInv

\* The answer renders the page anew, from what the server holds then.
LEMMA WriteAcceptedKeeps ==
  ASSUME ListInv, NEW w \in writes, List!WriteAccepted(w)
  PROVE  ListInv'
<1> USE DEF List!server, List!shownVars
<1>1. /\ writes' = writes \ {w} /\ UNCHANGED <<kind, stored, lost>>
      /\ view' = view + 1 /\ List!Load(view + 1, List!Blank)
      /\ list' = [list EXCEPT !.is = "blank", !.rows = {}, !.ticks = {}]
      /\ pageBusy' \in BOOLEAN /\ selected' = {} /\ labels' = 0
      /\ list \in ListShown /\ list.no \in 0..sent /\ view \in 1..MaxViews
  <2>1. pageBusy' = (kind = "items")
    BY DEF List!WriteAccepted, List!Render
  <2>2. pageBusy' \in BOOLEAN
    BY <2>1
  <2> QED BY <2>2 DEF ListInv, ListTyped, List!TypeOK, List!WriteAccepted, List!Render
<1>2. MaxViews \in Nat /\ view \in Nat /\ view' = view + 1
  BY <1>1, ListBounds DEF ListInv
<1>3. IsFiniteSet(writes') /\ Cardinality(writes') + view' <= MaxViews /\ view' \in 1..MaxViews
  <2>1. IsFiniteSet(writes) /\ Cardinality(writes) \in Nat /\ Cardinality(writes) + view <= MaxViews
    BY FS_CardinalityType DEF ListInv, ListTyped
  <2>2. IsFiniteSet(writes \ {w}) /\ Cardinality(writes \ {w}) = Cardinality(writes) - 1
    BY <2>1, FS_RemoveElement
  <2>3. Cardinality(writes \ {w}) \in Nat
    BY <2>2, FS_CardinalityType
  <2>4. writes' = writes \ {w}
    BY <1>1
  <2>5. view' <= MaxViews
    BY <1>2, <2>1, <2>2, <2>3
  <2> QED BY <1>2, <2>1, <2>2, <2>3, <2>4, <2>5
<1> DEFINE none == List!Blank.box
<1>4. List!Blank \in ListView
  <2>1. "" \in Texts
    BY PagesAssumption DEF PagesAssumption, List!ListAssumption
  <2> QED BY <2>1 DEF List!Blank, ListView
<1> HIDE DEF none
<1>5. /\ sent \in Nat /\ sent' = sent + 1 /\ sent' \in 0..MaxLoads
      /\ views' \in [1..MaxViews -> ListView] /\ loads' \subseteq ListLoad
      /\ \A u \in 1..MaxViews : views'[u].box \in Texts /\ views'[u].newest <= sent'
      /\ \A u \in 1..MaxViews : u > view' => views'[u] = List!Blank
      /\ \A l \in loads' : l.no \in 1..sent' /\ l.view \in 1..view' /\ l.term \in Texts
      /\ views'[view'].newest = sent' /\ views'[view'].box = none /\ view' \in 1..MaxViews
      /\ \A u \in 1..MaxViews : u # view' => views'[u] = views[u]
      /\ \A l \in loads : l.no <= sent /\ l.view \in 1..view
      /\ \A l \in loads' : \/ l \in loads
                           \/ l.no = sent' /\ l.view = view' /\ l.term = none /\ ~l.served
  <2>1. view' \in 1..MaxViews /\ view' <= view' /\ view <= view'
    BY <1>2, <1>3
  <2>3. List!Load(view', List!Blank)
    BY <1>1
  <2>2. ListTyped
    BY DEF ListInv
  <2> HIDE DEF List!server, List!shownVars
  <2> QED BY <1>4, <2>1, <2>2, <2>3, LoadTyped DEF none
<1>6. list' \in ListShown /\ list'.no = list.no /\ list'.is = "blank" /\ list'.ticks = {}
      /\ list'.rows = {} /\ list'.term = list.term
  BY <1>1 DEF ListShown, ListRows
<1>7. ListTyped'
  <2>1. list'.no \in 0..sent' /\ list'.term \in Texts
    <3>1. list.no \in 0..sent /\ list.term \in Texts
      BY <1>1 DEF ListShown
    <3>2. sent \in Nat /\ sent' = sent + 1
      BY <1>5
    <3> QED BY <1>6, <3>1, <3>2
  <2>2. labels' \in 0..List!Cardinality(Entries)
    <3>1. List!Cardinality({}) \in 0..List!Cardinality(Entries) /\ List!Cardinality({}) = 0
      BY LabelsBounded, SameCounting, FS_EmptySet
    <3> QED BY <1>1, <3>1
  <2>3. UNCHANGED <<kind, stored, lost>> /\ writes' \subseteq ListWrite
    BY <1>1 DEF ListInv, ListTyped
  <2> QED BY <1>1, <1>3, <1>5, <1>6, <2>1, <2>2, <2>3 DEF ListInv, ListTyped, List!TypeOK
<1>8. AsksForTheText'
  <2> SUFFICES ASSUME NEW l \in loads', l.no = views'[l.view].newest, ~views'[l.view].due
               PROVE  l.term = views'[l.view].box
    BY DEF AsksForTheText
  <2>1. CASE l \in loads
    <3>1. l.view \in 1..view
      BY <1>5, <2>1
    <3>2. l.view \in 1..MaxViews /\ l.view # view'
      BY <1>2, <1>3, <3>1
    <3> QED BY <1>5, <2>1, <3>2, <3>1 DEF ListInv, AsksForTheText
  <2>2. CASE l.view = view' /\ l.term = none
    BY <1>5, <2>2
  <2> QED BY <1>5, <2>1, <2>2
<1>9. \A l \in loads' : l.view = view' /\ l.no = sent' => ~l.served
  <2>1. \A l \in loads : l.no # sent'
    BY <1>5
  <2> QED BY <1>5, <2>1
<1>10. List!Cardinality({}) = 0
  BY SameCounting, FS_EmptySet
<1>11. ServedIsCurrent'
  BY <1>5, <1>6, <1>9 DEF ServedIsCurrent, List!Settled
<1>12. List!TextIsApplied'
  BY <1>6 DEF List!TextIsApplied, List!Settled
<1>13. List!LabelsAreTicked'
  BY <1>1, <1>6, <1>10 DEF List!LabelsAreTicked
<1> QED BY <1>7, <1>8, <1>11, <1>12, <1>13 DEF ListInv

\* It fails, or its answer is lost.
LEMMA WriteFailsKeeps ==
  ASSUME ListInv, NEW w \in writes, List!WriteFails(w)
  PROVE  ListInv'
<1> USE DEF List!server, List!shownVars
<1>1. /\ writes' = writes \ {w} /\ w \in ListWrite /\ lost' = (lost \/ w.served)
      /\ UNCHANGED <<kind, stored, views, view, loads, sent, List!shownVars>>
  BY DEF ListInv, ListTyped, List!WriteFails
<1>2. IsFiniteSet(writes') /\ Cardinality(writes') + view <= MaxViews
  <2>1. IsFiniteSet(writes) /\ Cardinality(writes) \in Nat /\ Cardinality(writes) + view <= MaxViews
    BY FS_CardinalityType DEF ListInv, ListTyped
  <2>2. IsFiniteSet(writes \ {w}) /\ Cardinality(writes \ {w}) = Cardinality(writes) - 1
    BY <2>1, FS_RemoveElement
  <2>3. view \in Nat /\ MaxViews \in Nat
    BY ListBounds DEF ListInv
  <2> QED BY <1>1, <2>1, <2>2, <2>3
<1>3. ListTyped'
  <2>1. lost' \in BOOLEAN
    BY <1>1 DEF ListInv, ListTyped, List!TypeOK, ListWrite
  <2> QED BY <1>1, <1>2, <2>1 DEF ListInv, ListTyped, List!TypeOK
<1>4. ServedIsCurrent'
  <2>1. ~lost' /\ (\A x \in writes' : ~x.served) => ~lost /\ \A x \in writes : ~x.served
    BY <1>1
  <2> QED BY <1>1, <2>1 DEF ListInv, ServedIsCurrent, List!Found, List!Settled
<1>5. AsksForTheText' /\ List!TextIsApplied' /\ List!LabelsAreTicked'
  BY <1>1 DEF ListInv, AsksForTheText, List!TextIsApplied, List!LabelsAreTicked, List!Settled,
     List!Ids
<1> QED BY <1>3, <1>4, <1>5 DEF ListInv

\* Every step of the list.
LEMMA ListStep == ListInv /\ List!ListNext => ListInv'
<1> SUFFICES ASSUME ListInv, List!ListNext PROVE ListInv'
  OBVIOUS
<1>1. view \in 1..MaxViews /\ views \in [1..MaxViews -> ListView] /\ MaxViews \in Nat
  BY ListBounds DEF ListInv, ListTyped
<1>2. CASE List!Loading
  BY <1>2, ServeListKeeps, ListAnsweredKeeps DEF List!Loading
<1>3. CASE List!Writing
  BY <1>3, ServeWriteKeeps, WriteAcceptedKeeps, WriteFailsKeeps DEF List!Writing
<1>4. ASSUME NEW v \in 1..view, List!TimerFires(v) PROVE ListInv'
  <2>1. v \in 1..MaxViews
    BY <1>1
  <2>2. views[v] \in ListView
    BY <1>1, <2>1
  <2> DEFINE w == [views[v] EXCEPT !.due = FALSE]
  <2>3. w \in ListView
    BY <2>2 DEF ListView
  <2>4. List!Load(v, w) /\ UNCHANGED <<List!server, view, List!shownVars>>
    BY <1>4 DEF List!TimerFires
  <2> HIDE DEF w
  <2> QED BY <2>3, <2>4, LoadKeeps
<1>5. view \in 1..view /\ views[view] \in ListView
  BY <1>1
<1>6. CASE List!Search
  <2>1. List!Load(view, views[view]) /\ UNCHANGED <<List!server, view, List!shownVars>>
    BY <1>6 DEF List!Search
  <2> QED BY <1>5, <2>1, LoadKeeps
<1>7. CASE List!ClearBox
  <2> DEFINE w == [views[view] EXCEPT !.box = ""]
  <2>1. "" \in Texts
    BY PagesAssumption DEF PagesAssumption, List!ListAssumption
  <2>2. w \in ListView
    BY <1>5, <2>1 DEF ListView
  <2>3. List!Load(view, w) /\ UNCHANGED <<List!server, view, List!shownVars>>
    BY <1>7 DEF List!ClearBox
  <2> HIDE DEF w
  <2> QED BY <1>5, <2>2, <2>3, LoadKeeps
<1>8. ASSUME NEW t \in Texts, List!Type(t) PROVE ListInv'
  BY <1>8, TypeKeeps
<1>9. ASSUME NEW e \in Entries, List!Tick(e) PROVE ListInv'
  BY <1>9, TickKeeps
<1>10. ASSUME NEW e \in Entries, List!Reactivate(e) \/ List!Create(e) PROVE ListInv'
  BY <1>10, WriteKeeps DEF List!Reactivate, List!Create
<1> QED BY <1>2, <1>3, <1>4, <1>6, <1>7, <1>8, <1>9, <1>10
        DEF List!ListNext, List!Timers, List!User

\* The list as its script starts.
LEMMA ListStart == List!ListInit => ListInv
<1> SUFFICES ASSUME List!ListInit PROVE ListInv
  OBVIOUS
<1>1. MaxViews \in Nat /\ MaxViews # 0 /\ MaxLoads \in Nat /\ MaxLoads # 0
  BY PagesAssumption DEF PagesAssumption, List!ListAssumption
<1>2. "" \in Texts
  BY PagesAssumption DEF PagesAssumption, List!ListAssumption
<1> DEFINE first == List!Request(1, 1, "")
           start == [List!Blank EXCEPT !.newest = 1, !.busy = TRUE]
<1>3. first \in ListLoad /\ first.no = 1 /\ first.view = 1 /\ ~first.served
      /\ first.term = List!Blank.box
  BY <1>2 DEF List!Request, ListLoad, ListRows, List!Blank
<1>4. List!Blank \in ListView /\ List!Blank.newest = 0
  BY <1>2 DEF List!Blank, ListView
<1>5. start \in ListView /\ start.newest = 1 /\ start.box = List!Blank.box
  BY <1>4, ViewAsked
<1>6. list \in ListShown /\ list.no = 0 /\ list.is = "blank" /\ list.ticks = {} /\ list.rows = {}
  BY <1>2 DEF List!ListInit, ListShown, ListRows
<1> HIDE DEF first, start
<1>7. /\ views = [v \in 1..MaxViews |-> IF v = 1 THEN start ELSE List!Blank]
      /\ view = 1 /\ sent = 1 /\ loads = {first} /\ writes = {} /\ lost = FALSE
      /\ kind \in {"items", "locations"} /\ pageBusy \in BOOLEAN /\ selected = {} /\ labels = 0
      /\ stored \in [Entries -> {"none", "active", "inactive"}]
  BY DEF List!ListInit, first, start
<1>8. 1 \in 1..MaxViews /\ views[1] = start /\ \A v \in 1..MaxViews : v # 1 => views[v] = List!Blank
  BY <1>1, <1>7
<1>9. views \in [1..MaxViews -> ListView]
  BY <1>4, <1>5, <1>7
<1>10. \A v \in 1..MaxViews : views[v].box \in Texts /\ views[v].newest <= sent
  <2> TAKE v \in 1..MaxViews
  <2>1. CASE v = 1
    BY <1>5, <1>7, <1>8, <2>1 DEF ListView
  <2>2. CASE v # 1
    BY <1>4, <1>7, <1>8, <2>2 DEF ListView
  <2> QED BY <2>1, <2>2
<1>11. \A v \in 1..MaxViews : v > view => views[v] = List!Blank
  BY <1>7, <1>8
<1>12. List!Cardinality({}) = 0 /\ 0 \in 0..List!Cardinality(Entries)
  BY SameCounting, FS_EmptySet, LabelsBounded
<1>13. loads \subseteq ListLoad
       /\ \A l \in loads : l.no \in 1..sent /\ l.view \in 1..view /\ l.term \in Texts
  BY <1>3, <1>7 DEF ListLoad
<1>14. List!TypeOK
  <2>1. view \in 1..MaxViews /\ sent \in 0..MaxLoads /\ list.no \in 0..sent
    BY <1>1, <1>6, <1>7
  <2>2. list.term \in Texts /\ list.is \in {"blank", "rows", "failure"}
    BY <1>6 DEF ListShown
  <2>3. selected \subseteq Entries /\ labels \in 0..List!Cardinality(Entries)
        /\ lost \in BOOLEAN
    BY <1>7, <1>12
  <2> QED BY <1>7, <1>10, <1>11, <1>13, <2>1, <2>2, <2>3 DEF List!TypeOK
<1>15. IsFiniteSet(writes) /\ Cardinality(writes) + view <= MaxViews /\ writes \subseteq ListWrite
  <2>1. IsFiniteSet(writes) /\ Cardinality(writes) = 0
    BY <1>7, FS_EmptySet
  <2> QED BY <1>1, <1>7, <2>1
<1>16. ListTyped
  BY <1>6, <1>9, <1>13, <1>14, <1>15 DEF ListTyped
<1>17. AsksForTheText
  BY <1>3, <1>5, <1>7, <1>8 DEF AsksForTheText
<1>18. ServedIsCurrent /\ List!TextIsApplied
  BY <1>3, <1>6, <1>7 DEF ServedIsCurrent, List!Settled, List!TextIsApplied
<1>19. List!LabelsAreTicked
  BY <1>6, <1>7, <1>12 DEF List!LabelsAreTicked
<1> QED BY <1>16, <1>17, <1>18, <1>19 DEF ListInv

\* A step asks for a newer list, shows the newest, or does neither.
LEMMA ListImplements ==
  ListInv /\ List!ListNext => [List!LatestList!Next]_<<views[view].newest, list.no>>
<1> DEFINE Goal == [List!LatestList!Next]_<<views[view].newest, list.no>>
<1> SUFFICES ASSUME ListInv, List!ListNext PROVE Goal
  OBVIOUS
<1> USE DEF List!LatestList!Next, List!LatestList!Ask, List!LatestList!Show, List!shownVars
<1>1. /\ view \in 1..MaxViews /\ views \in [1..MaxViews -> ListView] /\ MaxViews \in Nat
      /\ list \in ListShown
  BY ListBounds DEF ListInv, ListTyped
<1>2. views[view] \in ListView /\ views[view].newest \in Nat /\ views[view].newest <= sent
  BY <1>1 DEF ListInv, ListTyped, List!TypeOK, ListView
<1>3. sent \in Nat
  BY DEF ListInv, ListTyped, List!TypeOK
<1>4. ASSUME NEW v \in 1..MaxViews, NEW w \in ListView, List!Load(v, w), view' \in {v, view},
             view' \in 1..MaxViews, list'.no = list.no
      PROVE  Goal
  <2> DEFINE x == [w EXCEPT !.newest = sent + 1, !.busy = TRUE]
  <2>1. x \in ListView /\ x.newest = sent + 1
    <3>1. sent + 1 \in Nat
      BY <1>3
    <3> QED BY <3>1, ViewAsked
  <2> HIDE DEF x
  <2>2. views' = [views EXCEPT ![v] = x]
    BY <1>4 DEF List!Load, x
  <2>3. CASE view' = v
    BY <1>1, <1>2, <1>3, <1>4, <2>1, <2>2, <2>3
  <2>4. CASE view' # v
    BY <1>1, <1>4, <2>2, <2>4
  <2> QED BY <2>3, <2>4
<1>5. CASE List!Loading
  <2>1. PICK l \in loads : List!Serve(l) \/ List!Drop(l) \/ List!Arrive(l) \/ List!Fail(l)
    BY <1>5 DEF List!Loading
  <2>2. CASE List!Serve(l) \/ List!Drop(l)
    BY <2>2 DEF List!Serve, List!Drop
  <2>3. CASE List!Arrive(l) \/ List!Fail(l)
    <3>1. views' = [views EXCEPT ![l.view].busy = FALSE] /\ view' = view
      BY <2>3 DEF List!Arrive, List!Fail
    <3>2. views'[view].newest = views[view].newest
      <4>1. views'[view] = IF view = l.view THEN [views[view] EXCEPT !.busy = FALSE] ELSE views[view]
        BY <1>1, <3>1
      <4> QED BY <1>2, <4>1 DEF ListView
    <3>3. \/ list'.no = list.no
          \/ l.view = view /\ l.no = views[view].newest /\ list'.no = l.no
      <4>1. CASE l.view = view
        <5>1. list'.no = l.no /\ List!IsNewest(l)
          BY <2>3, <4>1 DEF List!Arrive, List!Fail, List!Rows
        <5> QED BY <4>1, <5>1 DEF List!IsNewest
      <4>2. CASE l.view # view
        <5>1. list' = list
          BY <2>3, <4>2 DEF List!Arrive, List!Fail
        <5> QED BY <5>1
      <4> QED BY <4>1, <4>2
    <3> QED BY <3>1, <3>2, <3>3
  <2> QED BY <2>1, <2>2, <2>3
<1>6. CASE List!Writing
  <2>1. PICK w \in writes : List!ServeWrite(w) \/ List!WriteAccepted(w) \/ List!WriteFails(w)
    BY <1>6 DEF List!Writing
  <2>2. CASE List!ServeWrite(w) \/ List!WriteFails(w)
    BY <2>2 DEF List!ServeWrite, List!WriteFails
  <2>3. CASE List!WriteAccepted(w)
    <3>1. List!Load(view + 1, List!Blank) /\ view' = view + 1 /\ list'.no = list.no
      BY <1>1, <2>3 DEF List!WriteAccepted, List!Render, ListShown
    <3>2. view' \in 1..MaxViews
      <4>1. ListInv'
        BY <2>3, WriteAcceptedKeeps
      <4> QED BY <4>1 DEF ListInv, ListTyped, List!TypeOK
    <3>3. List!Blank \in ListView
      <4>1. "" \in Texts
        BY PagesAssumption DEF PagesAssumption, List!ListAssumption
      <4> QED BY <4>1 DEF List!Blank, ListView
    <3> QED BY <1>4, <3>1, <3>2, <3>3
  <2> QED BY <2>1, <2>2, <2>3
<1>7. ASSUME NEW v \in 1..view, List!TimerFires(v) PROVE Goal
  <2>1. v \in 1..MaxViews
    BY <1>1
  <2>2. views[v] \in ListView
    BY <1>1, <2>1
  <2> DEFINE w == [views[v] EXCEPT !.due = FALSE]
  <2>3. w \in ListView
    BY <2>2 DEF ListView
  <2>4. List!Load(v, w) /\ view' = view /\ list' = list
    BY <1>7 DEF List!TimerFires
  <2> HIDE DEF w, Goal
  <2> QED BY <1>1, <1>4, <2>1, <2>3, <2>4
<1>8. CASE List!Search
  <2> HIDE DEF Goal
  <2> QED BY <1>1, <1>2, <1>4, <1>8 DEF List!Search
<1>9. CASE List!ClearBox
  <2> DEFINE w == [views[view] EXCEPT !.box = ""]
  <2>1. "" \in Texts
    BY PagesAssumption DEF PagesAssumption, List!ListAssumption
  <2>2. w \in ListView
    BY <1>2, <2>1 DEF ListView
  <2>3. List!Load(view, w) /\ view' = view /\ list' = list
    BY <1>9 DEF List!ClearBox
  <2> HIDE DEF w, Goal
  <2> QED BY <1>1, <1>4, <2>2, <2>3
<1>10. ASSUME NEW t \in Texts, List!Type(t) PROVE Goal
  <2>1. views' = [views EXCEPT ![view].box = t, ![view].due = TRUE] /\ view' = view /\ list' = list
    BY <1>10 DEF List!Type
  <2>2. views'[view].newest = views[view].newest
    BY <1>1, <1>2, <2>1 DEF ListView
  <2> QED BY <2>1, <2>2
<1>11. ASSUME NEW e \in Entries, List!Tick(e) PROVE Goal
  <2>1. views' = views /\ view' = view /\ list'.no = list.no
    BY <1>1, <1>11 DEF List!Tick, ListShown
  <2> QED BY <2>1
<1>12. ASSUME NEW e \in Entries, List!Reactivate(e) \/ List!Create(e) PROVE Goal
  BY <1>12 DEF List!Reactivate, List!Create, List!Write
<1> QED BY <1>5, <1>6, <1>7, <1>8, <1>9, <1>10, <1>11, <1>12
        DEF List!ListNext, List!Timers, List!User

--------------------------------------------------------------------------------
\* The page of one item or one location.

\* Two rows that differ in their photo at most.
SameRow(r, q) == r.name = q.name /\ r.active = q.active /\ r.star = q.star
\* A write asks for a row and is answered without one, but for a photo; a load brings one.
DetailCall ==
  UNION {{Detail!Idle},
         [op: {"fields", "active", "star", "photo"}, put: Detail!Row, st: {"sent"}, here: BOOLEAN],
         [op: {"fields", "active", "star"}, put: {Detail!Unread}, st: {"ok"}, here: BOOLEAN],
         [op: {"photo"}, put: Detail!Row, st: {"ok"}, here: BOOLEAN],
         [op: {"load"}, put: {Detail!Unread}, st: {"sent"}, here: BOOLEAN],
         [op: {"load"}, put: Detail!Row, st: {"ok"}, here: BOOLEAN]}
DetailTyped == /\ Detail!TypeOK
               /\ calls \in [Detail!Slots -> DetailCall]
               /\ edit \in Detail!Row \cup {Detail!Closed}
AloneWhenClean ==
  clean => \A s, t \in Detail!Slots : calls[s].op # "none" /\ calls[t].op # "none" => s = t
\* What an answered call of a clean page brings is what the server holds.
CleanAnswersAreTrue ==
  clean => \A s \in Detail!Slots :
    /\ calls[s].op = "photo" => calls[s].here = TRUE
    /\ calls[s].op = "load" /\ calls[s].st = "ok" => calls[s].put = entity
    /\ panel = "entity" /\ calls[s].op = "photo" /\ calls[s].st = "ok"
         => SameRow(entity, shown) /\ calls[s].put.photo = entity.photo
\* The call has changed nothing yet that the page does not show.
Unserved(c) == c.op = "none" \/ (c.st = "sent" /\ c.op # "load")
CleanPageIsTrue ==
  clean /\ panel = "entity" /\ (\A s \in Detail!Slots : Unserved(calls[s]))
    => SameRow(entity, shown) /\ picture = entity.photo
DetailInv == DetailTyped /\ AloneWhenClean /\ CleanAnswersAreTrue /\ CleanPageIsTrue

LEMMA SameRowIsEnough ==
  ASSUME NEW r \in Detail!Row, NEW q \in Detail!Row, SameRow(r, q)
  PROVE  [r EXCEPT !.photo = q.photo] = q
<1>1. [r EXCEPT !.photo = q.photo] \in Detail!Row
  BY DEF Detail!Row
<1> QED BY <1>1 DEF Detail!Row, SameRow

LEMMA CallKinds ==
  ASSUME NEW c \in DetailCall
  PROVE  /\ c.op \in Detail!Ops \cup {"none"}
         /\ c.op = "none" <=> c = Detail!Idle
         /\ c.op # "none" => c.st \in {"sent", "ok"} /\ c.here \in BOOLEAN
         /\ c.op \in {"fields", "active", "star", "photo"} /\ c.st = "sent" => c.put \in Detail!Row
         /\ c.op \in {"load", "photo"} /\ c.st = "ok" => c.put \in Detail!Row
BY DEF DetailCall, Detail!Ops, Detail!Idle

LEMMA CallServed ==
  ASSUME NEW c \in DetailCall, c.op # "none", c.st = "sent", NEW r \in Detail!Row
  PROVE  LET x == [c EXCEPT !.st = "ok",
                            !.put = IF c.op \in {"load", "photo"} THEN r ELSE Detail!Unread]
         IN  /\ x \in DetailCall /\ x.op = c.op /\ x.st = "ok" /\ x.here = c.here
             /\ c.op \in {"load", "photo"} => x.put = r
<1>1. c \in [op: Detail!Ops, put: Detail!Row \cup {Detail!Unread}, st: {"sent"}, here: BOOLEAN]
  BY DEF DetailCall, Detail!Idle, Detail!Ops
<1> DEFINE q == IF c.op \in {"load", "photo"} THEN r ELSE Detail!Unread
           x == [c EXCEPT !.st = "ok", !.put = q]
<1>2. x \in [op: {c.op}, put: {q}, st: {"ok"}, here: {c.here}]
  BY <1>1
<1>3. c.op \in Detail!Ops /\ c.here \in BOOLEAN
  BY <1>1
<1> HIDE DEF x
<1>4. x \in DetailCall
  BY <1>2, <1>3 DEF DetailCall, Detail!Ops
<1>5. /\ x.op = c.op /\ x.st = "ok" /\ x.here = c.here
      /\ c.op \in {"load", "photo"} => x.put = r
  BY <1>2
<1> QED BY <1>4, <1>5 DEF x

LEMMA CallAway ==
  ASSUME NEW c \in DetailCall, c.op # "none"
  PROVE  LET x == [c EXCEPT !.here = FALSE]
         IN  x \in DetailCall /\ x.op = c.op /\ x.st = c.st /\ x.put = c.put
<1>1. /\ c \in [op: Detail!Ops, put: Detail!Row \cup {Detail!Unread}, st: {"sent", "ok"},
                here: BOOLEAN]
      /\ c.op \in {"fields", "active", "star"} /\ c.st = "ok" => c.put = Detail!Unread
      /\ c.op \in {"fields", "active", "star", "photo"} /\ c.st = "sent" => c.put \in Detail!Row
      /\ c.op = "photo" /\ c.st = "ok" => c.put \in Detail!Row
      /\ c.op = "load" /\ c.st = "sent" => c.put = Detail!Unread
      /\ c.op = "load" /\ c.st = "ok" => c.put \in Detail!Row
  BY DEF DetailCall, Detail!Idle, Detail!Ops
<1> DEFINE x == [c EXCEPT !.here = FALSE]
<1>2. x \in [op: {c.op}, put: {c.put}, st: {c.st}, here: {FALSE}]
  BY <1>1
<1>3. c.op \in Detail!Ops /\ c.st \in {"sent", "ok"}
  BY <1>1
<1> HIDE DEF x
<1>4. x \in DetailCall
  <2>1. CASE c.st = "sent"
    BY <1>1, <1>2, <1>3, <2>1 DEF DetailCall, Detail!Ops
  <2>2. CASE c.st = "ok"
    BY <1>1, <1>2, <1>3, <2>2 DEF DetailCall, Detail!Ops
  <2> QED BY <1>3, <2>1, <2>2
<1>5. x.op = c.op /\ x.st = c.st /\ x.put = c.put
  BY <1>2
<1> QED BY <1>4, <1>5 DEF x

LEMMA CallNew ==
  /\ Detail!Idle \in DetailCall /\ Detail!Idle.op = "none"
  /\ \A op \in {"fields", "active", "star", "photo"}, r \in Detail!Row :
       LET x == Detail!Call(op, r)
       IN  x \in DetailCall /\ x.op = op /\ x.st = "sent" /\ x.here = TRUE
  /\ LET x == Detail!Call("load", Detail!Unread)
     IN  x \in DetailCall /\ x.op = "load" /\ x.st = "sent"
BY DEF DetailCall, Detail!Idle, Detail!Call

LEMMA WrittenKeeps ==
  ASSUME NEW c \in DetailCall, c.op # "none", c.st = "sent", entity \in Detail!Row
  PROVE  /\ Detail!Written(c) \in Detail!Row
         /\ c.op = "load" => Detail!Written(c) = entity
         /\ c.op = "photo" => SameRow(Detail!Written(c), entity)
<1>1. c.op \in {"fields", "active", "star", "photo"} => c.put \in Detail!Row
  BY CallKinds
<1>2. c.op \in {"fields", "active", "star", "photo", "load"}
  BY CallKinds DEF Detail!Ops
<1>3. CASE c.op = "fields"
  BY <1>1, <1>3 DEF Detail!Written, Detail!Row
<1>4. CASE c.op = "active"
  BY <1>1, <1>4 DEF Detail!Written, Detail!Row
<1>5. CASE c.op = "star"
  BY <1>1, <1>5 DEF Detail!Written, Detail!Row
<1>6. CASE c.op = "photo"
  BY <1>1, <1>6 DEF Detail!Written, Detail!Row, SameRow
<1>7. CASE c.op = "load"
  BY <1>7 DEF Detail!Written
<1> QED BY <1>2, <1>3, <1>4, <1>5, <1>6, <1>7

\* What the answer to a call brings is the row as the call left it.
LEMMA ServeDetailKeeps ==
  ASSUME DetailInv, NEW s \in Detail!Slots, Detail!Serve(s)
  PROVE  DetailInv'
<1> DEFINE c == calls[s]
           x == [c EXCEPT !.st = "ok",
                          !.put = IF c.op \in {"load", "photo"} THEN entity' ELSE Detail!Unread]
<1>1. /\ calls \in [Detail!Slots -> DetailCall] /\ entity \in Detail!Row /\ shown \in Detail!Row
      /\ c \in DetailCall
  BY DEF DetailInv, DetailTyped, Detail!TypeOK
<1>2. /\ c.op # "none" /\ c.st = "sent" /\ entity' = Detail!Written(c)
      /\ UNCHANGED <<what, panel, shown, picture, edit, waiting, clean>>
  BY DEF Detail!Serve
<1>3. calls' = [calls EXCEPT ![s] = x]
  BY <1>1 DEF Detail!Serve
<1>4. /\ entity' \in Detail!Row
      /\ c.op = "load" => entity' = entity
      /\ c.op = "photo" => SameRow(entity', entity)
  BY <1>1, <1>2, WrittenKeeps
<1>5. /\ x \in DetailCall /\ x.op = c.op /\ x.st = "ok" /\ x.here = c.here
      /\ c.op \in {"load", "photo"} => x.put = entity'
  BY <1>1, <1>2, <1>4, CallServed
<1> HIDE DEF x
<1>6. /\ calls' \in [Detail!Slots -> DetailCall]
      /\ calls'[s] = x
      /\ \A t \in Detail!Slots : calls'[t].op = calls[t].op /\ (t # s => calls'[t] = calls[t])
  BY <1>1, <1>3, <1>5
<1>7. DetailTyped'
  <2>1. \A t \in Detail!Slots : calls'[t].op \in Detail!Ops \cup {"none"}
    BY <1>6, CallKinds
  <2> QED BY <1>2, <1>4, <1>6, <2>1 DEF DetailInv, DetailTyped, Detail!TypeOK, Detail!HasRow
<1>8. AloneWhenClean'
  BY <1>2, <1>6 DEF DetailInv, AloneWhenClean
<1>9. ASSUME clean PROVE \A t \in Detail!Slots \ {s} : calls'[t].op = "none"
  BY <1>2, <1>6, <1>9 DEF DetailInv, AloneWhenClean
<1>10. CleanAnswersAreTrue'
  <2>1. CASE ~clean
    BY <1>2, <2>1 DEF CleanAnswersAreTrue
  <2> SUFFICES ASSUME clean
               PROVE  /\ x.op = "photo" => x.here = TRUE
                      /\ x.op = "load" => x.put = entity'
                      /\ panel = "entity" /\ x.op = "photo"
                           => SameRow(entity', shown) /\ x.put.photo = entity'.photo
    BY <1>2, <1>6, <1>9, <2>1 DEF CleanAnswersAreTrue
  <2>2. x.op = "photo" => x.here = TRUE
    BY <1>5, <1>2 DEF DetailInv, CleanAnswersAreTrue
  <2>3. x.op = "load" => x.put = entity'
    BY <1>5
  <2>4. panel = "entity" /\ x.op = "photo" => SameRow(entity', shown) /\ x.put.photo = entity'.photo
    <3>1. \A t \in Detail!Slots \ {s} : calls[t].op = "none"
      BY <1>6, <1>9
    <3>2. x.op = "photo" => \A t \in Detail!Slots : Unserved(calls[t])
      BY <1>2, <1>5, <3>1 DEF Unserved
    <3> QED BY <1>4, <1>5, <3>2 DEF DetailInv, CleanPageIsTrue, SameRow
  <2> QED BY <2>2, <2>3, <2>4
<1>11. CleanPageIsTrue'
  <2>1. ~Unserved(calls'[s])
    BY <1>2, <1>5, <1>6 DEF Unserved
  <2> QED BY <2>1 DEF CleanPageIsTrue, Unserved
<1> QED BY <1>7, <1>8, <1>10, <1>11 DEF DetailInv

LEMMA FreedKeeps ==
  ASSUME calls \in [Detail!Slots -> DetailCall], NEW s \in Detail!Slots
  PROVE  /\ Detail!Freed(s) \in [Detail!Slots -> DetailCall]
         /\ Detail!Freed(s)[s] = Detail!Idle
         /\ \A t \in Detail!Slots \ {s} :
              /\ Detail!Freed(s)[t].op = calls[t].op
              /\ calls[t].op # "photo" => Detail!Freed(s)[t] = calls[t]
<1>1. Detail!Idle \in DetailCall
  BY CallNew
<1>2. ASSUME NEW t \in Detail!Slots, t # s, calls[t].op = "photo"
      PROVE  /\ Detail!Freed(s)[t] \in DetailCall
             /\ Detail!Freed(s)[t].op = calls[t].op
  <2>1. Detail!Freed(s)[t] = [calls[t] EXCEPT !.here = FALSE]
    BY <1>2 DEF Detail!Freed
  <2>2. calls[t] \in DetailCall /\ calls[t].op # "none"
    BY <1>2
  <2> QED BY <2>1, <2>2, CallAway
<1>3. ASSUME NEW t \in Detail!Slots, t # s, calls[t].op # "photo"
      PROVE  Detail!Freed(s)[t] = calls[t]
  BY <1>3 DEF Detail!Freed
<1>4. Detail!Freed(s)[s] = Detail!Idle
  BY DEF Detail!Freed
<1>5. \A t \in Detail!Slots : Detail!Freed(s)[t] \in DetailCall
  BY <1>1, <1>2, <1>3, <1>4
<1>6. Detail!Freed(s) \in [Detail!Slots -> DetailCall]
  BY <1>5 DEF Detail!Freed
<1> QED BY <1>2, <1>3, <1>4, <1>6

LEMMA DetailTypedOn ==
  ASSUME DetailTyped, calls' \in [Detail!Slots -> DetailCall], what' = what,
         entity' \in Detail!Row, shown' \in Detail!Row,
         panel' \in {"blank", "entity", "error", "failed"}, ~Detail!HasRow' => edit' = Detail!Closed,
         picture' \in Photos \cup {NoPhoto}, {waiting', clean'} \subseteq BOOLEAN,
         edit' \in Detail!Row \cup {Detail!Closed},
         \A t \in Detail!Slots : calls'[t].op = "photo" => what = "item",
         \A t \in Detail!Slots : calls'[t].op = "star" => what = "location"
  PROVE  DetailTyped'
<1>1. \A t \in Detail!Slots : calls'[t].op \in Detail!Ops \cup {"none"}
  BY CallKinds
<1>2. DOMAIN calls' = Detail!Slots
  OBVIOUS
<1> QED BY <1>1, <1>2 DEF DetailTyped, Detail!TypeOK

LEMMA LoadArrivesKeeps ==
  ASSUME DetailInv, NEW s \in Detail!Slots, Detail!LoadArrives(s) \/ Detail!LoadFails(s)
  PROVE  DetailInv'
<1>1. /\ calls \in [Detail!Slots -> DetailCall] /\ entity \in Detail!Row /\ shown \in Detail!Row
      /\ picture \in Photos \cup {NoPhoto} /\ calls[s] \in DetailCall /\ clean \in BOOLEAN
      /\ edit \in Detail!Row \cup {Detail!Closed}
  BY DEF DetailInv, DetailTyped, Detail!TypeOK
<1>2. /\ calls[s].op = "load" /\ calls' = Detail!Freed(s)
      /\ what' = what /\ entity' = entity /\ edit' = edit /\ clean' = clean /\ waiting' = FALSE
  BY DEF Detail!LoadArrives, Detail!LoadFails, Detail!Painted
<1>3. \/ /\ calls[s].st = "ok" /\ panel' = "entity" /\ shown' = calls[s].put
         /\ picture' = calls[s].put.photo
      \/ /\ panel' = IF Detail!HasRow THEN "error" ELSE "failed"
         /\ shown' = shown /\ picture' = picture
  BY DEF Detail!LoadArrives, Detail!LoadFails, Detail!Painted
<1>4. shown' \in Detail!Row /\ picture' \in Photos \cup {NoPhoto}
  <2>1. calls[s].st = "ok" => calls[s].put \in Detail!Row
    BY <1>1, <1>2, CallKinds
  <2> QED BY <1>1, <1>3, <2>1 DEF Detail!Row
<1>5. /\ calls' \in [Detail!Slots -> DetailCall] /\ calls'[s] = Detail!Idle
      /\ \A t \in Detail!Slots \ {s} : calls'[t].op = calls[t].op
  BY <1>1, <1>2, FreedKeeps
<1>6. DetailTyped'
  <2>1. \A t \in Detail!Slots : calls'[t].op = "photo" => what = "item"
    BY <1>5, CallNew DEF DetailInv, DetailTyped, Detail!TypeOK
  <2>2. \A t \in Detail!Slots : calls'[t].op = "star" => what = "location"
    BY <1>5, CallNew DEF DetailInv, DetailTyped, Detail!TypeOK
  <2>3. panel' \in {"entity", "error", "failed"} /\ (~Detail!HasRow' => edit' = Detail!Closed)
    BY <1>2, <1>3 DEF DetailInv, DetailTyped, Detail!TypeOK, Detail!HasRow
  <2> QED BY <1>1, <1>2, <1>4, <1>5, <2>1, <2>2, <2>3, DetailTypedOn DEF DetailInv
<1>7. clean => \A t \in Detail!Slots : calls'[t].op = "none"
  <2>1. clean => \A t \in Detail!Slots \ {s} : calls[t].op = "none"
    BY <1>2 DEF DetailInv, AloneWhenClean
  <2> QED BY <1>5, <2>1, CallNew
<1>8. AloneWhenClean' /\ CleanAnswersAreTrue'
  BY <1>2, <1>7 DEF AloneWhenClean, CleanAnswersAreTrue
<1>9. CleanPageIsTrue'
  <2>1. clean /\ calls[s].st = "ok" => calls[s].put = entity
    BY <1>2 DEF DetailInv, CleanAnswersAreTrue
  <2> QED BY <1>2, <1>3, <2>1 DEF CleanPageIsTrue, SameRow
<1> QED BY <1>6, <1>8, <1>9 DEF DetailInv

\* A call is in its slot from now on.
LEMMA SlotTaken ==
  ASSUME calls \in [Detail!Slots -> DetailCall], NEW s \in Detail!Slots, NEW x \in DetailCall,
         calls' = [calls EXCEPT ![s] = x]
  PROVE  /\ calls' \in [Detail!Slots -> DetailCall] /\ calls'[s] = x
         /\ \A t \in Detail!Slots \ {s} : calls'[t] = calls[t]
OBVIOUS

LEMMA OthersOf ==
  ASSUME calls \in [Detail!Slots -> DetailCall], NEW s \in Detail!Slots
  PROVE  ~Detail!Others(s) <=> \A t \in Detail!Slots \ {s} : calls[t].op = "none"
BY CallKinds DEF Detail!Others

LEMMA WriteAcceptedDetailKeeps ==
  ASSUME DetailInv, NEW s \in Detail!Slots, Detail!WriteAccepted(s)
  PROVE  DetailInv'
<1> DEFINE x == Detail!Call("load", Detail!Unread)
<1>1. /\ calls \in [Detail!Slots -> DetailCall] /\ entity \in Detail!Row /\ shown \in Detail!Row
      /\ picture \in Photos \cup {NoPhoto} /\ waiting \in BOOLEAN
      /\ edit \in Detail!Row \cup {Detail!Closed}
      /\ panel \in {"blank", "entity", "error", "failed"} /\ (~Detail!HasRow => edit = Detail!Closed)
  BY DEF DetailInv, DetailTyped, Detail!TypeOK
<1>2. /\ calls' = [calls EXCEPT ![s] = x] /\ edit' \in {edit, Detail!Closed}
      /\ waiting' = (what = "item" \/ waiting) /\ clean' = ~Detail!Others(s)
      /\ what' = what /\ entity' = entity /\ panel' = panel /\ shown' = shown
      /\ picture' = picture
  BY DEF Detail!WriteAccepted
<1>3. x \in DetailCall /\ x.op = "load" /\ x.st = "sent"
  BY CallNew
<1> HIDE DEF x
<1>4. /\ calls' \in [Detail!Slots -> DetailCall] /\ calls'[s] = x
      /\ \A t \in Detail!Slots \ {s} : calls'[t] = calls[t]
  BY <1>1, <1>2, <1>3, SlotTaken
<1>5. DetailTyped'
  <2>1. \A t \in Detail!Slots : calls'[t].op = "photo" => what = "item"
    BY <1>3, <1>4 DEF DetailInv, DetailTyped, Detail!TypeOK
  <2>2. \A t \in Detail!Slots : calls'[t].op = "star" => what = "location"
    BY <1>3, <1>4 DEF DetailInv, DetailTyped, Detail!TypeOK
  <2>3. clean' \in BOOLEAN /\ waiting' \in BOOLEAN
    BY <1>2
  <2>4. ~Detail!HasRow' => edit' = Detail!Closed
    BY <1>1, <1>2 DEF Detail!HasRow
  <2> QED BY <1>1, <1>2, <1>4, <2>1, <2>2, <2>3, <2>4, DetailTypedOn DEF DetailInv
<1>6. clean' => \A t \in Detail!Slots \ {s} : calls'[t].op = "none"
  BY <1>1, <1>2, <1>4, OthersOf
<1>7. AloneWhenClean'
  BY <1>6 DEF AloneWhenClean
<1>8. CleanAnswersAreTrue'
  BY <1>3, <1>4, <1>6 DEF CleanAnswersAreTrue
<1>9. CleanPageIsTrue'
  BY <1>3, <1>4 DEF CleanPageIsTrue, Unserved
<1> QED BY <1>5, <1>7, <1>8, <1>9 DEF DetailInv

\* A photo's answer paints its box, an error nothing: either way the slot is free.
LEMMA SlotFreedKeeps ==
  ASSUME DetailInv, NEW s \in Detail!Slots, Detail!PhotoAccepted(s) \/ Detail!WriteFails(s)
  PROVE  DetailInv'
<1> DEFINE x == Detail!Idle
<1>1. /\ calls \in [Detail!Slots -> DetailCall] /\ entity \in Detail!Row /\ shown \in Detail!Row
      /\ picture \in Photos \cup {NoPhoto} /\ waiting \in BOOLEAN /\ calls[s] \in DetailCall
      /\ edit \in Detail!Row \cup {Detail!Closed} /\ clean \in BOOLEAN
      /\ panel \in {"blank", "entity", "error", "failed"} /\ (~Detail!HasRow => edit = Detail!Closed)
  BY DEF DetailInv, DetailTyped, Detail!TypeOK
<1>2. /\ calls' = [calls EXCEPT ![s] = x] /\ calls[s].op # "none"
      /\ what' = what /\ entity' = entity /\ panel' = panel /\ shown' = shown
      /\ edit' = edit /\ waiting' = waiting
  BY DEF Detail!PhotoAccepted, Detail!WriteFails, Detail!Ops
<1>3. \/ /\ calls[s].op = "photo" /\ calls[s].st = "ok" /\ clean' = clean
         /\ picture' = IF calls[s].here THEN calls[s].put.photo ELSE picture
      \/ /\ calls[s].op # "load" /\ picture' = picture /\ clean' = (clean /\ calls[s].st = "sent")
  BY DEF Detail!PhotoAccepted, Detail!WriteFails, Detail!Ops
<1>4. x \in DetailCall /\ x.op = "none"
  BY CallNew
<1> HIDE DEF x
<1>5. /\ calls' \in [Detail!Slots -> DetailCall] /\ calls'[s] = x
      /\ \A t \in Detail!Slots \ {s} : calls'[t] = calls[t]
  BY <1>1, <1>2, <1>4, SlotTaken
<1>6. picture' \in Photos \cup {NoPhoto} /\ clean' \in BOOLEAN /\ (clean' => clean)
  <2>1. calls[s].op = "photo" /\ calls[s].st = "ok" => calls[s].put \in Detail!Row
    BY <1>1, CallKinds
  <2>2. picture' \in Photos \cup {NoPhoto}
    BY <1>1, <1>3, <2>1 DEF Detail!Row
  <2>3. clean' = clean \/ clean' = (clean /\ calls[s].st = "sent")
    BY <1>3
  <2>4. ASSUME NEW b \in BOOLEAN, clean' = (clean /\ b)
        PROVE  clean' \in BOOLEAN /\ (clean' => clean)
    BY <2>4
  <2>5. ASSUME clean' = clean PROVE clean' \in BOOLEAN /\ (clean' => clean)
    BY <1>1, <2>5
  <2> QED BY <2>2, <2>3, <2>4, <2>5
<1>7. DetailTyped'
  <2>1. \A t \in Detail!Slots : calls'[t].op = "photo" => what = "item"
    BY <1>4, <1>5 DEF DetailInv, DetailTyped, Detail!TypeOK
  <2>2. \A t \in Detail!Slots : calls'[t].op = "star" => what = "location"
    BY <1>4, <1>5 DEF DetailInv, DetailTyped, Detail!TypeOK
  <2> QED BY <1>1, <1>2, <1>5, <1>6, <2>1, <2>2, DetailTypedOn DEF DetailInv, Detail!HasRow
<1>8. clean => \A t \in Detail!Slots : calls'[t].op = "none"
  BY <1>2, <1>4, <1>5 DEF DetailInv, AloneWhenClean
<1>9. AloneWhenClean' /\ CleanAnswersAreTrue'
  BY <1>6, <1>8 DEF AloneWhenClean, CleanAnswersAreTrue
<1>10. CleanPageIsTrue'
  <2> SUFFICES ASSUME clean', panel = "entity"
               PROVE  SameRow(entity, shown) /\ picture' = entity.photo
    BY <1>2 DEF CleanPageIsTrue
  <2>1. CASE calls[s].op = "photo" /\ calls[s].st = "ok"
    <3>1. clean
      BY <1>6
    <3>2. /\ calls[s].here = TRUE /\ SameRow(entity, shown)
          /\ calls[s].put.photo = entity.photo
      BY <2>1, <3>1 DEF DetailInv, CleanAnswersAreTrue
    <3>3. picture' = calls[s].put.photo
      <4>1. CASE clean' = clean /\ picture' = IF calls[s].here THEN calls[s].put.photo ELSE picture
        BY <3>2, <4>1
      <4>2. CASE clean' = (clean /\ calls[s].st = "sent")
        BY <2>1, <4>2
      <4> QED BY <1>3, <4>1, <4>2
    <3> QED BY <3>2, <3>3
  <2>2. CASE ~(calls[s].op = "photo" /\ calls[s].st = "ok")
    <3>1. clean /\ calls[s].st = "sent" /\ calls[s].op # "load" /\ picture' = picture
      BY <1>3, <2>2
    <3>2. \A t \in Detail!Slots \ {s} : calls[t].op = "none"
      BY <1>2, <3>1 DEF DetailInv, AloneWhenClean
    <3>3. \A t \in Detail!Slots : Unserved(calls[t])
      BY <3>1, <3>2 DEF Unserved
    <3> QED BY <3>1, <3>3 DEF DetailInv, CleanPageIsTrue
  <2> QED BY <2>1, <2>2
<1> QED BY <1>7, <1>9, <1>10 DEF DetailInv

\* The user sends a call of what the page allows him.
LEMMA SendKeeps ==
  ASSUME DetailInv, NEW op \in Detail!Ops, NEW put,
         op # "load" => put \in Detail!Row, op = "load" => put = Detail!Unread /\ panel # "entity",
         op = "photo" => what = "item", op = "star" => what = "location",
         Detail!Send(op, put), waiting' \in BOOLEAN,
         UNCHANGED <<what, entity, panel, shown, picture, edit>>
  PROVE  DetailInv'
<1> DEFINE x == Detail!Call(op, put)
<1>1. /\ calls \in [Detail!Slots -> DetailCall] /\ entity \in Detail!Row /\ shown \in Detail!Row
      /\ picture \in Photos \cup {NoPhoto} /\ clean \in BOOLEAN
      /\ edit \in Detail!Row \cup {Detail!Closed}
      /\ panel \in {"blank", "entity", "error", "failed"} /\ (~Detail!HasRow => edit = Detail!Closed)
  BY DEF DetailInv, DetailTyped, Detail!TypeOK
<1>2. PICK s \in Detail!Slots : /\ calls[s] = Detail!Idle
                                /\ calls' = [calls EXCEPT ![s] = x]
                                /\ clean' = (~Detail!Others(s) /\ (clean \/ op = "load"))
  BY DEF Detail!Send
<1>3. /\ x \in DetailCall /\ x.op = op /\ x.st = "sent"
      /\ op = "photo" => x.here = TRUE
  BY CallNew DEF Detail!Ops
<1> HIDE DEF x
<1>4. /\ calls' \in [Detail!Slots -> DetailCall] /\ calls'[s] = x
      /\ \A t \in Detail!Slots \ {s} : calls'[t] = calls[t]
  BY <1>1, <1>2, <1>3, SlotTaken
<1>5. DetailTyped'
  <2>1. \A t \in Detail!Slots : calls'[t].op = "photo" => what = "item"
    BY <1>3, <1>4 DEF DetailInv, DetailTyped, Detail!TypeOK
  <2>2. \A t \in Detail!Slots : calls'[t].op = "star" => what = "location"
    BY <1>3, <1>4 DEF DetailInv, DetailTyped, Detail!TypeOK
  <2>3. {waiting', clean'} \subseteq BOOLEAN /\ DetailTyped /\ what' = what
    BY <1>2 DEF DetailInv
  <2>4. /\ entity' \in Detail!Row /\ shown' \in Detail!Row
        /\ panel' \in {"blank", "entity", "error", "failed"} /\ (~Detail!HasRow' => edit' = Detail!Closed)
        /\ picture' \in Photos \cup {NoPhoto} /\ edit' \in Detail!Row \cup {Detail!Closed}
    BY <1>1 DEF Detail!HasRow
  <2> QED BY ONLY <1>4, <2>1, <2>2, <2>3, <2>4, DetailTypedOn
<1>6. clean' => \A t \in Detail!Slots : calls[t].op = "none"
  <2>1. calls[s].op = "none"
    BY <1>2, CallNew
  <2>2. clean' => ~Detail!Others(s)
    BY <1>2
  <2> QED BY <1>1, <2>1, <2>2, OthersOf
<1>7. AloneWhenClean'
  BY <1>4, <1>6 DEF AloneWhenClean
<1>8. CleanAnswersAreTrue'
  BY <1>3, <1>4, <1>6 DEF CleanAnswersAreTrue
<1>9. CleanPageIsTrue'
  <2> SUFFICES ASSUME clean', panel = "entity"
               PROVE  SameRow(entity, shown) /\ picture = entity.photo
    BY DEF CleanPageIsTrue
  <2>1. clean
    BY <1>2
  <2>2. \A t \in Detail!Slots : Unserved(calls[t])
    BY <1>6 DEF Unserved
  <2> QED BY <2>1, <2>2 DEF DetailInv, CleanPageIsTrue
<1> QED BY <1>5, <1>7, <1>8, <1>9 DEF DetailInv

LEMMA CloseEditKeeps ==
  ASSUME DetailInv, Detail!CloseEdit
  PROVE  DetailInv'
<1>1. /\ calls \in [Detail!Slots -> DetailCall] /\ entity \in Detail!Row /\ shown \in Detail!Row
      /\ picture \in Photos \cup {NoPhoto} /\ clean \in BOOLEAN /\ waiting \in BOOLEAN
      /\ panel \in {"blank", "entity", "error", "failed"}
  BY DEF DetailInv, DetailTyped, Detail!TypeOK
<1>2. /\ calls' = [s \in Detail!Slots |-> IF calls[s].op = "fields"
                                          THEN [calls[s] EXCEPT !.here = FALSE] ELSE calls[s]]
      /\ edit' = Detail!Closed
      /\ UNCHANGED <<what, entity, panel, shown, picture, waiting, clean>>
  BY DEF Detail!CloseEdit
<1>3. ASSUME NEW t \in Detail!Slots
      PROVE  /\ calls'[t] \in DetailCall
             /\ calls'[t].op = calls[t].op /\ Unserved(calls'[t]) = Unserved(calls[t])
             /\ calls[t].op # "fields" => calls'[t] = calls[t]
  <2>1. CASE calls[t].op = "fields"
    <3>1. calls'[t] = [calls[t] EXCEPT !.here = FALSE] /\ calls[t] \in DetailCall
      BY <1>1, <1>2, <2>1
    <3>2. /\ calls'[t] \in DetailCall /\ calls'[t].op = calls[t].op
          /\ calls'[t].st = calls[t].st
      BY <2>1, <3>1, CallAway
    <3> QED BY <2>1, <3>2 DEF Unserved
  <2>2. CASE calls[t].op # "fields"
    BY <1>1, <1>2, <2>2
  <2> QED BY <2>1, <2>2
<1>4. calls' \in [Detail!Slots -> DetailCall]
  BY <1>2, <1>3
<1>5. DetailTyped'
  BY <1>1, <1>2, <1>3, <1>4, DetailTypedOn DEF DetailInv, DetailTyped, Detail!TypeOK
<1>6. AloneWhenClean'
  BY <1>2, <1>3 DEF DetailInv, AloneWhenClean
<1>7. CleanAnswersAreTrue'
  BY <1>2, <1>3 DEF DetailInv, CleanAnswersAreTrue
<1>8. CleanPageIsTrue'
  BY <1>2, <1>3 DEF DetailInv, CleanPageIsTrue
<1> QED BY <1>5, <1>6, <1>7, <1>8 DEF DetailInv

LEMMA DetailStep == DetailInv /\ [Detail!DetailNext]_detailVars => DetailInv'
<1> SUFFICES ASSUME DetailInv, [Detail!DetailNext]_detailVars PROVE DetailInv'
  OBVIOUS
<1>1. /\ calls \in [Detail!Slots -> DetailCall] /\ entity \in Detail!Row /\ shown \in Detail!Row
      /\ picture \in Photos \cup {NoPhoto} /\ clean \in BOOLEAN /\ waiting \in BOOLEAN
      /\ edit \in Detail!Row \cup {Detail!Closed}
      /\ panel \in {"blank", "entity", "error", "failed"} /\ what \in {"item", "location"}
  BY DEF DetailInv, DetailTyped, Detail!TypeOK
<1>2. CASE Detail!Network
  <2>1. PICK s \in Detail!Slots :
          \/ Detail!Serve(s) \/ Detail!LoadArrives(s) \/ Detail!LoadFails(s)
          \/ Detail!WriteAccepted(s) \/ Detail!PhotoAccepted(s) \/ Detail!WriteFails(s)
    BY <1>2 DEF Detail!Network
  <2>2. CASE Detail!Serve(s)
    BY <2>2, ServeDetailKeeps
  <2>3. CASE Detail!LoadArrives(s) \/ Detail!LoadFails(s)
    BY <2>3, LoadArrivesKeeps
  <2>4. CASE Detail!WriteAccepted(s)
    BY <2>4, WriteAcceptedDetailKeeps
  <2>5. CASE Detail!PhotoAccepted(s) \/ Detail!WriteFails(s)
    BY <2>5, SlotFreedKeeps
  <2> QED BY <2>1, <2>2, <2>3, <2>4, <2>5
<1>3. CASE Detail!Retry
  <2>1. /\ Detail!Send("load", Detail!Unread) /\ panel # "entity"
        /\ waiting' = (what = "item" \/ waiting)
        /\ UNCHANGED <<what, entity, panel, shown, picture, edit>>
    BY <1>3 DEF Detail!Retry
  <2>2. waiting' \in BOOLEAN
    BY <2>1
  <2> QED BY <2>1, <2>2, SendKeeps DEF Detail!Ops
<1>4. CASE Detail!OpenEdit
  BY <1>1, <1>4 DEF Detail!OpenEdit, DetailInv, DetailTyped, Detail!TypeOK, Detail!HasRow, AloneWhenClean,
                    CleanAnswersAreTrue, CleanPageIsTrue
<1>5. CASE Detail!CloseEdit
  BY <1>5, CloseEditKeeps
<1>6. CASE Detail!Switch
  <2>1. Detail!Switched(shown) \in Detail!Row
    BY <1>1 DEF Detail!Switched, Detail!Row
  <2>2. /\ Detail!Send("active", Detail!Switched(shown)) /\ waiting' = waiting
        /\ UNCHANGED <<what, entity, panel, shown, picture, edit>>
    BY <1>6 DEF Detail!Switch
  <2> QED BY <1>1, <2>1, <2>2, SendKeeps DEF Detail!Ops
<1>7. CASE Detail!Star
  <2>1. [shown EXCEPT !.star = ~shown.star] \in Detail!Row
    BY <1>1 DEF Detail!Row
  <2>2. /\ Detail!Send("star", [shown EXCEPT !.star = ~shown.star]) /\ waiting' = waiting
        /\ what = "location" /\ UNCHANGED <<what, entity, panel, shown, picture, edit>>
    BY <1>7 DEF Detail!Star
  <2> QED BY <1>1, <2>1, <2>2, SendKeeps DEF Detail!Ops
<1>8. ASSUME NEW n \in Names, Detail!Save(n) PROVE DetailInv'
  <2>1. /\ Detail!Send("fields", [edit EXCEPT !.name = n]) /\ waiting' = waiting
        /\ edit # Detail!Closed /\ UNCHANGED <<what, entity, panel, shown, picture, edit>>
    BY <1>8 DEF Detail!Save
  <2>2. [edit EXCEPT !.name = n] \in Detail!Row
    BY <1>1, <2>1 DEF Detail!Row
  <2> QED BY <1>1, <2>1, <2>2, SendKeeps DEF Detail!Ops
<1>9. ASSUME NEW p \in Photos \cup {NoPhoto}, Detail!SetPhoto(p) PROVE DetailInv'
  <2>1. /\ Detail!Send("photo", [shown EXCEPT !.photo = p]) /\ waiting' = waiting
        /\ what = "item" /\ UNCHANGED <<what, entity, panel, shown, picture, edit>>
    BY <1>9 DEF Detail!SetPhoto
  <2>2. [shown EXCEPT !.photo = p] \in Detail!Row
    BY <1>1 DEF Detail!Row
  <2> QED BY <1>1, <2>1, <2>2, SendKeeps DEF Detail!Ops
<1>10. CASE Detail!Clerks
  <2>1. PICK n \in Names, b \in BOOLEAN : Detail!OthersWrite(n, b)
    BY <1>10 DEF Detail!Clerks
  <2>2. entity' \in Detail!Row
    BY <1>1, <2>1 DEF Detail!OthersWrite, Detail!Row
  <2>3. clean' = FALSE /\ UNCHANGED <<what, calls, panel, shown, picture, edit, waiting>>
    BY <2>1 DEF Detail!OthersWrite
  <2>4. DetailTyped'
    BY <2>2, <2>3 DEF DetailInv, DetailTyped, Detail!TypeOK, Detail!HasRow
  <2> QED BY <2>3, <2>4 DEF DetailInv, AloneWhenClean, CleanAnswersAreTrue, CleanPageIsTrue
<1>11. CASE UNCHANGED detailVars
  <2>1. DetailTyped'
    BY <1>11 DEF DetailInv, DetailTyped, Detail!TypeOK, Detail!HasRow, detailVars
  <2>2. AloneWhenClean' /\ CleanAnswersAreTrue'
    BY <1>11 DEF DetailInv, AloneWhenClean, CleanAnswersAreTrue, detailVars
  <2>3. CleanPageIsTrue'
    BY <1>11 DEF DetailInv, CleanPageIsTrue, detailVars
  <2> QED BY <2>1, <2>2, <2>3 DEF DetailInv
<1> QED BY <1>2, <1>3, <1>4, <1>5, <1>6, <1>7, <1>8, <1>9, <1>10, <1>11
        DEF Detail!DetailNext, Detail!User

LEMMA DetailStart == Detail!DetailInit => DetailInv
<1> SUFFICES ASSUME Detail!DetailInit PROVE DetailInv
  OBVIOUS
<1> DEFINE x == Detail!Call("load", Detail!Unread)
<1>1. DetailCalls \in Nat \ {0}
  BY PagesAssumption DEF PagesAssumption, Detail!DetailAssumption
<1>2. PICK n \in Names, b \in BOOLEAN :
        entity = [name |-> n, active |-> b, star |-> FALSE, photo |-> NoPhoto]
  BY DEF Detail!DetailInit
<1>3. entity \in Detail!Row
  BY <1>2 DEF Detail!Row
<1>4. x \in DetailCall /\ x.op = "load" /\ x.st = "sent"
  BY CallNew
<1>5. /\ calls = [s \in Detail!Slots |-> IF s = 1 THEN x ELSE Detail!Idle]
      /\ panel = "blank" /\ shown = entity /\ picture = NoPhoto /\ edit = Detail!Closed
      /\ what \in {"item", "location"} /\ waiting = (what = "item") /\ clean = TRUE
  BY DEF Detail!DetailInit
<1> HIDE DEF x
<1>6. /\ calls \in [Detail!Slots -> DetailCall] /\ 1 \in Detail!Slots
      /\ calls[1] = x /\ \A s \in Detail!Slots \ {1} : calls[s].op = "none"
  BY <1>1, <1>4, <1>5, CallNew DEF Detail!Slots
<1>7. DetailTyped
  <2>1. \A s \in Detail!Slots : calls[s].op \in {"load", "none"}
    BY <1>4, <1>6
  <2>2. waiting \in BOOLEAN /\ clean \in BOOLEAN
    BY <1>5
  <2> QED BY <1>3, <1>5, <1>6, <2>1, <2>2 DEF DetailTyped, Detail!TypeOK, Detail!Ops
<1>8. AloneWhenClean
  BY <1>6 DEF AloneWhenClean
<1>9. CleanAnswersAreTrue
  BY <1>4, <1>6 DEF CleanAnswersAreTrue
<1>10. CleanPageIsTrue
  BY <1>5 DEF CleanPageIsTrue
<1> QED BY <1>7, <1>8, <1>9, <1>10 DEF DetailInv

LEMMA DetailAnswered == DetailInv => Detail!TypeOK /\ Detail!QuietPageIsTrue
<1> SUFFICES ASSUME DetailInv PROVE Detail!TypeOK /\ Detail!QuietPageIsTrue
  OBVIOUS
<1>1. Detail!TypeOK
  BY DEF DetailInv, DetailTyped
<1>2. ASSUME clean, panel = "entity", \A s \in Detail!Slots : calls[s] = Detail!Idle
      PROVE  [entity EXCEPT !.photo = shown.photo] = shown /\ picture = entity.photo
  <2>1. SameRow(entity, shown) /\ picture = entity.photo
    BY <1>2, CallNew DEF DetailInv, CleanPageIsTrue, Unserved
  <2> QED BY <1>1, <2>1, SameRowIsEnough DEF Detail!TypeOK
<1> QED BY <1>1, <1>2 DEF Detail!QuietPageIsTrue

\* A save that the server takes on a clean page is the only call, and the row it is written
\* into is the one the page shows.
LEMMA DetailStepKeepsFields ==
  ASSUME DetailInv, [Detail!DetailNext]_detailVars
  PROVE  \A s \in Detail!Slots :
           clean /\ panel = "entity" /\ Detail!Saved(s) /\ calls[s].put.name = shown.name
             => entity' = entity
<1> SUFFICES ASSUME NEW s \in Detail!Slots, clean, panel = "entity", Detail!Saved(s),
                    calls[s].put.name = shown.name
             PROVE  entity' = entity
  OBVIOUS
<1>1. /\ calls \in [Detail!Slots -> DetailCall] /\ entity \in Detail!Row
      /\ calls[s].op = "fields" /\ calls[s].st = "sent" /\ calls'[s].st = "ok"
  BY DEF DetailInv, DetailTyped, Detail!TypeOK, Detail!Saved
<1>2. SameRow(entity, shown)
  <2>1. \A t \in Detail!Slots : Unserved(calls[t])
    BY <1>1 DEF DetailInv, AloneWhenClean, Unserved
  <2> QED BY <2>1 DEF DetailInv, CleanPageIsTrue
<1>3. ASSUME NEW t \in Detail!Slots, Detail!Serve(t) PROVE entity' = entity
  <2>1. t = s
    BY <1>1, <1>3 DEF Detail!Serve
  <2>2. entity' = [entity EXCEPT !.name = calls[s].put.name]
    BY <1>1, <1>3, <2>1 DEF Detail!Serve, Detail!Written
  <2>3. calls[s].put.name = entity.name
    BY <1>2 DEF SameRow
  <2> QED BY <1>1, <2>2, <2>3 DEF Detail!Row
<1>4. ASSUME NEW n \in Names, NEW b \in BOOLEAN, Detail!OthersWrite(n, b) PROVE FALSE
  BY <1>1, <1>4 DEF Detail!OthersWrite
<1>5. CASE Detail!DetailNext
  BY <1>3, <1>4, <1>5
     DEF Detail!DetailNext, Detail!Network, Detail!User, Detail!Clerks, Detail!LoadArrives,
         Detail!LoadFails, Detail!WriteAccepted, Detail!PhotoAccepted, Detail!WriteFails,
         Detail!Retry, Detail!OpenEdit, Detail!CloseEdit, Detail!Switch, Detail!Star,
         Detail!Save, Detail!SetPhoto
<1>6. CASE UNCHANGED detailVars
  BY <1>6 DEF detailVars
<1> QED BY <1>5, <1>6

--------------------------------------------------------------------------------
\* The dashboard.
DashOps == {"frame", "mark", "unmark", "sheets", "create", "read", "edit", "send", "cancel",
            "variance"}
DashOn == UNION {Goods, Dash!Sheets, {0}}
DashList == UNION {[D -> {"draft", "sent"}] : D \in SUBSET Dash!Sheets}
DashAsked == [op: DashOps, st: {"sent"}, turn: Dash!Turns, on: DashOn]
DashServed == [op: DashOps, st: {"ok"}, turn: Dash!Turns, on: DashOn, marks: SUBSET Goods,
               open: DashList \cup {<<>>}]
DashLookups == [op: {"sections"}, st: {"sent", "looked up"}, turn: Dash!Turns, on: {0},
                marks: SUBSET Goods]
DashTask == UNION {{Dash!NoTask}, DashAsked, DashServed, DashLookups}
DashSection == [turn: Dash!Turns, marks: SUBSET Goods]
DashEditor == [on: Dash!Sheets \cup {0}, turn: {0} \cup Dash!Turns, save: {0} \cup Dash!Tasks]
DashTyped ==
  /\ Dash!TypeOK
  /\ tasks \in [Dash!Tasks -> DashTask]
  /\ sections \in Seq(DashSection)
  /\ hosts \in [Dash!Turns -> Seq(DashList)]
  /\ editor \in DashEditor
  /\ editor # Dash!NoEditor => editor.on \in Dash!Sheets /\ editor.turn # 0
\* A list names sheets that were created.
KnownList(l, s) == \A i \in DOMAIN l : s[i] # "none"
KnownTask(k, s, n) ==
  /\ k.op # "none" => k.turn <= n
  /\ k.op \in {"mark", "unmark"} => k.on \in Goods
  /\ k.op = "read" => k.on \in Dash!Sheets /\ s[k.on] # "none"
  /\ k.op = "sheets" /\ k.st = "ok" => k.open \in DashList /\ KnownList(k.open, s)
TasksAreKnown ==
  /\ \A t \in Dash!Tasks : KnownTask(tasks[t], sheets, turns)
  /\ \A n \in Dash!Turns : \A i \in DOMAIN hosts[n] : KnownList(hosts[n][i], sheets)
IsRender(k) == k.op \in {"frame", "sections"}
RendersAlone ==
  calm => \A t, u \in Dash!Tasks : IsRender(tasks[t]) /\ tasks[u].op # "none" => t = u
\* Of a calm page, only what a dialog saves may belong to an earlier render.
CalmIsThisRender ==
  calm => /\ \A i \in DOMAIN sections : sections[i].turn = turns
          /\ \A t \in Dash!Tasks :
               IsRender(tasks[t]) \/ tasks[t].op \in {"create", "send", "cancel"}
                 => tasks[t].turn = turns
\* The list of the sheets as they are is asked for, or will be.
BringsSheets(k, n, open) ==
  /\ k.op # "none" /\ k.turn = n
  /\ \/ k.op = "sheets" /\ k.st = "sent"
     \/ k.op = "sheets" /\ k.st = "ok" /\ k.open = open
     \/ k.op \in {"create", "send", "cancel"} /\ k.st = "ok"
SheetsAreComing ==
  calm /\ ~missing /\ turns \in Dash!OnPage
    => \/ \E n \in DOMAIN hosts[turns] : hosts[turns][n] = Dash!OpenSheets
       \/ \E t \in Dash!Tasks : BringsSheets(tasks[t], turns, Dash!OpenSheets)
\* An accepted marker renders the page anew.
Remarks(k) == k.op \in {"mark", "unmark"} /\ k.st = "ok"
MarksAreCurrent ==
  calm /\ ~missing /\ (\A t \in Dash!Tasks : ~Remarks(tasks[t]))
    => /\ \A i \in DOMAIN sections : sections[i].marks = marked
       /\ \A t \in Dash!Tasks :
            /\ tasks[t].op = "frame" /\ tasks[t].st = "ok" => tasks[t].marks = marked
            /\ tasks[t].op = "sections" => tasks[t].marks = marked
DashInv == /\ DashTyped /\ TasksAreKnown /\ RendersAlone /\ CalmIsThisRender
           /\ SheetsAreComing /\ MarksAreCurrent

LEMMA TaskKinds ==
  ASSUME NEW k \in DashTask
  PROVE  /\ k.op = "none" <=> k = Dash!NoTask
         /\ k.op # "none" => /\ k.op \in DashOps \cup {"sections"}
                             /\ k.turn \in Dash!Turns /\ k.on \in DashOn
                             /\ k.st \in {"sent", "ok", "looked up"}
         /\ k.op # "none" /\ k.op # "sections" => k.st \in {"sent", "ok"}
         /\ k.op # "sections" /\ k.st = "ok" => k.marks \subseteq Goods
         /\ k.op = "sections" => k.marks \subseteq Goods /\ k.st # "ok"
<1>1. \/ k = Dash!NoTask \/ k \in DashAsked \/ k \in DashServed \/ k \in DashLookups
  BY DEF DashTask
<1>2. CASE k = Dash!NoTask
  BY <1>2 DEF Dash!NoTask
<1>3. Dash!NoTask.op = "none" /\ "none" \notin DashOps \cup {"sections"} /\ "sections" \notin DashOps
  BY DEF Dash!NoTask, DashOps
<1>4. CASE k \in DashAsked
  <2>1. k.op \in DashOps /\ k.st = "sent" /\ k.turn \in Dash!Turns /\ k.on \in DashOn
    BY <1>4 DEF DashAsked
  <2> QED BY <1>3, <2>1
<1>5. CASE k \in DashServed
  <2>1. /\ k.op \in DashOps /\ k.st = "ok" /\ k.turn \in Dash!Turns /\ k.on \in DashOn
        /\ k.marks \subseteq Goods
    BY <1>5 DEF DashServed
  <2> QED BY <1>3, <2>1
<1>6. CASE k \in DashLookups
  <2>1. /\ k.op = "sections" /\ k.st \in {"sent", "looked up"} /\ k.turn \in Dash!Turns
        /\ k.on = 0 /\ k.marks \subseteq Goods
    BY <1>6 DEF DashLookups
  <2>2. 0 \in DashOn
    BY DEF DashOn
  <2> QED BY <1>3, <2>1, <2>2
<1> QED BY <1>1, <1>2, <1>4, <1>5, <1>6

LEMMA TaskNew ==
  /\ Dash!NoTask \in DashTask /\ Dash!NoTask.op = "none"
  /\ \A op \in DashOps, n \in Dash!Turns, on \in DashOn :
       LET k == Dash!Task(op, n, on)
       IN  k \in DashTask /\ k.op = op /\ k.st = "sent" /\ k.turn = n /\ k.on = on
BY DEF DashTask, DashAsked, Dash!NoTask, Dash!Task

LEMMA OpenSheetsTyped ==
  ASSUME NEW s \in [Dash!Sheets -> {"none", "draft", "sent", "cancelled"}]
  PROVE  LET l == [i \in Dash!Open(s) |-> s[i]]
         IN  l \in DashList /\ KnownList(l, s)
<1> DEFINE l == [i \in Dash!Open(s) |-> s[i]]
<1>1. /\ Dash!Open(s) \subseteq Dash!Sheets
      /\ \A i \in Dash!Open(s) : s[i] \in {"draft", "sent"}
  BY DEF Dash!Open
<1>2. l \in [Dash!Open(s) -> {"draft", "sent"}]
  BY <1>1
<1>3. l \in DashList
  BY <1>1, <1>2 DEF DashList
<1>4. KnownList(l, s)
  BY <1>1 DEF KnownList
<1> QED BY <1>3, <1>4

\* A task is in its place from now on.
LEMMA TaskPut ==
  ASSUME tasks \in [Dash!Tasks -> DashTask], NEW t \in Dash!Tasks, NEW k \in DashTask,
         Dash!Put(t, k)
  PROVE  /\ tasks' \in [Dash!Tasks -> DashTask] /\ tasks'[t] = k
         /\ \A u \in Dash!Tasks \ {t} : tasks'[u] = tasks[u]
BY DEF Dash!Put

LEMMA OthersAreNone ==
  ASSUME tasks \in [Dash!Tasks -> DashTask], NEW t \in Dash!Tasks
  PROVE  ~Dash!Others(t) <=> \A u \in Dash!Tasks \ {t} : tasks[u].op = "none"
BY TaskKinds DEF Dash!Others

LEMMA RenderingIs ==
  ASSUME tasks \in [Dash!Tasks -> DashTask]
  PROVE  Dash!Rendering <=> \E t \in Dash!Tasks : IsRender(tasks[t])
BY DEF Dash!Rendering, IsRender

\* Sheets are created and never vanish.
SheetsGrow ==
  /\ sheets' \in [Dash!Sheets -> {"none", "draft", "sent", "cancelled"}]
  /\ \A i \in Dash!Sheets : sheets[i] # "none" => sheets'[i] # "none"
PageKept == UNCHANGED <<turns, frame, loading, sections, hosts>>
\* Panels are open of renders on the page only.
VarianceFits(v) ==
  /\ v \in [Dash!Turns -> {"shut", "loading", "shown", "failed"}]
  /\ \A n \in Dash!Turns : v[n] # "shut" => n \in Dash!OnPage

LEMMA DashBounds ==
  /\ MaxTurns \in Nat \ {0} /\ MaxTasks \in Nat \ {0} /\ MaxSheets \in Nat \ {0}
  /\ Dash!Turns = 1..MaxTurns /\ Dash!Tasks = 1..MaxTasks /\ Dash!Sheets = 1..MaxSheets
BY PagesAssumption DEF PagesAssumption, Dash!DashboardAssumption, Dash!Turns, Dash!Tasks, Dash!Sheets

LEMMA DashTypes ==
  DashTyped => /\ tasks \in [Dash!Tasks -> DashTask] /\ marked \subseteq Goods
               /\ sheets \in [Dash!Sheets -> {"none", "draft", "sent", "cancelled"}]
               /\ turns \in Dash!Turns /\ loading \in BOOLEAN /\ missing \in BOOLEAN
               /\ calm \in BOOLEAN /\ editor \in DashEditor
               /\ sections \in Seq(DashSection) /\ hosts \in [Dash!Turns -> Seq(DashList)]
BY DEF DashTyped, Dash!TypeOK

\* The page is as it was: what remains is the tasks, the server and the dialog.
LEMMA QuietTyped ==
  ASSUME DashTyped, PageKept, VarianceFits(variance'), SheetsGrow, marked' \subseteq Goods,
         tasks' \in [Dash!Tasks -> DashTask], {missing', calm'} \subseteq BOOLEAN,
         editor' \in DashEditor, editor'.turn <= turns, editor'.turn \in 0..turns,
         editor' # Dash!NoEditor => editor'.on \in Dash!Sheets /\ editor'.turn # 0 /\ sheets'[editor'.on] # "none",
         editor'.save # 0 => tasks'[editor'.save].op = "edit"
  PROVE  DashTyped'
<1>1. \A t \in Dash!Tasks :
        tasks'[t].op \in {"none", "frame", "sections", "mark", "unmark", "sheets", "create",
                          "read", "edit", "send", "cancel", "variance"}
  BY TaskKinds DEF DashOps
<1>2. Dash!OnPage' = Dash!OnPage
  BY DEF PageKept, Dash!OnPage
<1>3. Dash!TypeOK'
  BY <1>1, <1>2 DEF DashTyped, Dash!TypeOK, PageKept, SheetsGrow, VarianceFits
<1> QED BY <1>3 DEF DashTyped, PageKept

LEMMA VarianceStays ==
  DashTyped /\ variance' = variance => VarianceFits(variance')
BY DEF DashTyped, Dash!TypeOK, VarianceFits

LEMMA KnownStill ==
  ASSUME DashTyped, SheetsGrow, turns' \in Nat, turns <= turns'
  PROVE  /\ \A l \in DashList : KnownList(l, sheets) => KnownList(l, sheets')
         /\ \A k \in DashTask : KnownTask(k, sheets, turns) => KnownTask(k, sheets', turns')
<1>1. ASSUME NEW l \in DashList, KnownList(l, sheets) PROVE KnownList(l, sheets')
  <2>1. DOMAIN l \subseteq Dash!Sheets
    BY DEF DashList
  <2> QED BY <1>1, <2>1 DEF KnownList, SheetsGrow
<1>2. ASSUME NEW k \in DashTask, KnownTask(k, sheets, turns) PROVE KnownTask(k, sheets', turns')
  <2>1. k.op # "none" => k.turn \in Nat /\ turns \in Nat
    <3>1. turns \in Dash!Turns /\ (k.op # "none" => k.turn \in Dash!Turns)
      BY TaskKinds, DashTypes
    <3> QED BY <3>1, DashBounds
  <2>2. k.op # "none" => k.turn <= turns'
    BY <1>2, <2>1 DEF KnownTask
  <2>3. k.op = "sheets" /\ k.st = "ok" => k.open \in DashList /\ KnownList(k.open, sheets')
    BY <1>1, <1>2 DEF KnownTask
  <2> QED BY <1>2, <2>2, <2>3 DEF KnownTask, SheetsGrow
<1> QED BY <1>1, <1>2

LEMMA StatusesGrow ==
  ASSUME DashTyped, NEW k \in DashTask, Dash!Takes(k), sheets' = Dash!Statuses(k)
  PROVE  /\ SheetsGrow
         /\ k.op \notin {"create", "send", "cancel"} => sheets' = sheets
<1>1. sheets \in [Dash!Sheets -> {"none", "draft", "sent", "cancelled"}]
  BY DashTypes
<1>2. CASE k.op = "create"
  <2>1. PICK i \in Dash!Sheets : Dash!Next0(i)
    BY <1>2 DEF Dash!Takes
  <2> DEFINE c == CHOOSE x \in Dash!Sheets : Dash!Next0(x)
  <2>2. c \in Dash!Sheets
    BY <2>1
  <2>3. sheets' = [sheets EXCEPT ![c] = "draft"]
    BY <1>2 DEF Dash!Statuses
  <2> HIDE DEF c
  <2> QED BY <1>1, <1>2, <2>2, <2>3 DEF SheetsGrow
<1>3. CASE k.op = "send"
  BY <1>1, <1>3 DEF Dash!Statuses, SheetsGrow
<1>4. CASE k.op = "cancel"
  BY <1>1, <1>4 DEF Dash!Statuses, SheetsGrow
<1>5. CASE k.op \notin {"create", "send", "cancel"}
  <2>1. sheets' = sheets
    BY <1>5 DEF Dash!Statuses
  <2> QED BY <1>1, <2>1 DEF SheetsGrow
<1> QED BY <1>2, <1>3, <1>4, <1>5

LEMMA MarksAreGoods ==
  ASSUME DashTyped, NEW k \in DashTask, KnownTask(k, sheets, turns), marked' = Dash!Marks(k)
  PROVE  /\ marked' \subseteq Goods
         /\ k.op \notin {"mark", "unmark"} => marked' = marked
<1>1. marked \subseteq Goods
  BY DashTypes
<1>2. CASE k.op = "mark"
  BY <1>1, <1>2 DEF Dash!Marks, KnownTask
<1>3. CASE k.op = "unmark"
  BY <1>1, <1>3 DEF Dash!Marks, KnownTask
<1>4. CASE k.op \notin {"mark", "unmark"}
  BY <1>1, <1>4 DEF Dash!Marks
<1> QED BY <1>2, <1>3, <1>4

LEMMA TaskServed ==
  ASSUME NEW k \in DashTask, k.op # "none", k.op # "sections", NEW m \in SUBSET Goods,
         NEW l \in DashList \cup {<<>>}
  PROVE  LET r == [op |-> k.op, st |-> "ok", turn |-> k.turn, on |-> k.on, marks |-> m, open |-> l]
         IN  r \in DashTask
BY TaskKinds DEF DashTask, DashServed

\* The editor stays that of its sheet while only another task changes, or its own stays a save.
LEMMA EditorStays ==
  ASSUME DashTyped, SheetsGrow, editor' = editor,
         editor.save # 0 => tasks'[editor.save].op = "edit"
  PROVE  /\ editor' \in DashEditor /\ editor'.turn <= turns /\ editor'.turn \in 0..turns
         /\ editor' # Dash!NoEditor => editor'.on \in Dash!Sheets /\ editor'.turn # 0 /\ sheets'[editor'.on] # "none"
         /\ editor'.save # 0 => tasks'[editor'.save].op = "edit"
<1>1. /\ editor \in DashEditor /\ editor.turn \in 0..turns /\ turns \in Nat
      /\ editor # Dash!NoEditor => editor.on \in Dash!Sheets /\ editor.turn # 0 /\ sheets[editor.on] # "none"
  BY DashBounds DEF DashTyped, Dash!TypeOK
<1>2. editor'.turn <= turns
  BY <1>1
<1> QED BY <1>1, <1>2 DEF SheetsGrow

LEMMA ServeDashTyped ==
  ASSUME DashInv, NEW t \in Dash!Tasks, Dash!Serve(t)
  PROVE  LET k == tasks[t] IN
         /\ k \in DashTask /\ k.op \notin {"none", "sections"} /\ k.st = "sent"
         /\ SheetsGrow /\ (k.op \notin {"create", "send", "cancel"} => sheets' = sheets)
         /\ marked' \subseteq Goods /\ (k.op \notin {"mark", "unmark"} => marked' = marked)
         /\ tasks' \in [Dash!Tasks -> DashTask]
         /\ \A u \in Dash!Tasks \ {t} : tasks'[u] = tasks[u]
         /\ tasks'[t].op = k.op /\ tasks'[t].st = "ok" /\ tasks'[t].turn = k.turn
         /\ tasks'[t].on = k.on
         /\ k.op = "frame" => tasks'[t].marks = marked'
         /\ k.op = "sheets" => tasks'[t].open = Dash!OpenSheets'
         /\ PageKept /\ UNCHANGED <<variance, editor, missing, calm>>
<1> DEFINE k == tasks[t]
           m == IF k.op = "frame" THEN marked' ELSE {}
           l == IF k.op = "sheets" THEN Dash!OpenSheets' ELSE <<>>
           r == [op |-> k.op, st |-> "ok", turn |-> k.turn, on |-> k.on, marks |-> m, open |-> l]
<1>1. tasks \in [Dash!Tasks -> DashTask] /\ k \in DashTask
  BY DashTypes DEF DashInv
<1>2. /\ k.st = "sent" /\ k.op # "sections" /\ Dash!Takes(k)
      /\ marked' = Dash!Marks(k) /\ sheets' = Dash!Statuses(k) /\ Dash!Put(t, r)
      /\ PageKept /\ UNCHANGED <<variance, editor, missing, calm>>
  <2>1. Dash!Put(t, r)
    BY DEF Dash!Serve
  <2>2. PageKept /\ UNCHANGED <<variance, editor, missing, calm>>
    BY DEF Dash!Serve, PageKept, Dash!below
  <2>3. /\ k.st = "sent" /\ k.op # "sections" /\ Dash!Takes(k)
        /\ marked' = Dash!Marks(k) /\ sheets' = Dash!Statuses(k)
    BY DEF Dash!Serve
  <2> QED BY <2>1, <2>2, <2>3
<1>3. k.op # "none"
  <2>1. Dash!NoTask.st = "none"
    BY DEF Dash!NoTask
  <2> QED BY <1>1, <1>2, <2>1, TaskKinds
<1>4. SheetsGrow /\ (k.op \notin {"create", "send", "cancel"} => sheets' = sheets)
  BY <1>1, <1>2, StatusesGrow DEF DashInv
<1>5. marked' \subseteq Goods /\ (k.op \notin {"mark", "unmark"} => marked' = marked)
  BY <1>1, <1>2, MarksAreGoods DEF DashInv, TasksAreKnown
<1>6. m \in SUBSET Goods
  BY <1>5
<1>7. l \in DashList \cup {<<>>} /\ (k.op = "sheets" => l \in DashList)
  <2>1. Dash!OpenSheets' \in DashList
    BY <1>4, OpenSheetsTyped DEF SheetsGrow, Dash!OpenSheets
  <2> QED BY <2>1
<1>8. r \in DashTask
  <2> HIDE DEF m, l
  <2> QED BY <1>1, <1>2, <1>3, <1>6, <1>7, TaskServed
<1>9. /\ r.op = k.op /\ r.st = "ok" /\ r.turn = k.turn /\ r.on = k.on
      /\ r.marks = m /\ r.open = l
  OBVIOUS
<1> HIDE DEF r, l, m
<1>10. /\ tasks' \in [Dash!Tasks -> DashTask] /\ tasks'[t] = r
       /\ \A u \in Dash!Tasks \ {t} : tasks'[u] = tasks[u]
  BY <1>1, <1>2, <1>8, TaskPut
<1>11. k.op = "frame" => tasks'[t].marks = marked'
  BY <1>9, <1>10 DEF m
<1>12. k.op = "sheets" => tasks'[t].open = Dash!OpenSheets'
  BY <1>9, <1>10 DEF l
<1> QED BY <1>1, <1>2, <1>3, <1>4, <1>5, <1>9, <1>10, <1>11, <1>12

LEMMA ServeDashKeeps ==
  ASSUME DashInv, NEW t \in Dash!Tasks, Dash!Serve(t)
  PROVE  DashInv'
<1> DEFINE k == tasks[t]
<1>1. /\ k \in DashTask /\ k.op \notin {"none", "sections"} /\ k.st = "sent"
      /\ SheetsGrow /\ (k.op \notin {"create", "send", "cancel"} => sheets' = sheets)
      /\ marked' \subseteq Goods /\ (k.op \notin {"mark", "unmark"} => marked' = marked)
      /\ tasks' \in [Dash!Tasks -> DashTask]
      /\ \A u \in Dash!Tasks \ {t} : tasks'[u] = tasks[u]
  BY ServeDashTyped
<1>2. /\ tasks'[t].op = k.op /\ tasks'[t].st = "ok" /\ tasks'[t].turn = k.turn
      /\ tasks'[t].on = k.on
      /\ k.op = "frame" => tasks'[t].marks = marked'
      /\ k.op = "sheets" => tasks'[t].open = Dash!OpenSheets'
      /\ PageKept /\ UNCHANGED <<variance, editor, missing, calm>>
  BY ServeDashTyped
<1>3. \A u \in Dash!Tasks : tasks'[u].op = tasks[u].op /\ tasks'[u].turn = tasks[u].turn
  BY <1>1, <1>2
<1> HIDE DEF k
<1>4. DashTyped'
  <2>1. editor.save # 0 => tasks'[editor.save].op = "edit"
    BY <1>3 DEF DashInv, DashTyped, Dash!TypeOK, DashEditor
  <2>2. missing \in BOOLEAN /\ calm \in BOOLEAN
    BY DashTypes DEF DashInv
  <2>3. /\ editor' \in DashEditor /\ editor'.turn <= turns /\ editor'.turn \in 0..turns
        /\ editor' # Dash!NoEditor => editor'.on \in Dash!Sheets /\ editor'.turn # 0 /\ sheets'[editor'.on] # "none"
        /\ editor'.save # 0 => tasks'[editor'.save].op = "edit"
    BY <1>1, <1>2, <2>1, EditorStays DEF DashInv
  <2>4. VarianceFits(variance')
    BY <1>2, VarianceStays DEF DashInv
  <2> QED BY <1>1, <1>2, <2>2, <2>3, <2>4, QuietTyped DEF DashInv
<1>5. TasksAreKnown'
  <2>1. turns' \in Nat /\ turns <= turns' /\ turns' = turns
    BY <1>2, DashTypes, DashBounds DEF DashInv, PageKept
  <2>2. /\ \A l \in DashList : KnownList(l, sheets) => KnownList(l, sheets')
        /\ \A j \in DashTask : KnownTask(j, sheets, turns) => KnownTask(j, sheets', turns')
    BY <1>1, <2>1, KnownStill DEF DashInv
  <2>3. \A n \in Dash!Turns : \A i \in DOMAIN hosts'[n] : KnownList(hosts'[n][i], sheets')
    <3>1. hosts' = hosts
      BY <1>2 DEF PageKept
    <3>2. \A n \in Dash!Turns : \A i \in DOMAIN hosts[n] : hosts[n][i] \in DashList
      BY DashTypes DEF DashInv
    <3> QED BY <2>2, <3>1, <3>2 DEF DashInv, TasksAreKnown
  <2>4. ASSUME NEW u \in Dash!Tasks, u # t PROVE KnownTask(tasks'[u], sheets', turns')
    <3>1. tasks[u] \in DashTask /\ KnownTask(tasks[u], sheets, turns)
      BY DashTypes DEF DashInv, TasksAreKnown
    <3> QED BY <1>1, <2>2, <2>4, <3>1
  <2>5. KnownTask(tasks'[t], sheets', turns')
    <3>1. KnownTask(k, sheets', turns') /\ k.op # "none"
      BY <1>1, <2>2 DEF DashInv, TasksAreKnown, k
    <3>2. Dash!OpenSheets' \in DashList /\ KnownList(Dash!OpenSheets', sheets')
      BY <1>1, OpenSheetsTyped DEF SheetsGrow, Dash!OpenSheets
    <3> QED BY <1>2, <3>1, <3>2 DEF KnownTask
  <2> QED BY <2>3, <2>4, <2>5 DEF TasksAreKnown
<1>6. RendersAlone'
  BY <1>2, <1>3 DEF DashInv, RendersAlone, IsRender
<1>7. CalmIsThisRender'
  BY <1>2, <1>3 DEF DashInv, CalmIsThisRender, IsRender, PageKept
<1>8. SheetsAreComing'
  <2> SUFFICES ASSUME calm, ~missing, turns \in Dash!OnPage
               PROVE  \/ \E n \in DOMAIN hosts'[turns'] : hosts'[turns'][n] = Dash!OpenSheets'
                      \/ \E u \in Dash!Tasks : BringsSheets(tasks'[u], turns', Dash!OpenSheets')
    BY <1>2 DEF SheetsAreComing, PageKept, Dash!OnPage
  <2>1. turns' = turns /\ hosts' = hosts
    BY <1>2 DEF PageKept
  <2>2. CASE k.op \in {"create", "send", "cancel"}
    <3>1. k.turn = turns
      BY <2>2 DEF DashInv, CalmIsThisRender, k
    <3>2. BringsSheets(tasks'[t], turns', Dash!OpenSheets')
      BY <1>1, <1>2, <2>1, <2>2, <3>1 DEF BringsSheets
    <3> QED BY <3>2
  <2>3. CASE k.op \notin {"create", "send", "cancel"}
    <3>1. Dash!OpenSheets' = Dash!OpenSheets
      BY <1>1, <2>3 DEF Dash!OpenSheets, Dash!Open
    <3>2. ASSUME NEW u \in Dash!Tasks, BringsSheets(tasks[u], turns, Dash!OpenSheets) PROVE BringsSheets(tasks'[u], turns', Dash!OpenSheets')
      <4>1. CASE u = t
        <5>1. k.op = "sheets" /\ k.turn = turns
          BY <1>1, <2>3, <3>2, <4>1 DEF BringsSheets, k
        <5> QED BY <1>2, <2>1, <4>1, <5>1 DEF BringsSheets
      <4>2. CASE u # t
        BY <1>1, <2>1, <3>1, <3>2, <4>2 DEF BringsSheets
      <4> QED BY <4>1, <4>2
    <3> QED BY <2>1, <3>1, <3>2 DEF DashInv, SheetsAreComing
  <2> QED BY <2>2, <2>3
<1>9. MarksAreCurrent'
  <2> SUFFICES ASSUME calm, ~missing, \A u \in Dash!Tasks : ~Remarks(tasks'[u])
               PROVE  /\ \A i \in DOMAIN sections : sections[i].marks = marked'
                      /\ \A u \in Dash!Tasks :
                           /\ tasks'[u].op = "frame" /\ tasks'[u].st = "ok" => tasks'[u].marks = marked'
                           /\ tasks'[u].op = "sections" => tasks'[u].marks = marked'
    BY <1>2 DEF MarksAreCurrent, PageKept
  <2>1. k.op \notin {"mark", "unmark"} /\ marked' = marked
    BY <1>1, <1>2 DEF Remarks
  <2>2. \A u \in Dash!Tasks : ~Remarks(tasks[u])
    BY <1>1, <1>2, <2>1 DEF Remarks, k
  <2> QED BY <1>1, <1>2, <2>1, <2>2 DEF DashInv, MarksAreCurrent
<1> QED BY <1>4, <1>5, <1>6, <1>7, <1>8, <1>9 DEF DashInv

\* A page that is emptied shows no list and waits for none.
LEMMA ClearedTyped ==
  ASSUME DashInv, NEW t \in Dash!Tasks, NEW k \in DashTask, Dash!Put(t, k), Dash!Cleared,
         KnownTask(k, sheets, turns'), tasks[t].op # "edit",
         turns' \in Dash!Turns, turns <= turns', frame' \in {"blank", "frame", "error"},
         loading' \in BOOLEAN, calm' \in BOOLEAN, UNCHANGED <<marked, sheets, editor, missing>>
  PROVE  DashTyped' /\ TasksAreKnown' /\ SheetsAreComing'
<1>1. /\ tasks \in [Dash!Tasks -> DashTask] /\ marked \subseteq Goods /\ editor \in DashEditor
      /\ sheets \in [Dash!Sheets -> {"none", "draft", "sent", "cancelled"}]
      /\ turns \in Dash!Turns /\ missing \in BOOLEAN
  BY DashTypes DEF DashInv
<1>2. /\ tasks' \in [Dash!Tasks -> DashTask] /\ tasks'[t] = k
      /\ \A u \in Dash!Tasks \ {t} : tasks'[u] = tasks[u]
  BY <1>1, TaskPut
<1>3. /\ sections' = <<>> /\ hosts' = [n \in Dash!Turns |-> <<>>]
      /\ variance' = [n \in Dash!Turns |-> "shut"]
  BY DEF Dash!Cleared
<1>4. turns \in Nat /\ turns' \in Nat
  BY <1>1, DashBounds
<1>5. \A u \in Dash!Tasks :
        tasks'[u].op \in {"none", "frame", "sections", "mark", "unmark", "sheets", "create",
                          "read", "edit", "send", "cancel", "variance"}
  BY <1>2, TaskKinds DEF DashOps
<1>6. DOMAIN sections' = {} /\ \A n \in Dash!Turns : hosts'[n] = <<>> /\ variance'[n] = "shut"
  BY <1>3
<1>7. /\ editor.turn \in 0..turns'
      /\ editor # Dash!NoEditor => editor.on \in Dash!Sheets /\ editor.turn # 0 /\ sheets[editor.on] # "none"
      /\ editor.save # 0 => tasks'[editor.save].op = "edit"
  <2>1. /\ editor.turn \in 0..turns
        /\ editor # Dash!NoEditor => editor.on \in Dash!Sheets /\ editor.turn # 0 /\ sheets[editor.on] # "none"
        /\ editor.save # 0 => tasks[editor.save].op = "edit" /\ editor.save \in Dash!Tasks
    BY DEF DashInv, DashTyped, Dash!TypeOK, DashEditor
  <2> QED BY <1>2, <1>4, <2>1
<1>8. /\ variance' \in [Dash!Turns -> {"shut", "loading", "shown", "failed"}]
      /\ hosts' \in [Dash!Turns -> Seq(DashList)] /\ sections' \in Seq(DashSection)
      /\ DOMAIN hosts' = Dash!Turns
  BY <1>3
<1>9. Dash!TypeOK'
  BY <1>1, <1>3, <1>5, <1>6, <1>7, <1>8 DEF Dash!TypeOK
<1>10. DashTyped'
  BY <1>1, <1>2, <1>7, <1>8, <1>9 DEF DashTyped
<1>11. TasksAreKnown'
  <2>1. SheetsGrow
    BY <1>1 DEF SheetsGrow
  <2>2. \A j \in DashTask : KnownTask(j, sheets, turns) => KnownTask(j, sheets', turns')
    BY <1>4, <2>1, KnownStill DEF DashInv
  <2>3. ASSUME NEW u \in Dash!Tasks \ {t} PROVE KnownTask(tasks'[u], sheets', turns')
    BY <1>1, <1>2, <2>2 DEF DashInv, TasksAreKnown
  <2>4. \A n \in Dash!Turns : DOMAIN hosts'[n] = {}
    BY <1>6
  <2> QED BY <1>2, <2>3, <2>4 DEF TasksAreKnown
<1>12. SheetsAreComing'
  BY <1>6 DEF SheetsAreComing, Dash!OnPage
<1> QED BY <1>10, <1>11, <1>12

\* The two answers of a render, or its failure.
LEMMA FrameArrivesKeeps ==
  ASSUME DashInv, NEW t \in Dash!Tasks, Dash!FrameArrives(t) \/ Dash!RenderFails(t)
  PROVE  DashInv'
<1> DEFINE j == [op |-> "sections", st |-> "sent", turn |-> tasks[t].turn, on |-> 0,
                 marks |-> tasks[t].marks]
<1>1. /\ tasks \in [Dash!Tasks -> DashTask] /\ tasks[t] \in DashTask /\ calm \in BOOLEAN
      /\ turns \in Dash!Turns /\ turns \in Nat
  BY DashTypes, DashBounds DEF DashInv
<1>2. /\ Dash!Cleared /\ frame' \in {"frame", "error"} /\ loading' = FALSE
      /\ IsRender(tasks[t])
      /\ UNCHANGED <<marked, sheets, turns, editor, missing, calm>>
  BY DEF Dash!FrameArrives, Dash!RenderFails, Dash!backend, IsRender
<1>3. PICK k \in DashTask :
        /\ Dash!Put(t, k) /\ KnownTask(k, sheets, turns)
        /\ k.op \in {"none", "sections"}
        /\ k.op = "sections" => /\ tasks[t].op = "frame" /\ tasks[t].st = "ok"
                                /\ k.turn = tasks[t].turn /\ k.marks = tasks[t].marks
  <2>1. CASE Dash!RenderFails(t)
    <3>1. Dash!Put(t, Dash!NoTask)
      BY <2>1 DEF Dash!RenderFails
    <3> QED BY <3>1, TaskNew DEF KnownTask
  <2>2. CASE Dash!FrameArrives(t)
    <3>1. Dash!Put(t, j) /\ tasks[t].op = "frame" /\ tasks[t].st = "ok"
      BY <2>2 DEF Dash!FrameArrives
    <3>2. tasks[t].turn \in Dash!Turns /\ tasks[t].marks \subseteq Goods
      BY <1>1, <3>1, TaskKinds
    <3>3. j \in DashLookups
      BY <3>2 DEF DashLookups
    <3>4. j.op = "sections" /\ j.turn = tasks[t].turn /\ j.marks = tasks[t].marks
      OBVIOUS
    <3> HIDE DEF j
    <3>5. KnownTask(j, sheets, turns)
      BY <3>1, <3>4 DEF DashInv, TasksAreKnown, KnownTask
    <3> QED BY <3>1, <3>3, <3>4, <3>5 DEF DashTask
  <2> QED BY <2>1, <2>2
<1>4. /\ tasks' \in [Dash!Tasks -> DashTask] /\ tasks'[t] = k
      /\ \A u \in Dash!Tasks \ {t} : tasks'[u] = tasks[u]
  BY <1>1, <1>3, TaskPut
<1>5. DashTyped' /\ TasksAreKnown' /\ SheetsAreComing'
  <2>1. KnownTask(k, sheets, turns')
    BY <1>2, <1>3
  <2>2. tasks[t].op # "edit" /\ turns <= turns' /\ turns' \in Dash!Turns
    BY <1>1, <1>2 DEF IsRender
  <2> QED BY <1>1, <1>2, <1>3, <2>1, <2>2, ClearedTyped
<1>6. DOMAIN sections' = {}
  BY <1>2 DEF Dash!Cleared
<1>7. RendersAlone'
  BY <1>2, <1>3, <1>4 DEF DashInv, RendersAlone, IsRender
<1>8. CalmIsThisRender'
  BY <1>2, <1>3, <1>4, <1>6 DEF DashInv, CalmIsThisRender, IsRender
<1>9. MarksAreCurrent'
  <2> SUFFICES ASSUME calm, ~missing, \A u \in Dash!Tasks : ~Remarks(tasks'[u])
               PROVE  \A u \in Dash!Tasks :
                        /\ tasks'[u].op = "frame" /\ tasks'[u].st = "ok" => tasks'[u].marks = marked
                        /\ tasks'[u].op = "sections" => tasks'[u].marks = marked
    BY <1>2, <1>6 DEF MarksAreCurrent
  <2>1. \A u \in Dash!Tasks : ~Remarks(tasks[u])
    BY <1>2, <1>4 DEF Remarks, IsRender
  <2> QED BY <1>3, <1>4, <2>1 DEF DashInv, MarksAreCurrent
<1> QED BY <1>5, <1>7, <1>8, <1>9 DEF DashInv

\* A new render: of a page that waits for nothing else, it is calm.
LEMMA RenderKeepsDash ==
  ASSUME DashInv, NEW t \in Dash!Tasks, Dash!Render(t), tasks[t].op # "edit",
         UNCHANGED <<marked, sheets, editor, missing>>
  PROVE  DashInv'
<1> DEFINE k == Dash!Task("frame", turns + 1, 0)
<1>1. tasks \in [Dash!Tasks -> DashTask] /\ turns \in Nat /\ MaxTurns \in Nat
  BY DashTypes, DashBounds DEF DashInv
<1>2. /\ Dash!Cleared /\ frame' = "blank" /\ loading' = TRUE /\ Dash!Put(t, k)
      /\ turns' = turns + 1 /\ turns < MaxTurns /\ calm' = ~Dash!Others(t)
  BY DEF Dash!Render
<1>3. turns' \in Dash!Turns /\ turns <= turns'
  BY <1>1, <1>2, DashBounds
<1>4. k \in DashTask /\ k.op = "frame" /\ k.st = "sent" /\ k.turn = turns'
  BY <1>2, <1>3, TaskNew DEF DashOps, DashOn
<1> HIDE DEF k
<1>5. /\ tasks' \in [Dash!Tasks -> DashTask] /\ tasks'[t] = k
      /\ \A u \in Dash!Tasks \ {t} : tasks'[u] = tasks[u]
  BY <1>1, <1>2, <1>4, TaskPut
<1>6. DashTyped' /\ TasksAreKnown' /\ SheetsAreComing'
  <2>1. KnownTask(k, sheets, turns')
    BY <1>1, <1>2, <1>4 DEF KnownTask
  <2>2. calm' \in BOOLEAN
    BY <1>2
  <2> QED BY <1>2, <1>3, <1>4, <2>1, <2>2, ClearedTyped
<1>7. calm' => \A u \in Dash!Tasks \ {t} : tasks'[u].op = "none"
  BY <1>1, <1>2, <1>5, OthersAreNone
<1>8. DOMAIN sections' = {}
  BY <1>2 DEF Dash!Cleared
<1>9. RendersAlone'
  BY <1>7 DEF RendersAlone, IsRender
<1>10. CalmIsThisRender'
  BY <1>4, <1>5, <1>7, <1>8 DEF CalmIsThisRender, IsRender
<1>11. MarksAreCurrent'
  BY <1>4, <1>5, <1>7, <1>8 DEF MarksAreCurrent
<1> QED BY <1>6, <1>9, <1>10, <1>11 DEF DashInv

\* Task t becomes k, and no list, mark or render is touched: nothing that was coming is lost
\* unless "missing" says so, and nothing comes that a calm page would not stand.
LEMMA QuietKeeps ==
  ASSUME DashInv, NEW t \in Dash!Tasks, NEW k \in DashTask, Dash!Put(t, k),
         PageKept, VarianceFits(variance'), UNCHANGED <<marked, sheets>>,
         KnownTask(k, sheets, turns),
         missing' \in BOOLEAN, calm' \in BOOLEAN, calm' => calm, ~missing' => ~missing,
         IsRender(k) => tasks[t].op = k.op /\ k.turn = tasks[t].turn /\ k.st # "ok",
         k.op = "sections" => k.marks = tasks[t].marks,
         calm' /\ k.op # "none" /\ tasks[t].op = "none" => ~Dash!Rendering,
         calm' /\ k.op \in {"create", "send", "cancel"} => k.turn = turns,
         ~missing' => ~Remarks(tasks[t]) /\ ~BringsSheets(tasks[t], turns, Dash!OpenSheets),
         editor' \in DashEditor, editor'.turn <= turns, editor'.turn \in 0..turns,
         editor' # Dash!NoEditor => editor'.on \in Dash!Sheets /\ editor'.turn # 0 /\ sheets[editor'.on] # "none",
         editor'.save # 0 => tasks'[editor'.save].op = "edit"
  PROVE  DashInv'
<1>1. /\ tasks \in [Dash!Tasks -> DashTask] /\ marked \subseteq Goods
      /\ sheets \in [Dash!Sheets -> {"none", "draft", "sent", "cancelled"}]
  BY DashTypes DEF DashInv
<1>2. /\ tasks' \in [Dash!Tasks -> DashTask] /\ tasks'[t] = k
      /\ \A u \in Dash!Tasks \ {t} : tasks'[u] = tasks[u]
  BY <1>1, TaskPut
<1>3. turns' = turns /\ sections' = sections /\ hosts' = hosts /\ Dash!OpenSheets' = Dash!OpenSheets
      /\ Dash!OnPage' = Dash!OnPage
  BY DEF PageKept, Dash!OpenSheets, Dash!OnPage
<1>4. DashTyped'
  <2>1. SheetsGrow
    BY <1>1 DEF SheetsGrow
  <2>2. editor' # Dash!NoEditor => editor'.on \in Dash!Sheets /\ editor'.turn # 0 /\ sheets'[editor'.on] # "none"
    OBVIOUS
  <2> QED BY <1>1, <1>2, <2>1, <2>2, QuietTyped DEF DashInv
<1>5. TasksAreKnown'
  BY <1>2, <1>3 DEF DashInv, TasksAreKnown
<1>6. RendersAlone'
  <2>1. CASE ~calm'
    BY <2>1 DEF RendersAlone
  <2>2. CASE calm' /\ k.op # "none" /\ tasks[t].op = "none"
    <3>1. \A u \in Dash!Tasks : ~IsRender(tasks'[u])
      BY <1>1, <1>2, <2>2, RenderingIs DEF IsRender
    <3> QED BY <3>1 DEF RendersAlone
  <2>3. CASE calm' /\ (k.op = "none" \/ tasks[t].op # "none")
    <3>1. \A u \in Dash!Tasks : /\ IsRender(tasks'[u]) => IsRender(tasks[u])
                                /\ tasks'[u].op # "none" => tasks[u].op # "none"
      BY <1>2, <2>3 DEF IsRender
    <3> QED BY <2>3, <3>1 DEF DashInv, RendersAlone
  <2> QED BY <2>1, <2>2, <2>3
<1>7. CalmIsThisRender'
  BY <1>2, <1>3 DEF DashInv, CalmIsThisRender, IsRender
<1>8. SheetsAreComing'
  BY <1>2, <1>3 DEF DashInv, SheetsAreComing
<1>9. MarksAreCurrent'
  <2> SUFFICES ASSUME calm', ~missing', \A u \in Dash!Tasks : ~Remarks(tasks'[u])
               PROVE  /\ \A i \in DOMAIN sections : sections[i].marks = marked
                      /\ \A u \in Dash!Tasks :
                           /\ tasks'[u].op = "frame" /\ tasks'[u].st = "ok" => tasks'[u].marks = marked
                           /\ tasks'[u].op = "sections" => tasks'[u].marks = marked
    BY <1>3 DEF MarksAreCurrent
  <2>1. \A u \in Dash!Tasks : ~Remarks(tasks[u])
    BY <1>2
  <2> QED BY <1>2, <2>1 DEF DashInv, MarksAreCurrent, IsRender
<1> QED BY <1>4, <1>5, <1>6, <1>7, <1>8, <1>9 DEF DashInv

LEMMA EditorIs ==
  ASSUME DashTyped
  PROVE  /\ editor \in DashEditor /\ editor.turn <= turns /\ editor.turn \in 0..turns
         /\ editor # Dash!NoEditor => editor.on \in Dash!Sheets /\ editor.turn # 0 /\ sheets[editor.on] # "none"
         /\ editor.save # 0 => editor.save \in Dash!Tasks /\ tasks[editor.save].op = "edit"
<1>1. editor \in DashEditor /\ editor.turn \in 0..turns /\ turns \in Nat
  BY DashBounds DEF DashTyped, Dash!TypeOK
<1>2. editor.save # 0 => editor.save \in Dash!Tasks /\ tasks[editor.save].op = "edit"
  BY <1>1 DEF DashTyped, Dash!TypeOK, DashEditor
<1>3. editor # Dash!NoEditor => editor.on \in Dash!Sheets /\ editor.turn # 0 /\ sheets[editor.on] # "none"
  BY DEF DashTyped, Dash!TypeOK
<1> QED BY <1>1, <1>2, <1>3

LEMMA EditorLeft ==
  ASSUME DashTyped, NEW t \in Dash!Tasks, NEW k \in DashTask, Dash!Put(t, k), editor' = editor,
         tasks[t].op = "edit" => k.op = "edit"
  PROVE  /\ editor' \in DashEditor /\ editor'.turn <= turns /\ editor'.turn \in 0..turns
         /\ editor' # Dash!NoEditor => editor'.on \in Dash!Sheets /\ editor'.turn # 0 /\ sheets[editor'.on] # "none"
         /\ editor'.save # 0 => tasks'[editor'.save].op = "edit"
<1>1. /\ tasks'[t] = k
      /\ \A u \in Dash!Tasks \ {t} : tasks'[u] = tasks[u]
  BY DashTypes, TaskPut
<1>2. editor.save # 0 => tasks'[editor.save].op = "edit"
  BY <1>1, EditorIs
<1> QED BY <1>2, EditorIs

LEMMA ServeLookupsKeeps ==
  ASSUME DashInv, NEW t \in Dash!Tasks, Dash!ServeLookups(t)
  PROVE  DashInv'
<1> DEFINE k == [tasks[t] EXCEPT !.st = "looked up"]
<1>1. tasks[t] \in DashTask /\ missing \in BOOLEAN /\ calm \in BOOLEAN
  BY DashTypes DEF DashInv
<1>2. /\ tasks[t].op = "sections" /\ Dash!Put(t, k)
      /\ PageKept /\ UNCHANGED <<marked, sheets, variance, editor, missing, calm>>
  BY DEF Dash!ServeLookups, PageKept, Dash!backend, Dash!below
<1>3. tasks[t] \in DashLookups
  <2>1. "sections" \notin DashOps /\ Dash!NoTask.op = "none"
    BY DEF DashOps, Dash!NoTask
  <2>2. tasks[t] # Dash!NoTask
    BY <1>2, <2>1
  <2>3. tasks[t] \notin DashAsked /\ tasks[t] \notin DashServed
    BY <1>2, <2>1 DEF DashAsked, DashServed
  <2> QED BY <1>1, <2>2, <2>3 DEF DashTask
<1>4. /\ k \in DashLookups /\ k.op = "sections" /\ k.st = "looked up"
      /\ k.turn = tasks[t].turn /\ k.marks = tasks[t].marks
  BY <1>3 DEF DashLookups
<1> HIDE DEF k
<1>5. k \in DashTask
  BY <1>4 DEF DashTask
<1>6. KnownTask(k, sheets, turns)
  BY <1>2, <1>4 DEF KnownTask, DashInv, TasksAreKnown
<1>7. VarianceFits(variance')
  BY <1>2, VarianceStays DEF DashInv
<1>8. ~Remarks(tasks[t]) /\ ~BringsSheets(tasks[t], turns, Dash!OpenSheets)
  BY <1>2 DEF Remarks, BringsSheets
<1>9. /\ editor' \in DashEditor /\ editor'.turn <= turns /\ editor'.turn \in 0..turns
      /\ editor' # Dash!NoEditor => editor'.on \in Dash!Sheets /\ editor'.turn # 0 /\ sheets[editor'.on] # "none"
      /\ editor'.save # 0 => tasks'[editor'.save].op = "edit"
  BY <1>2, <1>5, EditorLeft DEF DashInv
<1>10. IsRender(k) => tasks[t].op = k.op /\ k.turn = tasks[t].turn /\ k.st # "ok"
  BY <1>2, <1>4
<1> QED BY <1>1, <1>2, <1>4, <1>5, <1>6, <1>7, <1>8, <1>9, <1>10, QuietKeeps

\* What a button sends belongs to a render on the page.
LEMMA AskedKeeps ==
  ASSUME DashInv, NEW t \in Dash!Tasks, tasks[t] = Dash!NoTask,
         NEW op \in DashOps, op # "frame", NEW n \in Dash!Turns, n <= turns, NEW on \in DashOn,
         op \in {"mark", "unmark"} => on \in Goods,
         op = "read" => on \in Dash!Sheets /\ sheets[on] # "none",
         op \in {"create", "send", "cancel"} => n \in Dash!OnPage,
         Dash!Put(t, Dash!Task(op, n, on)), calm' = (calm /\ ~Dash!Rendering),
         PageKept, VarianceFits(variance'), UNCHANGED <<marked, sheets, missing>>,
         editor' \in DashEditor, editor'.turn <= turns, editor'.turn \in 0..turns,
         editor' # Dash!NoEditor => editor'.on \in Dash!Sheets /\ editor'.turn # 0 /\ sheets[editor'.on] # "none",
         editor'.save # 0 => tasks'[editor'.save].op = "edit"
  PROVE  DashInv'
<1> DEFINE k == Dash!Task(op, n, on)
<1>1. missing \in BOOLEAN /\ calm \in BOOLEAN
  BY DashTypes DEF DashInv
<1>2. k \in DashTask /\ k.op = op /\ k.st = "sent" /\ k.turn = n /\ k.on = on
  BY TaskNew
<1> HIDE DEF k
<1>3. KnownTask(k, sheets, turns)
  BY <1>2 DEF KnownTask
<1>4. tasks[t].op = "none"
  BY TaskNew
<1>5. ~Remarks(tasks[t]) /\ ~BringsSheets(tasks[t], turns, Dash!OpenSheets)
  BY <1>4 DEF Remarks, BringsSheets
<1>6. ~IsRender(k)
  BY <1>2 DEF IsRender, DashOps
<1>7. calm' \in BOOLEAN /\ (calm' => calm) /\ (calm' => ~Dash!Rendering)
  OBVIOUS
<1>8. calm' /\ k.op \in {"create", "send", "cancel"} => k.turn = turns
  BY <1>2, <1>7 DEF Dash!OnPage, DashInv, CalmIsThisRender
<1>9. Dash!Put(t, k) /\ missing' = missing /\ k.op # "sections"
  BY <1>2 DEF k, DashOps
<1> QED BY <1>1, <1>2, <1>3, <1>5, <1>6, <1>7, <1>8, <1>9, QuietKeeps

LEMMA FreeTaskIs ==
  ASSUME NEW t, Dash!FreeTask(t)
  PROVE  tasks[t] = Dash!NoTask
BY DEF Dash!FreeTask

LEMMA OnPageIsKnown ==
  DashTyped => Dash!OnPage \subseteq Dash!Turns /\ \A n \in Dash!OnPage : n <= turns
<1> SUFFICES ASSUME DashTyped, NEW i \in DOMAIN sections
             PROVE  sections[i].turn \in Dash!Turns /\ sections[i].turn <= turns
  BY DEF Dash!OnPage
<1>1. sections[i].turn \in 1..turns /\ turns \in 1..MaxTurns
  BY DashBounds DEF DashTyped, Dash!TypeOK
<1> QED BY <1>1, DashBounds

LEMMA SendDashKeeps ==
  ASSUME DashInv, NEW t \in Dash!Tasks, NEW op \in DashOps, op # "frame", NEW n, NEW on \in DashOn,
         op \in {"mark", "unmark"} => on \in Goods,
         op = "read" => on \in Dash!Sheets /\ sheets[on] # "none",
         Dash!Send(t, op, n, on)
  PROVE  DashInv'
<1>1. /\ n \in Dash!OnPage /\ Dash!FreeTask(t) /\ Dash!Put(t, Dash!Task(op, n, on))
      /\ calm' = (calm /\ ~Dash!Rendering)
      /\ PageKept /\ UNCHANGED <<marked, sheets, variance, editor, missing>>
  BY DEF Dash!Send, PageKept, Dash!backend, Dash!below
<1>2. n \in Dash!Turns /\ n <= turns
  BY <1>1, OnPageIsKnown DEF DashInv
<1>3. tasks[t] = Dash!NoTask /\ Dash!NoTask.op = "none"
  BY <1>1, FreeTaskIs, TaskNew
<1>4. Dash!Task(op, n, on) \in DashTask
  BY <1>2, TaskNew
<1>5. VarianceFits(variance')
  BY <1>1, VarianceStays DEF DashInv
<1>6. /\ editor' \in DashEditor /\ editor'.turn <= turns /\ editor'.turn \in 0..turns
      /\ editor' # Dash!NoEditor => editor'.on \in Dash!Sheets /\ editor'.turn # 0 /\ sheets[editor'.on] # "none"
      /\ editor'.save # 0 => tasks'[editor'.save].op = "edit"
  BY <1>1, <1>3, <1>4, EditorLeft DEF DashInv
<1> QED BY <1>1, <1>2, <1>3, <1>5, <1>6, AskedKeeps

\* A sheet on a list exists.
LEMMA ListedIsKnown ==
  ASSUME DashInv, NEW n \in 1..turns, NEW s \in Dash!Sheets, NEW st, Dash!Listed(n, s, st)
  PROVE  sheets[s] # "none"
<1>1. n \in Dash!Turns
  BY DashTypes, DashBounds DEF DashInv
<1>2. PICK i \in DOMAIN hosts[n] : s \in DOMAIN hosts[n][i]
  BY DEF Dash!Listed
<1> QED BY <1>1, <1>2 DEF DashInv, TasksAreKnown, KnownList

LEMMA SaveSheetKeeps ==
  ASSUME DashInv, NEW t \in Dash!Tasks, Dash!SaveSheet(t)
  PROVE  DashInv'
<1> DEFINE k == Dash!Task("edit", editor.turn, editor.on)
           e == [editor EXCEPT !.save = t]
<1>1. /\ editor # Dash!NoEditor /\ Dash!FreeTask(t) /\ Dash!Put(t, k) /\ editor' = e
      /\ calm' = (calm /\ ~Dash!Rendering)
      /\ PageKept /\ UNCHANGED <<marked, sheets, variance, missing>>
  BY DEF Dash!SaveSheet, PageKept, Dash!backend, Dash!below
<1>2. /\ editor \in DashEditor /\ editor.turn <= turns /\ editor.turn \in 0..turns
      /\ editor.on \in Dash!Sheets /\ sheets[editor.on] # "none" /\ editor.turn \in Dash!Turns
  BY <1>1, EditorIs DEF DashInv, DashEditor
<1>3. e \in DashEditor /\ e.on = editor.on /\ e.turn = editor.turn /\ e.save = t
  BY <1>2 DEF DashEditor
<1>4. tasks[t] = Dash!NoTask
  BY <1>1, FreeTaskIs
<1>5. VarianceFits(variance')
  BY <1>1, VarianceStays DEF DashInv
<1> HIDE DEF e
<1>6. tasks'[t].op = "edit"
  <2>1. k \in DashTask /\ k.op = "edit"
    BY <1>2, TaskNew DEF DashOps, DashOn
  <2> QED BY <1>1, <2>1, DashTypes, TaskPut DEF DashInv
<1>7. /\ editor' \in DashEditor /\ editor'.turn <= turns /\ editor'.turn \in 0..turns
      /\ editor' # Dash!NoEditor => editor'.on \in Dash!Sheets /\ editor'.turn # 0 /\ sheets[editor'.on] # "none"
      /\ editor'.save # 0 => tasks'[editor'.save].op = "edit"
  <2>1. editor.turn # 0
    BY <1>1, EditorIs DEF DashInv
  <2> QED BY <1>1, <1>2, <1>3, <1>6, <2>1
<1>8. "edit" \in DashOps \ {"frame"} /\ editor.on \in DashOn
  BY <1>2 DEF DashOps, DashOn
<1> QED BY <1>1, <1>2, <1>4, <1>5, <1>7, <1>8, AskedKeeps

LEMMA CloseEditorKeeps ==
  ASSUME DashInv, Dash!CloseEditor
  PROVE  DashInv'
<1>1. /\ editor' = Dash!NoEditor
      /\ UNCHANGED <<marked, sheets, tasks, turns, frame, loading, sections, hosts, variance,
                     missing, calm>>
  BY DEF Dash!CloseEditor, Dash!backend, Dash!below
<1>2. DashTyped'
  <2>1. Dash!NoEditor \in DashEditor /\ Dash!NoEditor.turn = 0 /\ Dash!NoEditor.save = 0
    BY DEF DashEditor, Dash!NoEditor
  <2>2. SheetsGrow /\ PageKept /\ VarianceFits(variance') /\ 0 \in 0..turns /\ 0 <= turns
    BY <1>1, DashTypes, DashBounds, VarianceStays DEF DashInv, SheetsGrow, PageKept
  <2> QED BY <1>1, <2>1, <2>2, DashTypes, QuietTyped DEF DashInv
<1>3. TasksAreKnown' /\ RendersAlone' /\ CalmIsThisRender'
  BY <1>1 DEF DashInv, TasksAreKnown, RendersAlone, CalmIsThisRender
<1>4. SheetsAreComing' /\ MarksAreCurrent'
  BY <1>1 DEF DashInv, SheetsAreComing, MarksAreCurrent, Dash!OnPage, Dash!OpenSheets
<1> QED BY <1>2, <1>3, <1>4 DEF DashInv

LEMMA OpenVarianceKeeps ==
  ASSUME DashInv, NEW t \in Dash!Tasks, NEW n \in 1..turns, Dash!OpenVariance(t, n)
  PROVE  DashInv'
<1>1. /\ n \in Dash!OnPage /\ Dash!FreeTask(t) /\ Dash!Put(t, Dash!Task("variance", n, 0))
      /\ variance' = [variance EXCEPT ![n] = "loading"]
      /\ calm' = (calm /\ ~Dash!Rendering)
      /\ PageKept /\ UNCHANGED <<marked, sheets, editor, missing>>
  BY DEF Dash!OpenVariance, PageKept, Dash!backend
<1>2. n \in Dash!Turns /\ n <= turns
  BY <1>1, OnPageIsKnown DEF DashInv
<1>3. tasks[t] = Dash!NoTask /\ Dash!NoTask.op = "none"
  BY <1>1, FreeTaskIs, TaskNew
<1>4. "variance" \in DashOps \ {"frame"} /\ 0 \in DashOn
  BY DEF DashOps, DashOn
<1>5. Dash!Task("variance", n, 0) \in DashTask
  BY <1>2, <1>4, TaskNew
<1>6. VarianceFits(variance')
  <2>1. VarianceFits(variance)
    BY DEF DashInv, DashTyped, Dash!TypeOK, VarianceFits
  <2> QED BY <1>1, <1>2, <2>1 DEF VarianceFits
<1>7. /\ editor' \in DashEditor /\ editor'.turn <= turns /\ editor'.turn \in 0..turns
      /\ editor' # Dash!NoEditor => editor'.on \in Dash!Sheets /\ editor'.turn # 0 /\ sheets[editor'.on] # "none"
      /\ editor'.save # 0 => tasks'[editor'.save].op = "edit"
  BY <1>1, <1>3, <1>5, EditorLeft DEF DashInv
<1> QED BY <1>1, <1>2, <1>3, <1>4, <1>6, <1>7, AskedKeeps

\* A task that is over: the dialog that its answer opens, or its save leaves, fits.
LEMMA OverKeeps ==
  ASSUME DashInv, NEW t \in Dash!Tasks, Dash!Put(t, Dash!NoTask), PageKept,
         VarianceFits(variance'), UNCHANGED <<marked, sheets, calm>>,
         missing' \in BOOLEAN, ~missing' => ~missing,
         ~missing' => ~Remarks(tasks[t]) /\ ~BringsSheets(tasks[t], turns, Dash!OpenSheets),
         editor' \in DashEditor, editor'.turn <= turns, editor'.turn \in 0..turns,
         editor' # Dash!NoEditor => editor'.on \in Dash!Sheets /\ editor'.turn # 0 /\ sheets[editor'.on] # "none",
         editor'.save # 0 => editor'.save \in Dash!Tasks \ {t} /\ tasks[editor'.save].op = "edit"
  PROVE  DashInv'
<1>1. Dash!NoTask \in DashTask /\ Dash!NoTask.op = "none"
  BY TaskNew
<1>2. tasks \in [Dash!Tasks -> DashTask] /\ calm \in BOOLEAN
  BY DashTypes DEF DashInv
<1>3. \A u \in Dash!Tasks \ {t} : tasks'[u] = tasks[u]
  BY <1>1, <1>2, TaskPut
<1>4. editor'.save # 0 => tasks'[editor'.save].op = "edit"
  BY <1>3
<1>5. KnownTask(Dash!NoTask, sheets, turns) /\ ~IsRender(Dash!NoTask)
  BY <1>1 DEF KnownTask, IsRender
<1> QED BY <1>1, <1>2, <1>4, <1>5, QuietKeeps

LEMMA EditorOpensKeeps ==
  ASSUME DashInv, NEW t \in Dash!Tasks, Dash!EditorOpens(t)
  PROVE  DashInv'
<1> DEFINE e == [on |-> tasks[t].on, turn |-> tasks[t].turn, save |-> 0]
<1>1. /\ tasks[t].op = "read" /\ tasks[t].st = "ok" /\ Dash!Put(t, Dash!NoTask) /\ editor' = e
      /\ PageKept /\ UNCHANGED <<marked, sheets, variance, missing, calm>>
  BY DEF Dash!EditorOpens, PageKept, Dash!backend, Dash!below
<1>2. /\ tasks[t].turn \in Dash!Turns /\ tasks[t].turn <= turns /\ turns \in Nat
      /\ tasks[t].on \in Dash!Sheets /\ sheets[tasks[t].on] # "none"
  <2>1. tasks[t] \in DashTask /\ KnownTask(tasks[t], sheets, turns) /\ turns \in Dash!Turns
    BY DashTypes DEF DashInv, TasksAreKnown
  <2>2. tasks[t].turn \in Dash!Turns
    BY <1>1, <2>1, TaskKinds
  <2> QED BY <1>1, <2>1, <2>2, DashBounds DEF KnownTask
<1>3. e \in DashEditor /\ e.on = tasks[t].on /\ e.turn = tasks[t].turn /\ e.save = 0
  BY <1>2 DEF DashEditor
<1> HIDE DEF e
<1>4. tasks[t].turn \in 0..turns /\ tasks[t].turn # 0
  BY <1>2, DashBounds
<1>5. VarianceFits(variance') /\ missing \in BOOLEAN
  BY <1>1, VarianceStays, DashTypes DEF DashInv
<1>6. ~Remarks(tasks[t]) /\ ~BringsSheets(tasks[t], turns, Dash!OpenSheets)
  BY <1>1 DEF Remarks, BringsSheets
<1> QED BY <1>1, <1>2, <1>3, <1>4, <1>5, <1>6, OverKeeps

LEMMA VarianceAnsweredKeeps ==
  ASSUME DashInv, NEW t \in Dash!Tasks, Dash!VarianceAnswered(t)
  PROVE  DashInv'
<1>1. /\ tasks[t].op = "variance" /\ Dash!Put(t, Dash!NoTask)
      /\ PageKept /\ UNCHANGED <<marked, sheets, editor, missing, calm>>
  BY DEF Dash!VarianceAnswered, PageKept, Dash!backend
<1>2. VarianceFits(variance')
  <2>1. VarianceFits(variance)
    BY DEF DashInv, DashTyped, Dash!TypeOK, VarianceFits
  <2>2. PICK v : /\ variance' = [variance EXCEPT ![tasks[t].turn] = v]
                 /\ v \in {"shut", "shown", "failed"}
                 /\ variance[tasks[t].turn] = "shut" => v = "shut"
    BY DEF Dash!VarianceAnswered
  <2> QED BY <2>1, <2>2 DEF VarianceFits
<1>3. editor.save # 0 => editor.save \in Dash!Tasks \ {t} /\ tasks[editor.save].op = "edit"
  BY <1>1, EditorIs DEF DashInv
<1>4. missing \in BOOLEAN
  BY DashTypes DEF DashInv
<1>5. ~Remarks(tasks[t]) /\ ~BringsSheets(tasks[t], turns, Dash!OpenSheets)
  BY <1>1 DEF Remarks, BringsSheets
<1> QED BY <1>1, <1>2, <1>3, <1>4, <1>5, EditorIs, OverKeeps DEF DashInv

LEMMA FailsKeeps ==
  ASSUME DashInv, NEW t \in Dash!Tasks, Dash!Fails(t)
  PROVE  DashInv'
<1> DEFINE e == IF editor.save = t THEN [editor EXCEPT !.save = 0] ELSE editor
<1>1. /\ Dash!Put(t, Dash!NoTask) /\ editor' = e
      /\ missing' = (missing \/ tasks[t].st = "ok" \/ tasks[t].op = "sheets")
      /\ PageKept /\ UNCHANGED <<marked, sheets, variance, calm>>
  BY DEF Dash!Fails, PageKept, Dash!backend, Dash!below
<1>2. /\ editor \in DashEditor /\ editor.turn <= turns /\ editor.turn \in 0..turns
      /\ editor # Dash!NoEditor => editor.on \in Dash!Sheets /\ editor.turn # 0 /\ sheets[editor.on] # "none"
      /\ editor.save # 0 => editor.save \in Dash!Tasks /\ tasks[editor.save].op = "edit"
  BY EditorIs DEF DashInv
<1>3. editor = Dash!NoEditor => editor.save = 0 /\ e = editor
  <2>1. Dash!NoEditor.save = 0 /\ 0 \notin Dash!Tasks
    BY DashBounds DEF Dash!NoEditor
  <2> QED BY <2>1
<1>4. /\ e \in DashEditor /\ e.turn = editor.turn /\ e.on = editor.on
      /\ e.save # 0 => e.save = editor.save /\ e.save # t
  BY <1>2 DEF DashEditor
<1> HIDE DEF e
<1>5. VarianceFits(variance') /\ missing' \in BOOLEAN /\ (~missing' => ~missing)
  BY <1>1, VarianceStays DEF DashInv
<1>6. ~missing' => ~Remarks(tasks[t]) /\ ~BringsSheets(tasks[t], turns, Dash!OpenSheets)
  BY <1>1 DEF Remarks, BringsSheets
<1>7. /\ editor'.save # 0 => editor'.save \in Dash!Tasks \ {t} /\ tasks[editor'.save].op = "edit"
      /\ editor' # Dash!NoEditor => editor'.on \in Dash!Sheets /\ editor'.turn # 0 /\ sheets[editor'.on] # "none"
  BY <1>1, <1>2, <1>3, <1>4
<1> QED BY <1>1, <1>2, <1>4, <1>5, <1>6, <1>7, OverKeeps

\* Lists are shown of renders on the page.
LEMMA ListsTyped ==
  ASSUME DashTyped, tasks' \in [Dash!Tasks -> DashTask],
         UNCHANGED <<marked, sheets, turns, loading, variance, missing, calm>>,
         sections' \in Seq(DashSection), frame' = "frame" \/ (frame' = frame /\ sections' = sections),
         Dash!OnPage \subseteq Dash!OnPage', \A i \in DOMAIN sections' : sections'[i].turn \in 1..turns,
         hosts' \in [Dash!Turns -> Seq(DashList)],
         \A n \in Dash!Turns : hosts'[n] # <<>> => n \in Dash!OnPage',
         editor' \in DashEditor, editor'.turn <= turns, editor'.turn \in 0..turns,
         editor' # Dash!NoEditor => editor'.on \in Dash!Sheets /\ editor'.turn # 0 /\ sheets[editor'.on] # "none",
         editor'.save # 0 => tasks'[editor'.save].op = "edit"
  PROVE  DashTyped'
<1>1. \A t \in Dash!Tasks :
        tasks'[t].op \in {"none", "frame", "sections", "mark", "unmark", "sheets", "create",
                          "read", "edit", "send", "cancel", "variance"}
  BY TaskKinds DEF DashOps
<1>2. \A i \in DOMAIN sections' : sections'[i] \in DashSection
  OBVIOUS
<1>3. \A i \in DOMAIN sections' : sections'[i].turn \in 1..turns' /\ sections'[i].marks \subseteq Goods
  BY <1>2 DEF DashSection
<1>4. \A n \in Dash!Turns : hosts'[n] # <<>> \/ variance'[n] # "shut" => n \in Dash!OnPage'
  BY DEF DashTyped, Dash!TypeOK
<1>5. frame' \in {"blank", "frame", "error"} /\ (frame' \in {"blank", "error"} => sections' = <<>>)
  BY DEF DashTyped, Dash!TypeOK
<1>6. /\ marked' \subseteq Goods /\ sheets' \in [Dash!Sheets -> {"none", "draft", "sent", "cancelled"}]
      /\ turns' \in Dash!Turns /\ {loading', missing', calm'} \subseteq BOOLEAN
      /\ variance' \in [Dash!Turns -> {"shut", "loading", "shown", "failed"}]
  BY DEF DashTyped, Dash!TypeOK
<1>7. Dash!TypeOK'
  BY <1>1, <1>3, <1>4, <1>5, <1>6 DEF Dash!TypeOK
<1> QED BY <1>7 DEF DashTyped

LEMMA AppendedSection ==
  ASSUME sections \in Seq(DashSection), NEW x \in DashSection, sections' = Append(sections, x)
  PROVE  /\ sections' \in Seq(DashSection)
         /\ Dash!OnPage \subseteq Dash!OnPage' /\ x.turn \in Dash!OnPage'
         /\ \A i \in DOMAIN sections' : sections'[i] = x \/ \E j \in DOMAIN sections : sections'[i] = sections[j]
<1>1. /\ sections' \in Seq(DashSection) /\ DOMAIN sections' = 1..(Len(sections) + 1)
      /\ DOMAIN sections = 1..Len(sections) /\ Len(sections) \in Nat
      /\ sections'[Len(sections) + 1] = x
      /\ \A i \in 1..Len(sections) : sections'[i] = sections[i]
  OBVIOUS
<1>2. Dash!OnPage' = {sections'[i].turn : i \in DOMAIN sections'}
  BY DEF Dash!OnPage
<1>3. Dash!OnPage \subseteq Dash!OnPage'
  BY <1>1, <1>2 DEF Dash!OnPage
<1>4. x.turn \in Dash!OnPage'
  BY <1>1, <1>2
<1> QED BY <1>1, <1>3, <1>4

LEMMA SectionsArriveKeeps ==
  ASSUME DashInv, NEW t \in Dash!Tasks, Dash!SectionsArrive(t)
  PROVE  DashInv'
<1> DEFINE n == tasks[t].turn
           x == [turn |-> n, marks |-> tasks[t].marks]
           k == Dash!Task("sheets", n, 0)
<1>1. /\ tasks \in [Dash!Tasks -> DashTask] /\ tasks[t] \in DashTask /\ hosts \in [Dash!Turns -> Seq(DashList)]
      /\ sections \in Seq(DashSection) /\ turns \in Nat
  BY DashTypes, DashBounds DEF DashInv
<1>2. /\ tasks[t].op = "sections" /\ frame' = "frame" /\ sections' = Append(sections, x)
      /\ hosts' = [hosts EXCEPT ![n] = <<>>] /\ Dash!Put(t, k)
      /\ UNCHANGED <<marked, sheets, turns, loading, variance, editor, missing, calm>>
  BY DEF Dash!SectionsArrive, Dash!backend
<1>3. n \in Dash!Turns /\ tasks[t].marks \subseteq Goods
  BY <1>1, <1>2, TaskKinds
<1>4. x \in DashSection /\ x.turn = n /\ x.marks = tasks[t].marks
  BY <1>3 DEF DashSection
<1>5. k \in DashTask /\ k.op = "sheets" /\ k.st = "sent" /\ k.turn = n
  BY <1>3, TaskNew DEF DashOps, DashOn
<1>6. n <= turns /\ n \in 1..turns
  <2>1. n <= turns
    BY <1>2 DEF DashInv, TasksAreKnown, KnownTask
  <2>2. n \in 1..MaxTurns /\ MaxTurns \in Nat
    BY <1>3, DashBounds
  <2> HIDE DEF n
  <2> QED BY <1>1, <2>1, <2>2
<1> HIDE DEF x, k, n
<1>7. /\ tasks' \in [Dash!Tasks -> DashTask] /\ tasks'[t] = k
      /\ \A u \in Dash!Tasks \ {t} : tasks'[u] = tasks[u]
  BY <1>1, <1>2, <1>5, TaskPut
<1>8. /\ sections' \in Seq(DashSection)
      /\ Dash!OnPage \subseteq Dash!OnPage' /\ n \in Dash!OnPage'
      /\ \A i \in DOMAIN sections' : sections'[i] = x \/ \E j \in DOMAIN sections : sections'[i] = sections[j]
  BY <1>1, <1>2, <1>4, AppendedSection
<1>9. /\ hosts' \in [Dash!Turns -> Seq(DashList)] /\ hosts'[n] = <<>>
      /\ \A m \in Dash!Turns \ {n} : hosts'[m] = hosts[m]
  BY <1>1, <1>2, <1>3
<1>10. DashTyped'
  <2>1. \A i \in DOMAIN sections' : sections'[i].turn \in 1..turns
    BY <1>4, <1>6, <1>8 DEF DashInv, DashTyped, Dash!TypeOK
  <2>2. \A m \in Dash!Turns : hosts'[m] # <<>> => m \in Dash!OnPage'
    BY <1>8, <1>9 DEF DashInv, DashTyped, Dash!TypeOK
  <2>3. /\ editor' \in DashEditor /\ editor'.turn <= turns /\ editor'.turn \in 0..turns
        /\ editor' # Dash!NoEditor => editor'.on \in Dash!Sheets /\ editor'.turn # 0 /\ sheets[editor'.on] # "none"
        /\ editor'.save # 0 => tasks'[editor'.save].op = "edit"
    BY <1>2, <1>5, EditorLeft DEF DashInv
  <2> QED BY <1>2, <1>7, <1>8, <1>9, <2>1, <2>2, <2>3, ListsTyped DEF DashInv
<1>11. TasksAreKnown'
  <2>1. KnownTask(k, sheets, turns)
    BY <1>5, <1>6 DEF KnownTask
  <2>2. \A m \in Dash!Turns : \A i \in DOMAIN hosts'[m] : KnownList(hosts'[m][i], sheets)
    <3>1. DOMAIN hosts'[n] = {}
      BY <1>9
    <3> QED BY <1>9, <3>1 DEF DashInv, TasksAreKnown
  <2> QED BY <1>2, <1>7, <2>1, <2>2 DEF DashInv, TasksAreKnown
<1>12. RendersAlone'
  BY <1>2, <1>5, <1>7 DEF DashInv, RendersAlone, IsRender
<1>13. calm => n = turns
  BY <1>2 DEF DashInv, CalmIsThisRender, IsRender, n
<1>14. CalmIsThisRender'
  BY <1>2, <1>4, <1>5, <1>7, <1>8, <1>13 DEF DashInv, CalmIsThisRender, IsRender
<1>15. SheetsAreComing'
  <2>1. calm => BringsSheets(tasks'[t], turns', Dash!OpenSheets')
    BY <1>2, <1>5, <1>7, <1>13 DEF BringsSheets
  <2> QED BY <1>2, <2>1 DEF SheetsAreComing
<1>16. MarksAreCurrent'
  <2> SUFFICES ASSUME calm, ~missing, \A u \in Dash!Tasks : ~Remarks(tasks'[u])
               PROVE  /\ \A i \in DOMAIN sections' : sections'[i].marks = marked
                      /\ \A u \in Dash!Tasks :
                           /\ tasks'[u].op = "frame" /\ tasks'[u].st = "ok" => tasks'[u].marks = marked
                           /\ tasks'[u].op = "sections" => tasks'[u].marks = marked
    BY <1>2 DEF MarksAreCurrent
  <2>1. \A u \in Dash!Tasks : ~Remarks(tasks[u])
    BY <1>2, <1>7 DEF Remarks
  <2>2. tasks[t].marks = marked
    BY <1>2, <2>1 DEF DashInv, MarksAreCurrent
  <2> QED BY <1>2, <1>4, <1>5, <1>7, <1>8, <2>1, <2>2 DEF DashInv, MarksAreCurrent
<1> QED BY <1>10, <1>11, <1>12, <1>14, <1>15, <1>16 DEF DashInv

LEMMA SheetsChangedKeeps ==
  ASSUME DashInv, NEW t \in Dash!Tasks, Dash!SheetsChanged(t)
  PROVE  DashInv'
<1> DEFINE n == tasks[t].turn
           k == Dash!Task("sheets", n, 0)
<1>1. /\ tasks \in [Dash!Tasks -> DashTask] /\ tasks[t] \in DashTask /\ hosts \in [Dash!Turns -> Seq(DashList)]
      /\ sections \in Seq(DashSection) /\ turns \in Nat
  BY DashTypes, DashBounds DEF DashInv
<1>2. /\ tasks[t].op \in {"create", "edit", "send", "cancel"} /\ Dash!Put(t, k)
      /\ hosts' = [hosts EXCEPT ![n] = <<>>]
      /\ editor' = IF editor.save = t THEN Dash!NoEditor ELSE editor
      /\ UNCHANGED <<marked, sheets, turns, frame, loading, sections, variance, missing, calm>>
  BY DEF Dash!SheetsChanged, Dash!backend
<1>3. n \in Dash!Turns /\ n <= turns
  BY <1>1, <1>2, TaskKinds DEF DashInv, TasksAreKnown, KnownTask
<1>4. k \in DashTask /\ k.op = "sheets" /\ k.st = "sent" /\ k.turn = n
  BY <1>3, TaskNew DEF DashOps, DashOn
<1>5. calm /\ tasks[t].op # "edit" => n = turns
  BY <1>2 DEF DashInv, CalmIsThisRender
<1> HIDE DEF k, n
<1>6. /\ tasks' \in [Dash!Tasks -> DashTask] /\ tasks'[t] = k
      /\ \A u \in Dash!Tasks \ {t} : tasks'[u] = tasks[u]
  BY <1>1, <1>2, <1>4, TaskPut
<1>7. /\ hosts' \in [Dash!Turns -> Seq(DashList)] /\ hosts'[n] = <<>>
      /\ \A m \in Dash!Turns \ {n} : hosts'[m] = hosts[m]
  BY <1>1, <1>2, <1>3
<1>8. Dash!OnPage' = Dash!OnPage /\ Dash!OpenSheets' = Dash!OpenSheets
  BY <1>2 DEF Dash!OnPage, Dash!OpenSheets
<1>9. DashTyped'
  <2>1. \A i \in DOMAIN sections' : sections'[i].turn \in 1..turns
    BY <1>2 DEF DashInv, DashTyped, Dash!TypeOK
  <2>2. \A m \in Dash!Turns : hosts'[m] # <<>> => m \in Dash!OnPage'
    BY <1>7, <1>8 DEF DashInv, DashTyped, Dash!TypeOK
  <2>3. /\ editor' \in DashEditor /\ editor'.turn <= turns /\ editor'.turn \in 0..turns
        /\ editor' # Dash!NoEditor => editor'.on \in Dash!Sheets /\ editor'.turn # 0 /\ sheets[editor'.on] # "none"
        /\ editor'.save # 0 => tasks'[editor'.save].op = "edit"
    <3>1. CASE editor.save = t
      <4>1. editor' = Dash!NoEditor
        BY <1>2, <3>1
      <4>2. Dash!NoEditor \in DashEditor /\ Dash!NoEditor.turn = 0 /\ Dash!NoEditor.save = 0
        BY DEF DashEditor, Dash!NoEditor
      <4> QED BY <1>1, <4>1, <4>2
    <3>2. CASE editor.save # t
      BY <1>2, <1>6, <3>2, EditorIs DEF DashInv
    <3> QED BY <3>1, <3>2
  <2>4. sections' \in Seq(DashSection)
    BY <1>1, <1>2
  <2> QED BY <1>2, <1>6, <1>7, <1>8, <2>1, <2>2, <2>3, <2>4, ListsTyped DEF DashInv
<1>10. TasksAreKnown'
  <2>1. KnownTask(k, sheets, turns)
    BY <1>3, <1>4 DEF KnownTask
  <2>2. \A m \in Dash!Turns : \A i \in DOMAIN hosts'[m] : KnownList(hosts'[m][i], sheets)
    <3>1. DOMAIN hosts'[n] = {}
      BY <1>7
    <3> QED BY <1>7, <3>1 DEF DashInv, TasksAreKnown
  <2> QED BY <1>2, <1>6, <2>1, <2>2 DEF DashInv, TasksAreKnown
<1>11. RendersAlone'
  BY <1>2, <1>4, <1>6 DEF DashInv, RendersAlone, IsRender
<1>12. CalmIsThisRender'
  BY <1>2, <1>4, <1>6 DEF DashInv, CalmIsThisRender, IsRender
<1>13. SheetsAreComing'
  <2>1. CASE n = turns
    <3>1. BringsSheets(tasks'[t], turns', Dash!OpenSheets')
      BY <1>2, <1>4, <1>6, <2>1 DEF BringsSheets
    <3> QED BY <3>1 DEF SheetsAreComing
  <2>2. CASE n # turns
    <3>1. ~BringsSheets(tasks[t], turns, Dash!OpenSheets)
      BY <2>2 DEF BringsSheets, n
    <3>2. turns \in Dash!Turns
      BY DashTypes DEF DashInv
    <3> QED BY <1>2, <1>6, <1>7, <1>8, <2>2, <3>1, <3>2 DEF DashInv, SheetsAreComing
  <2> QED BY <2>1, <2>2
<1>14. MarksAreCurrent'
  <2>1. \A u \in Dash!Tasks : Remarks(tasks'[u]) <=> Remarks(tasks[u])
    BY <1>2, <1>4, <1>6 DEF Remarks
  <2> QED BY <1>2, <1>4, <1>6, <2>1 DEF DashInv, MarksAreCurrent
<1> QED BY <1>9, <1>10, <1>11, <1>12, <1>13, <1>14 DEF DashInv

LEMMA AppendedList ==
  ASSUME NEW q \in Seq(DashList), NEW l \in DashList
  PROVE  /\ Append(q, l) \in Seq(DashList) /\ DOMAIN Append(q, l) = DOMAIN q \cup {Len(q) + 1}
         /\ Append(q, l)[Len(q) + 1] = l
         /\ \A i \in DOMAIN q : Append(q, l)[i] = q[i]
<1>1. Len(q) \in Nat /\ DOMAIN q = 1..Len(q)
  OBVIOUS
<1>2. /\ Append(q, l) \in Seq(DashList) /\ DOMAIN Append(q, l) = 1..(Len(q) + 1)
      /\ Append(q, l)[Len(q) + 1] = l
      /\ \A i \in 1..Len(q) : Append(q, l)[i] = q[i]
  OBVIOUS
<1> QED BY <1>1, <1>2

LEMMA SheetsArriveKeeps ==
  ASSUME DashInv, NEW t \in Dash!Tasks, Dash!SheetsArrive(t)
  PROVE  DashInv'
<1> DEFINE n == tasks[t].turn
           l == tasks[t].open
<1>1. /\ tasks \in [Dash!Tasks -> DashTask] /\ tasks[t] \in DashTask /\ hosts \in [Dash!Turns -> Seq(DashList)]
      /\ sections \in Seq(DashSection) /\ turns \in Dash!Turns
  BY DashTypes DEF DashInv
<1>2. /\ tasks[t].op = "sheets" /\ tasks[t].st = "ok" /\ Dash!Put(t, Dash!NoTask)
      /\ hosts' = [hosts EXCEPT ![n] = IF n \in Dash!OnPage THEN Append(hosts[n], l) ELSE hosts[n]]
      /\ UNCHANGED <<marked, sheets, turns, frame, loading, sections, variance, editor, missing, calm>>
  BY DEF Dash!SheetsArrive, Dash!backend
<1>3. n \in Dash!Turns /\ l \in DashList /\ KnownList(l, sheets)
  BY <1>1, <1>2, TaskKinds DEF DashInv, TasksAreKnown, KnownTask
<1>4. Dash!NoTask \in DashTask /\ Dash!NoTask.op = "none"
  BY TaskNew
<1>5. /\ tasks' \in [Dash!Tasks -> DashTask] /\ tasks'[t] = Dash!NoTask
      /\ \A u \in Dash!Tasks \ {t} : tasks'[u] = tasks[u]
  BY <1>1, <1>2, <1>4, TaskPut
<1>6. BringsSheets(tasks[t], turns, Dash!OpenSheets) => n = turns /\ l = Dash!OpenSheets
  BY <1>2 DEF BringsSheets
<1> HIDE DEF n, l
<1>7. /\ hosts' \in [Dash!Turns -> Seq(DashList)]
      /\ \A m \in Dash!Turns \ {n} : hosts'[m] = hosts[m]
      /\ n \notin Dash!OnPage => hosts'[n] = hosts[n]
      /\ n \in Dash!OnPage => /\ DOMAIN hosts'[n] = DOMAIN hosts[n] \cup {Len(hosts[n]) + 1}
                              /\ hosts'[n][Len(hosts[n]) + 1] = l
                              /\ \A i \in DOMAIN hosts[n] : hosts'[n][i] = hosts[n][i]
  <2>1. CASE n \in Dash!OnPage
    <3>1. hosts' = [hosts EXCEPT ![n] = Append(hosts[n], l)] /\ hosts[n] \in Seq(DashList)
      BY <1>1, <1>2, <1>3, <2>1
    <3>2. Append(hosts[n], l) \in Seq(DashList)
      BY <1>3, <3>1, AppendedList
    <3>3. /\ hosts' \in [Dash!Turns -> Seq(DashList)] /\ hosts'[n] = Append(hosts[n], l)
          /\ \A m \in Dash!Turns \ {n} : hosts'[m] = hosts[m]
      BY <1>1, <1>3, <3>1, <3>2
    <3> QED BY <1>3, <2>1, <3>1, <3>3, AppendedList
  <2>2. CASE n \notin Dash!OnPage
    BY <1>1, <1>2, <1>3, <2>2
  <2> QED BY <2>1, <2>2
<1>8. Dash!OnPage' = Dash!OnPage /\ Dash!OpenSheets' = Dash!OpenSheets
  BY <1>2 DEF Dash!OnPage, Dash!OpenSheets
<1>9. DashTyped'
  <2>1. \A i \in DOMAIN sections' : sections'[i].turn \in 1..turns
    BY <1>2 DEF DashInv, DashTyped, Dash!TypeOK
  <2>2. \A m \in Dash!Turns : hosts'[m] # <<>> => m \in Dash!OnPage'
    BY <1>7, <1>8 DEF DashInv, DashTyped, Dash!TypeOK
  <2>3. /\ editor' \in DashEditor /\ editor'.turn <= turns /\ editor'.turn \in 0..turns
        /\ editor' # Dash!NoEditor => editor'.on \in Dash!Sheets /\ editor'.turn # 0 /\ sheets[editor'.on] # "none"
        /\ editor'.save # 0 => tasks'[editor'.save].op = "edit"
    BY <1>2, <1>4, EditorLeft DEF DashInv
  <2>4. sections' \in Seq(DashSection)
    BY <1>1, <1>2
  <2> QED BY <1>2, <1>5, <1>7, <1>8, <2>1, <2>2, <2>3, <2>4, ListsTyped DEF DashInv
<1>10. TasksAreKnown'
  <2>1. KnownTask(Dash!NoTask, sheets, turns)
    BY <1>4 DEF KnownTask
  <2>2. \A m \in Dash!Turns : \A i \in DOMAIN hosts'[m] : KnownList(hosts'[m][i], sheets)
    BY <1>3, <1>7 DEF DashInv, TasksAreKnown
  <2> QED BY <1>2, <1>5, <2>1, <2>2 DEF DashInv, TasksAreKnown
<1>11. RendersAlone'
  BY <1>2, <1>4, <1>5 DEF DashInv, RendersAlone, IsRender
<1>12. CalmIsThisRender'
  BY <1>2, <1>4, <1>5 DEF DashInv, CalmIsThisRender, IsRender
<1>13. SheetsAreComing'
  <2> SUFFICES ASSUME calm, ~missing, turns \in Dash!OnPage
               PROVE  \/ \E i \in DOMAIN hosts'[turns] : hosts'[turns][i] = Dash!OpenSheets
                      \/ \E u \in Dash!Tasks : BringsSheets(tasks'[u], turns, Dash!OpenSheets)
    BY <1>2, <1>8 DEF SheetsAreComing
  <2>1. CASE \E i \in DOMAIN hosts[turns] : hosts[turns][i] = Dash!OpenSheets
    BY <1>1, <1>7, <2>1
  <2>2. CASE BringsSheets(tasks[t], turns, Dash!OpenSheets)
    BY <1>6, <1>7, <2>2
  <2>3. CASE \E u \in Dash!Tasks \ {t} : BringsSheets(tasks[u], turns, Dash!OpenSheets)
    BY <1>5, <2>3
  <2> QED BY <2>1, <2>2, <2>3 DEF DashInv, SheetsAreComing
<1>14. MarksAreCurrent'
  <2>1. \A u \in Dash!Tasks : Remarks(tasks'[u]) <=> Remarks(tasks[u])
    BY <1>2, <1>4, <1>5 DEF Remarks
  <2> QED BY <1>2, <1>4, <1>5, <2>1 DEF DashInv, MarksAreCurrent
<1> QED BY <1>9, <1>10, <1>11, <1>12, <1>13, <1>14 DEF DashInv

LEMMA DashSettles ==
  ASSUME DashInv, NEW t \in Dash!Tasks, Dash!Settle(t)
  PROVE  DashInv'
<1>1. CASE Dash!Serve(t)
  BY <1>1, ServeDashKeeps
<1>2. CASE Dash!FrameArrives(t) \/ Dash!RenderFails(t)
  BY <1>2, FrameArrivesKeeps
<1>3. CASE Dash!ServeLookups(t)
  BY <1>3, ServeLookupsKeeps
<1>4. CASE Dash!SectionsArrive(t)
  BY <1>4, SectionsArriveKeeps
<1>5. CASE Dash!MarkAccepted(t)
  <2>1. /\ Dash!Render(t) /\ tasks[t].op # "edit"
        /\ UNCHANGED <<marked, sheets, editor, missing>>
    BY <1>5 DEF Dash!MarkAccepted, Dash!backend
  <2> QED BY <2>1, RenderKeepsDash
<1>6. CASE Dash!SheetsChanged(t)
  BY <1>6, SheetsChangedKeeps
<1>7. CASE Dash!SheetsArrive(t)
  BY <1>7, SheetsArriveKeeps
<1>8. CASE Dash!EditorOpens(t)
  BY <1>8, EditorOpensKeeps
<1>9. CASE Dash!VarianceAnswered(t)
  BY <1>9, VarianceAnsweredKeeps
<1>10. CASE Dash!Fails(t)
  BY <1>10, FailsKeeps
<1> QED BY <1>1, <1>2, <1>3, <1>4, <1>5, <1>6, <1>7, <1>8, <1>9, <1>10 DEF Dash!Settle

LEMMA DashUsed ==
  ASSUME DashInv, NEW t \in Dash!Tasks, Dash!User(t)
  PROVE  DashInv'
<1>1. CASE Dash!Retry(t)
  <2>1. /\ Dash!Render(t) /\ Dash!FreeTask(t) /\ UNCHANGED <<marked, sheets, editor, missing>>
    BY <1>1 DEF Dash!Retry, Dash!backend
  <2>2. tasks[t].op # "edit"
    BY <2>1, FreeTaskIs, TaskNew
  <2> QED BY <2>1, <2>2, RenderKeepsDash
<1>2. CASE Dash!SaveSheet(t)
  BY <1>2, SaveSheetKeeps
<1>3. ASSUME NEW i \in DOMAIN sections, NEW g \in Goods, Dash!Mark(t, i, g) PROVE DashInv'
  <2>1. PICK op \in {"mark", "unmark"} : Dash!Send(t, op, sections[i].turn, g)
    BY <1>3 DEF Dash!Mark
  <2>2. g \in DashOn /\ op \in DashOps
    BY DEF DashOn, DashOps
  <2> QED BY <2>1, <2>2, SendDashKeeps
<1>4. "create" \in DashOps /\ "send" \in DashOps /\ "cancel" \in DashOps /\ "read" \in DashOps
      /\ 0 \in DashOn /\ Dash!Sheets \subseteq DashOn
  BY DEF DashOps, DashOn
<1>5. ASSUME NEW n \in 1..turns, Dash!CreateSheet(t, n) PROVE DashInv'
  BY <1>4, <1>5, SendDashKeeps DEF Dash!CreateSheet
<1>6. ASSUME NEW n \in 1..turns, Dash!OpenVariance(t, n) PROVE DashInv'
  BY <1>6, OpenVarianceKeeps
<1>7. ASSUME NEW n \in 1..turns, NEW s \in Dash!Sheets, Dash!SendSheet(t, n, s) PROVE DashInv'
  BY <1>4, <1>7, SendDashKeeps DEF Dash!SendSheet
<1>8. ASSUME NEW n \in 1..turns, NEW s \in Dash!Sheets, Dash!CancelSheet(t, n, s) PROVE DashInv'
  BY <1>4, <1>8, SendDashKeeps DEF Dash!CancelSheet
<1>9. ASSUME NEW n \in 1..turns, NEW s \in Dash!Sheets, Dash!ReadSheet(t, n, s) PROVE DashInv'
  <2>1. sheets[s] # "none"
    BY <1>9, ListedIsKnown DEF Dash!ReadSheet
  <2> QED BY <1>4, <1>9, <2>1, SendDashKeeps DEF Dash!ReadSheet
<1> QED BY <1>1, <1>2, <1>3, <1>5, <1>6, <1>7, <1>8, <1>9 DEF Dash!User

LEMMA DashStep == DashInv /\ [Dash!DashNext]_dashVars => DashInv'
<1> SUFFICES ASSUME DashInv, [Dash!DashNext]_dashVars PROVE DashInv'
  OBVIOUS
<1>1. CASE Dash!DashNext
  BY <1>1, DashSettles, DashUsed, CloseEditorKeeps DEF Dash!DashNext
<1>2. CASE UNCHANGED dashVars
  <2>1. DashTyped'
    BY <1>2 DEF dashVars, DashInv, DashTyped, Dash!TypeOK, Dash!OnPage
  <2>2. TasksAreKnown' /\ RendersAlone' /\ CalmIsThisRender'
    BY <1>2 DEF dashVars, DashInv, TasksAreKnown, RendersAlone, CalmIsThisRender
  <2>3. SheetsAreComing' /\ MarksAreCurrent'
    BY <1>2 DEF dashVars, DashInv, SheetsAreComing, MarksAreCurrent, Dash!OnPage, Dash!OpenSheets
  <2> QED BY <2>1, <2>2, <2>3 DEF DashInv
<1> QED BY <1>1, <1>2

LEMMA DashStart == Dash!DashInit => DashInv
<1> SUFFICES ASSUME Dash!DashInit PROVE DashInv
  OBVIOUS
<1> DEFINE k == Dash!Task("frame", 1, 0)
<1>1. /\ marked \subseteq Goods /\ sheets = [i \in Dash!Sheets |-> "none"]
      /\ tasks = [t \in Dash!Tasks |-> IF t = 1 THEN k ELSE Dash!NoTask]
      /\ turns = 1 /\ frame = "blank" /\ loading = TRUE /\ sections = <<>>
      /\ hosts = [n \in Dash!Turns |-> <<>>] /\ editor = Dash!NoEditor
      /\ variance = [n \in Dash!Turns |-> "shut"] /\ missing = FALSE /\ calm = TRUE
  BY DEF Dash!DashInit
<1>2. 1 \in Dash!Turns /\ 1 \in Dash!Tasks
  BY DashBounds
<1>3. k \in DashTask /\ k.op = "frame" /\ k.st = "sent" /\ k.turn = 1
  BY <1>2, TaskNew DEF DashOps, DashOn
<1>4. Dash!NoTask \in DashTask /\ Dash!NoTask.op = "none"
  BY TaskNew
<1> HIDE DEF k
<1>5. /\ tasks \in [Dash!Tasks -> DashTask] /\ tasks[1] = k
      /\ \A t \in Dash!Tasks \ {1} : tasks[t] = Dash!NoTask
  BY <1>1, <1>2, <1>3, <1>4
<1>6. DOMAIN sections = {} /\ \A n \in Dash!Turns : hosts[n] = <<>> /\ variance[n] = "shut"
  BY <1>1
<1>7. /\ Dash!NoEditor \in DashEditor /\ Dash!NoEditor.turn = 0 /\ Dash!NoEditor.save = 0
  BY DEF DashEditor, Dash!NoEditor
<1>8. DashTyped
  <2>1. \A t \in Dash!Tasks : tasks[t].op \in {"none", "frame"}
    BY <1>3, <1>4, <1>5
  <2>2. /\ sections \in Seq(DashSection) /\ hosts \in [Dash!Turns -> Seq(DashList)]
        /\ variance \in [Dash!Turns -> {"shut", "loading", "shown", "failed"}]
        /\ sheets \in [Dash!Sheets -> {"none", "draft", "sent", "cancelled"}]
    BY <1>1
  <2>3. 0 \in 0..turns
    BY <1>1
  <2>4. Dash!TypeOK
    BY <1>1, <1>2, <1>6, <1>7, <2>1, <2>2, <2>3 DEF Dash!TypeOK
  <2> QED BY <1>1, <1>5, <1>7, <2>2, <2>4 DEF DashTyped
<1>9. TasksAreKnown
  <2>1. \A t \in Dash!Tasks : KnownTask(tasks[t], sheets, turns)
    BY <1>1, <1>3, <1>4, <1>5 DEF KnownTask
  <2>2. \A n \in Dash!Turns : DOMAIN hosts[n] = {}
    BY <1>6
  <2> QED BY <2>1, <2>2 DEF TasksAreKnown
<1>10. RendersAlone
  BY <1>4, <1>5 DEF RendersAlone, IsRender
<1>11. CalmIsThisRender
  BY <1>1, <1>3, <1>4, <1>5, <1>6 DEF CalmIsThisRender, IsRender
<1>12. SheetsAreComing
  BY <1>6 DEF SheetsAreComing, Dash!OnPage
<1>13. MarksAreCurrent
  BY <1>3, <1>4, <1>5, <1>6 DEF MarksAreCurrent
<1> QED BY <1>8, <1>9, <1>10, <1>11, <1>12, <1>13 DEF DashInv

LEMMA DashAnswered == DashInv => Dash!TypeOK /\ Dash!OpenSheetsShown /\ Dash!MarkersAreTrue
<1> SUFFICES ASSUME DashInv PROVE Dash!TypeOK /\ Dash!OpenSheetsShown /\ Dash!MarkersAreTrue
  OBVIOUS
<1>1. Dash!TypeOK
  BY DEF DashInv, DashTyped
<1>2. ASSUME Dash!Answered
      PROVE  /\ \E n \in DOMAIN hosts[Dash!Top.turn] : hosts[Dash!Top.turn][n] = Dash!OpenSheets
             /\ Dash!Top.marks = marked
  <2>1. calm /\ ~missing /\ Len(sections) = 1 /\ sections \in Seq(DashSection)
        /\ \A t \in Dash!Tasks : tasks[t].op = "none"
    BY <1>2, TaskNew, DashTypes DEF Dash!Answered, Dash!Still, DashInv
  <2>2. 1 \in DOMAIN sections /\ Dash!Top = sections[1]
    BY <2>1 DEF Dash!Top
  <2>3. Dash!Top.turn = turns /\ turns \in Dash!OnPage
    BY <2>1, <2>2 DEF DashInv, CalmIsThisRender, Dash!OnPage
  <2>4. \A t \in Dash!Tasks : ~BringsSheets(tasks[t], turns, Dash!OpenSheets) /\ ~Remarks(tasks[t])
    BY <2>1 DEF BringsSheets, Remarks
  <2>5. \E n \in DOMAIN hosts[turns] : hosts[turns][n] = Dash!OpenSheets
    BY <2>1, <2>3, <2>4 DEF DashInv, SheetsAreComing
  <2>6. sections[1].marks = marked
    BY <2>1, <2>2, <2>4 DEF DashInv, MarksAreCurrent
  <2> QED BY <2>2, <2>3, <2>5, <2>6
<1> QED BY <1>1, <1>2 DEF Dash!OpenSheetsShown, Dash!MarkersAreTrue

--------------------------------------------------------------------------------
\* The settings forms.
FormHeld == [is: {"blank", "form", "error"}, value: Values, todo: BOOLEAN, strict: BOOLEAN,
             known: BOOLEAN, moved: BOOLEAN, grants: SUBSET Subjects, cats: SUBSET Cats,
             rows: SUBSET Cats, wrong: SUBSET Settings!Places, errors: SUBSET Settings!Places]
PostAsked == [op: {"render", "acl", "press"}, st: {"sent"}]
PostSent == [op: {"save", "put"}, st: {"sent"}, put: FormHeld,
             subject: Subjects \cup {Settings!NoSubject}, on: BOOLEAN, sure: BOOLEAN]
PostServed == [op: {"render", "acl", "press", "save", "put"}, st: {"ok"}, got: Settings!Config,
               said: Values \cup {Settings!NothingYet}, on: BOOLEAN]
PostRefused == [op: {"save"}, st: {"refused"}]
PostKind == UNION {{Settings!Nobody}, PostAsked, PostSent, PostServed, PostRefused}
\* Only a section's own requests are under way.
PostBelongs(p, sec) ==
  /\ p.op = "save" => sec \in Settings!HasFields \cup {"restock"}
  /\ p.op \in {"put", "acl"} => sec = "location-access"
  /\ p.op = "press" => sec \in Settings!HasButton
  /\ p.op = "save" /\ p.st = "ok" => p.said \in Values
SettingsTyped ==
  /\ Settings!TypeOK
  /\ fields \in FormHeld /\ disabled \in BOOLEAN
  /\ posts \in [Settings!Slots -> PostKind]
  /\ \A s \in Settings!Slots : PostBelongs(posts[s], section)
IsSaved(p) == p.op = "save" /\ p.st = "ok"
\* The office's saves wait for each other, so the last one told is the last one served.
OfficeInv ==
  section = "office" =>
    /\ \A s, t \in Settings!Slots : posts[s].op = "save" /\ posts[t].op = "save" => s = t
    /\ \A s \in Settings!Slots : posts[s].op = "save" => disabled = TRUE
    /\ \A s \in Settings!Slots : IsSaved(posts[s]) => posts[s].said = config.value
    /\ ~missed /\ told \in Values /\ (\A s \in Settings!Slots : ~IsSaved(posts[s]))
         => config.value = told
\* What holds of a page whose only request is p.
ErrorsFit(p, f, tld) ==
  /\ p.op = "save" => f.errors = {}
  /\ tld \in Values /\ p.op # "render" => f.errors = {}
FlagsFit(p, c, f, fl) ==
  /\ ~IsSaved(p) => fl = c.value
  /\ p.op = "save" /\ p.st = "sent" => p.put.value = f.value
  /\ IsSaved(p) => c.value = f.value
GrantsFit(p, c, f) ==
  f.is = "form" /\ p.op # "render" /\ ~(p.op = "put" /\ p.st = "ok") /\ f.known
    => f.grants = c.grants
CatsFit(p, c, f) ==
  /\ f.is = "form" /\ p.op # "render" => f.cats = c.cats /\ f.rows = c.cats
  /\ p.op = "save" /\ p.st = "sent" => p.put.cats = c.cats
TodoFits(p, c, f) ==
  f.is = "form" /\ p.op # "render" /\ ~(p.op = "press" /\ p.st = "ok") => f.todo = c.todo
StrictFits(p, c, f) ==
  /\ f.is = "form" /\ f.known /\ ~f.moved /\ p.op # "render" => f.strict = c.strict
  /\ p.op = "put" /\ p.st = "sent" =>
       IF p.sure THEN p.put.strict = c.strict ELSE ~(f.known /\ ~f.moved)
ApartFits(p, c, f, tld, fl, m, sec) ==
  /\ p.st = "ok" => p.got = c
  /\ ErrorsFit(p, f, tld)
  /\ sec = "product-lookup" /\ ~m => FlagsFit(p, c, f, fl)
  /\ sec = "location-access" => (~m => GrantsFit(p, c, f)) /\ StrictFits(p, c, f)
  /\ sec = "restock" => CatsFit(p, c, f)
  /\ sec \in Settings!HasButton /\ ~m => TodoFits(p, c, f)
ApartInv ==
  apart => \E s \in Settings!Slots :
             /\ \A t \in Settings!Slots \ {s} : posts[t].op = "none"
             /\ ApartFits(posts[s], config, fields, told, flags, missed, section)
SettingsInv == SettingsTyped /\ OfficeInv /\ ApartInv

LEMMA SettingsBounds ==
  /\ MaxCalls \in Nat \ {0} /\ Settings!Slots = 1..MaxCalls /\ 1 \in Settings!Slots
  /\ \E v \in Values : v \notin Refused
  /\ Settings!NotSaved \notin Values /\ Settings!NothingYet \notin Values
BY PagesAssumption DEF PagesAssumption, Settings!SettingsAssumption, Settings!Slots

LEMMA PostKinds ==
  ASSUME NEW p \in PostKind
  PROVE  /\ p.op = "none" <=> p = Settings!Nobody
         /\ p.op \in {"none", "render", "acl", "save", "put", "press"}
         /\ p.st \in {"none", "sent", "ok", "refused"} /\ (p.st = "none" <=> p.op = "none")
         /\ p.st = "refused" => p.op = "save"
         /\ p.op \in {"save", "put"} /\ p.st = "sent" => p \in PostSent
         /\ p.st = "ok" => p \in PostServed
<1>1. \/ p = Settings!Nobody \/ p \in PostAsked \/ p \in PostSent \/ p \in PostServed
      \/ p \in PostRefused
  BY DEF PostKind
<1>2. Settings!Nobody.op = "none" /\ Settings!Nobody.st = "none"
  BY DEF Settings!Nobody
<1>3. CASE p = Settings!Nobody
  BY <1>2, <1>3
<1>4. CASE p \in PostAsked
  <2>1. p.op \in {"render", "acl", "press"} /\ p.st = "sent"
    BY <1>4 DEF PostAsked
  <2> QED BY <1>2, <2>1
<1>5. CASE p \in PostSent
  <2>1. p.op \in {"save", "put"} /\ p.st = "sent"
    BY <1>5 DEF PostSent
  <2> QED BY <1>2, <1>5, <2>1
<1>6. CASE p \in PostServed
  <2>1. p.op \in {"render", "acl", "press", "save", "put"} /\ p.st = "ok"
    BY <1>6 DEF PostServed
  <2> QED BY <1>2, <1>6, <2>1
<1>7. CASE p \in PostRefused
  <2>1. p.op = "save" /\ p.st = "refused"
    BY <1>7 DEF PostRefused
  <2> QED BY <1>2, <2>1
<1> QED BY <1>1, <1>3, <1>4, <1>5, <1>6, <1>7

LEMMA PostNew ==
  /\ Settings!Nobody \in PostKind /\ Settings!Nobody.op = "none" /\ Settings!Nobody.st = "none"
  /\ \A op \in {"render", "acl", "press"} :
       LET p == [op |-> op, st |-> "sent"]
       IN  p \in PostKind /\ p.op = op /\ p.st = "sent"
  /\ LET p == [op |-> "save", st |-> "refused"]
     IN  p \in PostKind /\ p.op = "save" /\ p.st = "refused"
<1>1. Settings!Nobody \in PostKind /\ Settings!Nobody.op = "none" /\ Settings!Nobody.st = "none"
  BY DEF PostKind, Settings!Nobody
<1>2. ASSUME NEW op \in {"render", "acl", "press"}
      PROVE  LET p == [op |-> op, st |-> "sent"]
             IN  p \in PostKind /\ p.op = op /\ p.st = "sent"
  BY DEF PostKind, PostAsked
<1>3. LET p == [op |-> "save", st |-> "refused"]
      IN  p \in PostKind /\ p.op = "save" /\ p.st = "refused"
  BY DEF PostKind, PostRefused
<1> QED BY <1>1, <1>2, <1>3

LEMMA SettingsTypes ==
  SettingsTyped => /\ posts \in [Settings!Slots -> PostKind] /\ fields \in FormHeld
                   /\ config \in Settings!Config /\ config.value \notin Refused
                   /\ section \in Settings!Sections /\ flags \in Values
                   /\ told \in Values \cup {Settings!NothingYet, Settings!NotSaved}
                   /\ disabled \in BOOLEAN /\ pressed \in BOOLEAN /\ missed \in BOOLEAN
                   /\ apart \in BOOLEAN
BY DEF SettingsTyped, Settings!TypeOK

LEMMA SettingsTypedOn ==
  ASSUME NEW s \in Settings!Slots, NEW p \in PostKind, SettingsTyped,
         posts' = [posts EXCEPT ![s] = p], section' = section, PostBelongs(p, section),
         config' \in Settings!Config, config'.value \notin Refused, fields' \in FormHeld,
         flags' \in Values, told' \in Values \cup {Settings!NothingYet, Settings!NotSaved},
         {pressed', missed', apart'} \subseteq BOOLEAN, disabled' \in BOOLEAN,
         disabled' => section = "office" /\ \E t \in Settings!Slots : posts'[t].op = "save",
         pressed' => /\ section \in Settings!HasButton
                     /\ \E t \in Settings!Slots : posts'[t].op \in {"press", "render"}
  PROVE  SettingsTyped'
<1>1. /\ posts' \in [Settings!Slots -> PostKind] /\ posts'[s] = p
      /\ \A t \in Settings!Slots \ {s} : posts'[t] = posts[t]
  BY SettingsTypes
<1>2. \A t \in Settings!Slots : posts'[t].op \in {"none", "render", "acl", "save", "put", "press"}
  BY <1>1, PostKinds
<1>3. /\ fields'.is \in {"blank", "form", "error"} /\ fields'.value \in Values
      /\ {fields'.wrong, fields'.errors} \subseteq SUBSET Settings!Places
  BY DEF FormHeld
<1>4. \A t \in Settings!Slots : PostBelongs(posts'[t], section)
  BY <1>1 DEF SettingsTyped
<1>5. DOMAIN posts' = Settings!Slots /\ section' \in Settings!Sections
  BY <1>1, SettingsTypes
<1>6. Settings!TypeOK'
  BY <1>2, <1>3, <1>5 DEF Settings!TypeOK
<1> QED BY <1>1, <1>4, <1>6 DEF SettingsTyped

LEMMA ApartAt ==
  ASSUME SettingsInv, apart, NEW s \in Settings!Slots,
         \A t \in Settings!Slots \ {s} : posts[t].op = "none"
  PROVE  ApartFits(posts[s], config, fields, told, flags, missed, section)
<1>1. PICK w \in Settings!Slots :
        /\ \A t \in Settings!Slots \ {w} : posts[t].op = "none"
        /\ ApartFits(posts[w], config, fields, told, flags, missed, section)
  BY DEF SettingsInv, ApartInv
<1>2. CASE w = s
  BY <1>1, <1>2
<1>3. CASE w # s
  <2>1. posts[w].op = "none" /\ posts[s].op = "none"
    BY <1>1, <1>3
  <2>2. posts[w] = posts[s]
    BY <2>1, PostKinds, SettingsTypes DEF SettingsInv
  <2> QED BY <1>1, <2>2
<1> QED BY <1>2, <1>3

LEMMA ApartAlone ==
  ASSUME SettingsInv, apart, NEW s \in Settings!Slots, posts[s].op # "none"
  PROVE  \A t \in Settings!Slots \ {s} : posts[t].op = "none"
BY DEF SettingsInv, ApartInv

LEMMA ApartSlot ==
  ASSUME SettingsTyped, NEW s \in Settings!Slots, NEW p \in PostKind,
         posts' = [posts EXCEPT ![s] = p],
         apart' => /\ \A t \in Settings!Slots \ {s} : posts[t].op = "none"
                   /\ ApartFits(p, config', fields', told', flags', missed', section')
  PROVE  ApartInv'
<1>1. /\ posts'[s] = p
      /\ \A t \in Settings!Slots \ {s} : posts'[t] = posts[t]
  BY SettingsTypes
<1> QED BY <1>1 DEF ApartInv

LEMMA SettingsOthers ==
  ASSUME SettingsTyped, NEW s \in Settings!Slots
  PROVE  ~Settings!Others(s) <=> \A t \in Settings!Slots \ {s} : posts[t].op = "none"
BY PostKinds, SettingsTypes DEF Settings!Others

\* No save is asked for, answered or told of.
LEMMA OfficeQuiet ==
  ASSUME SettingsTyped, OfficeInv, NEW s \in Settings!Slots, NEW p \in PostKind,
         posts' = [posts EXCEPT ![s] = p], section' = section,
         section = "office" => /\ p.op # "save" /\ posts[s].op # "save"
                               /\ told' = told /\ (~missed' => ~missed) /\ disabled' = disabled
                               /\ config'.value = config.value
  PROVE  OfficeInv'
<1>1. /\ posts'[s] = p
      /\ \A t \in Settings!Slots \ {s} : posts'[t] = posts[t]
  BY SettingsTypes
<1> SUFFICES ASSUME section = "office"
             PROVE  OfficeInv'
  BY DEF OfficeInv
<1>2. /\ p.op # "save" /\ posts[s].op # "save" /\ told' = told /\ (~missed' => ~missed)
      /\ disabled' = disabled /\ config'.value = config.value
  OBVIOUS
<1> QED BY <1>1, <1>2 DEF OfficeInv, IsSaved

LEMMA WrittenSettings ==
  ASSUME SettingsTyped, NEW q \in PostKind, q.st = "sent", ~Settings!IsRefused(q),
         PostBelongs(q, section),
         config' = Settings!Written(q) \/ (Settings!MayStay(q) /\ config' = config)
  PROVE  /\ config' \in Settings!Config /\ config'.value \notin Refused
         /\ config'.value = IF q.op = "save" /\ section # "restock" THEN q.put.value
                            ELSE config.value
         /\ config'.cats = IF q.op = "save" /\ section = "restock" THEN q.put.cats ELSE config.cats
         /\ config'.strict = IF q.op = "put" THEN q.put.strict ELSE config.strict
         /\ q.op # "put" => config'.grants = config.grants
         /\ q.op # "press" => config'.todo = config.todo
<1>1. config \in Settings!Config /\ config.value \notin Refused
  BY SettingsTypes
<1>2. q.op \in {"save", "put"} => q.put \in FormHeld /\ q.subject \in Subjects \cup {Settings!NoSubject}
  BY PostKinds DEF PostSent
<1>3. q.op = "save" => section \in Settings!HasFields \cup {"restock"}
  BY DEF PostBelongs
<1>4. "restock" \notin Settings!HasFields
  BY DEF Settings!HasFields
<1>5. CASE q.op = "save" /\ section = "restock"
  <2>1. config' = [config EXCEPT !.cats = q.put.cats]
    BY <1>5 DEF Settings!Written, Settings!MayStay
  <2> QED BY <1>1, <1>2, <1>5, <2>1 DEF Settings!Config, FormHeld
<1>6. CASE q.op = "save" /\ section # "restock"
  <2>1. config' = [config EXCEPT !.value = q.put.value]
    BY <1>6 DEF Settings!Written, Settings!MayStay
  <2>2. q.put.value \notin Refused
    BY <1>3, <1>6 DEF Settings!IsRefused
  <2> QED BY <1>1, <1>2, <1>6, <2>1, <2>2 DEF Settings!Config, FormHeld
<1>7. CASE q.op = "put"
  <2>1. config' = [config EXCEPT !.strict = q.put.strict, !.grants = Settings!Granted(q)]
    BY <1>7 DEF Settings!Written, Settings!MayStay
  <2>2. Settings!Granted(q) \subseteq Subjects
    BY <1>1, <1>2, <1>7 DEF Settings!Granted, Settings!Config
  <2> HIDE DEF Settings!Granted
  <2> QED BY <1>1, <1>2, <1>7, <2>1, <2>2 DEF Settings!Config, FormHeld
<1>8. CASE q.op = "press"
  <2>1. config' = [config EXCEPT !.todo = FALSE] \/ config' = config
    BY <1>8 DEF Settings!Written
  <2> QED BY <1>1, <1>8, <2>1 DEF Settings!Config
<1>9. CASE q.op \notin {"save", "put", "press"}
  <2>1. config' = config
    BY <1>9 DEF Settings!Written, Settings!MayStay
  <2> QED BY <1>1, <1>9, <2>1
<1> QED BY <1>5, <1>6, <1>7, <1>8, <1>9

LEMMA ServeSettingsKeeps ==
  ASSUME SettingsInv, NEW s \in Settings!Slots, Settings!Serve(s)
  PROVE  SettingsInv'
<1> DEFINE q == posts[s]
           p == [op |-> q.op, st |-> "ok", got |-> config',
                 said |-> IF q.op = "save" THEN q.put.value ELSE Settings!NothingYet,
                 on |-> q.op = "put" /\ q.on]
<1>1. /\ posts \in [Settings!Slots -> PostKind] /\ q \in PostKind /\ PostBelongs(q, section)
  BY SettingsTypes DEF SettingsInv, SettingsTyped
<1>2. /\ q.st = "sent" /\ ~Settings!IsRefused(q)
      /\ config' = Settings!Written(q) \/ (Settings!MayStay(q) /\ config' = config)
      /\ UNCHANGED <<section, fields, disabled, pressed, flags, told, missed, apart>>
  BY DEF Settings!Serve
<1>3. posts' = [posts EXCEPT ![s] = p]
  BY <1>1 DEF Settings!Serve
<1>4. /\ config' \in Settings!Config /\ config'.value \notin Refused
      /\ config'.value = IF q.op = "save" /\ section # "restock" THEN q.put.value
                         ELSE config.value
      /\ config'.cats = IF q.op = "save" /\ section = "restock" THEN q.put.cats ELSE config.cats
      /\ config'.strict = IF q.op = "put" THEN q.put.strict ELSE config.strict
      /\ q.op # "put" => config'.grants = config.grants
      /\ q.op # "press" => config'.todo = config.todo
  BY <1>1, <1>2, WrittenSettings DEF SettingsInv
<1>5. /\ q.op \in {"render", "acl", "save", "put", "press"}
      /\ q.op = "save" => q.put.value \in Values
      /\ (q.op = "put" /\ q.on) \in BOOLEAN
  BY <1>1, <1>2, PostKinds DEF PostSent, FormHeld
<1>6. /\ p \in PostServed /\ p.op = q.op /\ p.st = "ok" /\ p.got = config'
      /\ q.op = "save" => p.said = q.put.value
  BY <1>4, <1>5 DEF PostServed
<1> HIDE DEF p
<1>7. p \in PostKind /\ PostBelongs(p, section)
  BY <1>1, <1>5, <1>6 DEF PostKind, PostBelongs
<1>8. /\ posts'[s] = p
      /\ \A t \in Settings!Slots \ {s} : posts'[t] = posts[t]
  BY <1>1, <1>3
<1>9. SettingsTyped'
  <2>1. \A t \in Settings!Slots : posts'[t].op = posts[t].op
    BY <1>6, <1>8
  <2>2. disabled' => section = "office" /\ \E t \in Settings!Slots : posts'[t].op = "save"
    BY <1>2, <2>1 DEF SettingsInv, SettingsTyped, Settings!TypeOK
  <2>3. pressed' => /\ section \in Settings!HasButton
                    /\ \E t \in Settings!Slots : posts'[t].op \in {"press", "render"}
    BY <1>2, <2>1 DEF SettingsInv, SettingsTyped, Settings!TypeOK
  <2> QED BY <1>2, <1>3, <1>4, <1>7, <2>2, <2>3, SettingsTypedOn, SettingsTypes DEF SettingsInv
<1>10. OfficeInv'
  <2>1. CASE q.op # "save"
    BY <1>2, <1>3, <1>4, <1>6, <1>7, <2>1, OfficeQuiet DEF SettingsInv
  <2>2. CASE q.op = "save"
    <3> SUFFICES ASSUME section = "office" PROVE OfficeInv'
      BY <1>2 DEF OfficeInv
    <3>1. \A t \in Settings!Slots \ {s} : posts[t].op # "save"
      BY <2>2 DEF SettingsInv, OfficeInv
    <3>2. IsSaved(p) /\ p.said = config'.value /\ disabled = TRUE
      BY <1>4, <1>6, <2>2 DEF IsSaved, SettingsInv, OfficeInv
    <3> QED BY <1>2, <1>8, <3>1, <3>2 DEF OfficeInv, IsSaved
  <2> QED BY <2>1, <2>2
<1>11. ApartInv'
  <2> SUFFICES ASSUME apart
               PROVE  /\ \A t \in Settings!Slots \ {s} : posts[t].op = "none"
                      /\ ApartFits(p, config', fields, told, flags, missed, section)
    BY <1>2, <1>3, <1>7, ApartSlot DEF SettingsInv
  <2>1. \A t \in Settings!Slots \ {s} : posts[t].op = "none"
    BY <1>5, ApartAlone
  <2>2. ApartFits(q, config, fields, told, flags, missed, section)
    BY <2>1, ApartAt
  <2>3. ErrorsFit(p, fields, told)
    BY <1>6, <2>2 DEF ApartFits, ErrorsFit
  <2>4. ASSUME section = "product-lookup", ~missed PROVE FlagsFit(p, config', fields, flags)
    BY <1>2, <1>4, <1>6, <2>2, <2>4 DEF ApartFits, FlagsFit, IsSaved
  <2>5. ASSUME section = "location-access", ~missed PROVE GrantsFit(p, config', fields)
    BY <1>4, <1>6, <2>2, <2>5 DEF ApartFits, GrantsFit
  <2>6. ASSUME section = "location-access" PROVE StrictFits(p, config', fields)
    BY <1>2, <1>4, <1>6, <2>2, <2>6 DEF ApartFits, StrictFits
  <2>7. ASSUME section = "restock" PROVE CatsFit(p, config', fields)
    BY <1>2, <1>4, <1>6, <2>2, <2>7 DEF ApartFits, CatsFit
  <2>8. ASSUME section \in Settings!HasButton, ~missed PROVE TodoFits(p, config', fields)
    BY <1>4, <1>6, <2>2, <2>8 DEF ApartFits, TodoFits
  <2> QED BY <1>6, <2>1, <2>3, <2>4, <2>5, <2>6, <2>7, <2>8 DEF ApartFits
<1> QED BY <1>9, <1>10, <1>11 DEF SettingsInv

LEMMA RefuseKeeps ==
  ASSUME SettingsInv, NEW s \in Settings!Slots, Settings!Refuse(s)
  PROVE  SettingsInv'
<1> DEFINE q == posts[s]
           p == [op |-> "save", st |-> "refused"]
<1>1. /\ posts \in [Settings!Slots -> PostKind] /\ q \in PostKind /\ PostBelongs(q, section)
  BY SettingsTypes DEF SettingsInv, SettingsTyped
<1>2. /\ q.st = "sent" /\ q.op = "save" /\ posts' = [posts EXCEPT ![s] = p]
      /\ UNCHANGED <<section, config, fields, disabled, pressed, flags, told, missed, apart>>
  BY DEF Settings!Refuse, Settings!IsRefused
<1>3. p \in PostKind /\ p.op = "save" /\ p.st = "refused"
  BY PostNew
<1> HIDE DEF p
<1>4. PostBelongs(p, section)
  BY <1>1, <1>2, <1>3 DEF PostBelongs
<1>5. /\ posts'[s] = p
      /\ \A t \in Settings!Slots \ {s} : posts'[t] = posts[t]
  BY <1>1, <1>2
<1>6. \A t \in Settings!Slots : posts'[t].op = posts[t].op /\ IsSaved(posts'[t]) = IsSaved(posts[t])
  BY <1>2, <1>3, <1>5 DEF IsSaved
<1>7. SettingsTyped'
  <2>1. disabled' => section = "office" /\ \E t \in Settings!Slots : posts'[t].op = "save"
    BY <1>2, <1>6 DEF SettingsInv, SettingsTyped, Settings!TypeOK
  <2>2. pressed' => /\ section \in Settings!HasButton
                    /\ \E t \in Settings!Slots : posts'[t].op \in {"press", "render"}
    BY <1>2, <1>6 DEF SettingsInv, SettingsTyped, Settings!TypeOK
  <2> QED BY <1>2, <1>3, <1>4, <2>1, <2>2, SettingsTypedOn, SettingsTypes DEF SettingsInv
<1>8. OfficeInv'
  BY <1>2, <1>3, <1>5, <1>6 DEF SettingsInv, OfficeInv, IsSaved
<1>9. ApartInv'
  <2> SUFFICES ASSUME apart
               PROVE  /\ \A t \in Settings!Slots \ {s} : posts[t].op = "none"
                      /\ ApartFits(p, config, fields, told, flags, missed, section)
    BY <1>2, <1>3, ApartSlot DEF SettingsInv
  <2>1. \A t \in Settings!Slots \ {s} : posts[t].op = "none"
    BY <1>2, ApartAlone
  <2>2. ApartFits(q, config, fields, told, flags, missed, section)
    BY <2>1, ApartAt
  <2> QED BY <1>2, <1>3, <2>1, <2>2
          DEF ApartFits, ErrorsFit, FlagsFit, GrantsFit, CatsFit, TodoFits, StrictFits, IsSaved
<1> QED BY <1>7, <1>8, <1>9 DEF SettingsInv

\* What an answered page shows.
LEMMA EmptyFits ==
  ASSUME NEW is \in {"blank", "form"}, NEW c \in Settings!Config
  PROVE  LET f == Settings!Empty(is, c)
         IN  /\ f \in FormHeld /\ f.is = is /\ f.value = c.value /\ f.todo = c.todo
             /\ f.known = FALSE /\ f.moved = FALSE /\ f.cats = c.cats /\ f.rows = c.cats
             /\ f.errors = {}
BY DEF Settings!Empty, FormHeld, Settings!Config

LEMMA ClearedFits ==
  ASSUME fields \in FormHeld
  PROVE  LET f == Settings!Cleared
         IN  /\ f \in FormHeld /\ f.errors = {} /\ f.is = fields.is /\ f.value = fields.value
             /\ f.todo = fields.todo /\ f.strict = fields.strict /\ f.known = fields.known
             /\ f.moved = fields.moved /\ f.grants = fields.grants /\ f.cats = fields.cats
             /\ f.rows = fields.rows
BY DEF Settings!Cleared, FormHeld

LEMMA PaintKeeps ==
  ASSUME SettingsInv, NEW s \in Settings!Slots, Settings!Paint(s) \/ Settings!PaintFails(s)
  PROVE  SettingsInv'
<1> DEFINE q == posts[s]
<1>1. /\ posts \in [Settings!Slots -> PostKind] /\ q \in PostKind /\ fields \in FormHeld
      /\ disabled \in BOOLEAN /\ missed \in BOOLEAN /\ apart \in BOOLEAN
  BY SettingsTypes DEF SettingsInv
<1>2. /\ q.op = "render" /\ pressed' = FALSE
      /\ UNCHANGED <<section, config, disabled, flags, told, missed, apart>>
  BY DEF Settings!Paint, Settings!PaintFails
<1>3. PICK p \in PostKind :
        /\ posts' = [posts EXCEPT ![s] = p]
        /\ p.op \in {"none", "acl"} /\ p.st \in {"none", "sent"}
        /\ p.op = "acl" => section = "location-access"
  <2>1. CASE Settings!Paint(s)
    <3>1. CASE section = "location-access"
      <4>1. posts' = [posts EXCEPT ![s] = [op |-> "acl", st |-> "sent"]]
        BY <2>1, <3>1 DEF Settings!Paint
      <4> QED BY <3>1, <4>1, PostNew
    <3>2. CASE section # "location-access"
      <4>1. posts' = [posts EXCEPT ![s] = Settings!Nobody]
        BY <2>1, <3>2 DEF Settings!Paint
      <4> QED BY <4>1, PostNew
    <3> QED BY <3>1, <3>2
  <2>2. CASE Settings!PaintFails(s)
    <3>1. posts' = [posts EXCEPT ![s] = Settings!Nobody]
      BY <2>2 DEF Settings!PaintFails, Settings!Over
    <3> QED BY <3>1, PostNew
  <2> QED BY <2>1, <2>2
<1>4. \/ fields'.is = "error"
      \/ /\ q.st = "ok" /\ fields'.is = "form" /\ fields'.value = q.got.value
         /\ fields'.todo = q.got.todo /\ fields'.known = FALSE
         /\ fields'.cats = q.got.cats /\ fields'.rows = q.got.cats
  <2>1. CASE Settings!Paint(s)
    <3>1. q.st = "ok" /\ fields' = Settings!Empty("form", q.got)
      BY <2>1 DEF Settings!Paint
    <3>2. q.got \in Settings!Config
      BY <1>1, <3>1, PostKinds DEF PostServed
    <3> QED BY <3>1, <3>2, EmptyFits
  <2>2. CASE Settings!PaintFails(s)
    <3>1. fields' = [Settings!Cleared EXCEPT !.is = "error"] /\ Settings!Cleared \in FormHeld
      BY <1>1, <2>2, ClearedFits DEF Settings!PaintFails
    <3> QED BY <3>1 DEF FormHeld
  <2> QED BY <2>1, <2>2
<1>5. fields' \in FormHeld /\ fields'.errors = {}
  <2>1. CASE Settings!Paint(s)
    <3>1. q.st = "ok" /\ fields' = Settings!Empty("form", q.got)
      BY <2>1 DEF Settings!Paint
    <3>2. q.got \in Settings!Config
      BY <1>1, <3>1, PostKinds DEF PostServed
    <3> QED BY <3>1, <3>2, EmptyFits
  <2>2. CASE Settings!PaintFails(s)
    <3>1. /\ fields' = [Settings!Cleared EXCEPT !.is = "error"] /\ Settings!Cleared \in FormHeld
          /\ Settings!Cleared.errors = {}
      BY <1>1, <2>2, ClearedFits DEF Settings!PaintFails
    <3> QED BY <3>1 DEF FormHeld
  <2> QED BY <2>1, <2>2
<1>6. /\ posts'[s] = p
      /\ \A t \in Settings!Slots \ {s} : posts'[t] = posts[t]
  BY <1>1, <1>3
<1>7. SettingsTyped'
  <2>1. disabled' => section = "office" /\ \E t \in Settings!Slots : posts'[t].op = "save"
    BY <1>2, <1>6 DEF SettingsInv, SettingsTyped, Settings!TypeOK
  <2>2. PostBelongs(p, section)
    BY <1>3 DEF PostBelongs
  <2> QED BY <1>1, <1>2, <1>3, <1>5, <2>1, <2>2, SettingsTypedOn, SettingsTypes DEF SettingsInv
<1>8. OfficeInv'
  BY <1>2, <1>3, OfficeQuiet DEF SettingsInv
<1>9. ApartInv'
  <2> SUFFICES ASSUME apart
               PROVE  /\ \A t \in Settings!Slots \ {s} : posts[t].op = "none"
                      /\ ApartFits(p, config, fields', told, flags, missed, section)
    BY <1>2, <1>3, ApartSlot DEF SettingsInv
  <2>1. \A t \in Settings!Slots \ {s} : posts[t].op = "none"
    BY <1>2, ApartAlone
  <2>2. ApartFits(q, config, fields, told, flags, missed, section)
    BY <2>1, ApartAt
  <2>3. p.st # "ok" /\ ErrorsFit(p, fields', told)
    BY <1>3, <1>5 DEF ErrorsFit
  <2>4. ASSUME section = "product-lookup", ~missed PROVE FlagsFit(p, config, fields', flags)
    BY <1>2, <1>3, <2>2, <2>4 DEF ApartFits, FlagsFit, IsSaved
  <2>5. ASSUME section = "location-access"
        PROVE  GrantsFit(p, config, fields') /\ StrictFits(p, config, fields')
    BY <1>3, <1>4 DEF GrantsFit, StrictFits
  <2>6. ASSUME section = "restock" PROVE CatsFit(p, config, fields')
    BY <1>3, <1>4, <2>2 DEF ApartFits, CatsFit
  <2>7. ASSUME section \in Settings!HasButton, ~missed PROVE TodoFits(p, config, fields')
    BY <1>4, <2>2 DEF ApartFits, TodoFits
  <2> QED BY <2>1, <2>3, <2>4, <2>5, <2>6, <2>7 DEF ApartFits
<1> QED BY <1>7, <1>8, <1>9 DEF SettingsInv

LEMMA AnsweredPost ==
  ASSUME SettingsInv, NEW s \in Settings!Slots, NEW p \in PostKind,
         posts' = [posts EXCEPT ![s] = p], section' = section,
         posts[s].op \notin {"save", "press", "render"}
           \/ (posts[s].op = "save" /\ disabled' = FALSE)
           \/ (posts[s].op \in {"press", "render"} /\ (pressed' = FALSE \/ p.op = "render")),
         disabled' \in {disabled, FALSE}, pressed' \in {pressed, FALSE}
  PROVE  /\ disabled' => section = "office" /\ \E t \in Settings!Slots : posts'[t].op = "save"
         /\ pressed' => /\ section \in Settings!HasButton
                        /\ \E t \in Settings!Slots : posts'[t].op \in {"press", "render"}
<1>1. /\ posts'[s] = p
      /\ \A t \in Settings!Slots \ {s} : posts'[t] = posts[t]
  BY SettingsTypes DEF SettingsInv
<1>2. disabled' => section = "office" /\ \E t \in Settings!Slots : posts'[t].op = "save"
  <2> SUFFICES ASSUME disabled'
               PROVE  section = "office" /\ \E t \in Settings!Slots : posts'[t].op = "save"
    OBVIOUS
  <2>1. disabled /\ posts[s].op # "save"
    OBVIOUS
  <2>2. section = "office" /\ \E t \in Settings!Slots : posts[t].op = "save"
    BY <2>1 DEF SettingsInv, SettingsTyped, Settings!TypeOK
  <2> QED BY <1>1, <2>1, <2>2
<1>3. pressed' => /\ section \in Settings!HasButton
                  /\ \E t \in Settings!Slots : posts'[t].op \in {"press", "render"}
  <2> SUFFICES ASSUME pressed'
               PROVE  /\ section \in Settings!HasButton
                      /\ \E t \in Settings!Slots : posts'[t].op \in {"press", "render"}
    OBVIOUS
  <2>1. pressed /\ (posts[s].op \notin {"press", "render"} \/ p.op = "render")
    OBVIOUS
  <2>2. /\ section \in Settings!HasButton
        /\ \E t \in Settings!Slots : posts[t].op \in {"press", "render"}
    BY <2>1 DEF SettingsInv, SettingsTyped, Settings!TypeOK
  <2> QED BY <1>1, <2>1, <2>2
<1> QED BY <1>2, <1>3

LEMMA AssignmentsFit ==
  ASSUME fields \in FormHeld, NEW c \in Settings!Config
  PROVE  LET f == Settings!Assignments(c)
         IN  /\ f \in FormHeld /\ f.is = fields.is /\ f.errors = fields.errors
             /\ f.grants = c.grants /\ f.known = TRUE /\ f.strict = c.strict
BY DEF Settings!Assignments, FormHeld, Settings!Config

LEMMA AppliedFits ==
  ASSUME fields \in FormHeld, NEW places \in SUBSET Settings!Places
  PROVE  LET f == Settings!Applied(places)
         IN  /\ f \in FormHeld /\ f.is = fields.is /\ f.errors = places \ {"category"}
             /\ f.value = fields.value /\ f.todo = fields.todo /\ f.strict = fields.strict
             /\ f.known = fields.known /\ f.moved = fields.moved /\ f.grants = fields.grants
             /\ f.cats = fields.cats /\ f.rows = fields.rows
BY DEF Settings!Applied, FormHeld

LEMMA GrantsToldKeeps ==
  ASSUME SettingsInv, NEW s \in Settings!Slots, Settings!GrantsTold(s)
  PROVE  SettingsInv'
<1> DEFINE q == posts[s]
           p == Settings!Nobody
<1>1. /\ posts \in [Settings!Slots -> PostKind] /\ q \in PostKind /\ PostBelongs(q, section)
      /\ fields \in FormHeld
  BY SettingsTypes DEF SettingsInv, SettingsTyped
<1>2. /\ q.op \in {"acl", "put"} /\ q.st = "ok" /\ posts' = [posts EXCEPT ![s] = p]
      /\ UNCHANGED <<section, config, disabled, pressed, flags, told, missed, apart>>
  BY DEF Settings!GrantsTold, Settings!Over
<1>3. p \in PostKind /\ p.op = "none" /\ p.st = "none"
  BY PostNew
<1> HIDE DEF p
<1>4. q.got \in Settings!Config /\ section = "location-access"
  BY <1>1, <1>2, PostKinds DEF PostServed, PostBelongs
<1>5. /\ fields' \in FormHeld /\ fields'.errors = fields.errors
      /\ fields'.is = "form" => /\ fields'.grants = q.got.grants /\ fields'.known = TRUE
                                /\ fields'.strict = q.got.strict
  <2>1. CASE fields.is = "form"
    <3>1. fields' = Settings!Assignments(q.got)
      BY <2>1 DEF Settings!GrantsTold
    <3> QED BY <1>1, <1>4, <3>1, AssignmentsFit
  <2>2. CASE fields.is # "form"
    <3>1. fields' = fields
      BY <2>2 DEF Settings!GrantsTold
    <3> QED BY <1>1, <2>2, <3>1
  <2> QED BY <2>1, <2>2
<1>6. section \notin Settings!HasButton /\ section # "product-lookup" /\ section # "restock" /\ section # "office"
  BY <1>4 DEF Settings!HasButton
<1>7. SettingsTyped'
  <2>1. /\ disabled' => section = "office" /\ \E t \in Settings!Slots : posts'[t].op = "save"
        /\ pressed' => /\ section \in Settings!HasButton
                       /\ \E t \in Settings!Slots : posts'[t].op \in {"press", "render"}
    BY <1>2, <1>3, AnsweredPost
  <2>2. PostBelongs(p, section)
    BY <1>3 DEF PostBelongs
  <2> QED BY <1>2, <1>3, <1>5, <2>1, <2>2, SettingsTypedOn, SettingsTypes DEF SettingsInv
<1>8. OfficeInv'
  BY <1>2, <1>3, <1>6, OfficeQuiet DEF SettingsInv
<1>9. ApartInv'
  <2> SUFFICES ASSUME apart
               PROVE  /\ \A t \in Settings!Slots \ {s} : posts[t].op = "none"
                      /\ ApartFits(p, config, fields', told, flags, missed, section)
    BY <1>2, <1>3, ApartSlot DEF SettingsInv
  <2>1. \A t \in Settings!Slots \ {s} : posts[t].op = "none"
    BY <1>2, ApartAlone
  <2>2. ApartFits(q, config, fields, told, flags, missed, section)
    BY <2>1, ApartAt
  <2>3. q.got = config /\ ErrorsFit(p, fields', told)
    BY <1>2, <1>3, <1>5, <2>2 DEF ApartFits, ErrorsFit
  <2>4. GrantsFit(p, config, fields') /\ StrictFits(p, config, fields')
    BY <1>3, <1>5, <2>3 DEF GrantsFit, StrictFits
  <2> QED BY <1>3, <1>6, <2>1, <2>3, <2>4 DEF ApartFits
<1> QED BY <1>7, <1>8, <1>9 DEF SettingsInv

LEMMA SavedKeeps ==
  ASSUME SettingsInv, NEW s \in Settings!Slots,
         Settings!SaveAccepted(s) \/ Settings!LookupSaved(s)
  PROVE  SettingsInv'
<1> DEFINE q == posts[s]
           p == Settings!Nobody
<1>1. /\ posts \in [Settings!Slots -> PostKind] /\ q \in PostKind /\ PostBelongs(q, section)
      /\ fields \in FormHeld /\ fields.value \in Values
  BY SettingsTypes DEF SettingsInv, SettingsTyped, FormHeld
<1>2. /\ q.op = "save" /\ q.st = "ok" /\ posts' = [posts EXCEPT ![s] = p] /\ told' = q.said
      /\ UNCHANGED <<section, config, fields, pressed, missed, apart>>
  BY DEF Settings!SaveAccepted, Settings!LookupSaved, Settings!Over
<1>3. p \in PostKind /\ p.op = "none" /\ p.st = "none"
  BY PostNew
<1> HIDE DEF p
<1>4. told' \in Values
  BY <1>1, <1>2 DEF PostBelongs
<1>5. /\ section # "product-lookup" => disabled' = FALSE /\ flags' = flags
      /\ section = "product-lookup" => disabled' = disabled /\ flags' = fields.value
  BY DEF Settings!SaveAccepted, Settings!LookupSaved
<1>6. disabled' = FALSE
  BY <1>5, SettingsTypes DEF SettingsInv, SettingsTyped, Settings!TypeOK
<1>7. SettingsTyped'
  <2>1. /\ disabled' => section = "office" /\ \E t \in Settings!Slots : posts'[t].op = "save"
        /\ pressed' => /\ section \in Settings!HasButton
                       /\ \E t \in Settings!Slots : posts'[t].op \in {"press", "render"}
    BY <1>2, <1>3, <1>6, AnsweredPost
  <2>2. PostBelongs(p, section)
    BY <1>3 DEF PostBelongs
  <2>3. flags' \in Values
    BY <1>1, <1>5, SettingsTypes DEF SettingsInv
  <2> QED BY <1>1, <1>2, <1>3, <1>4, <1>6, <2>1, <2>2, <2>3, SettingsTypedOn, SettingsTypes
          DEF SettingsInv
<1>8. OfficeInv'
  <2> SUFFICES ASSUME section = "office" PROVE OfficeInv'
    BY <1>2 DEF OfficeInv
  <2>1. \A t \in Settings!Slots : posts'[t].op # "save"
    BY <1>1, <1>2, <1>3 DEF SettingsInv, OfficeInv
  <2>2. told' = config'.value
    BY <1>2 DEF SettingsInv, OfficeInv, IsSaved
  <2> QED BY <2>1, <2>2 DEF OfficeInv, IsSaved
<1>9. ApartInv'
  <2> SUFFICES ASSUME apart
               PROVE  /\ \A t \in Settings!Slots \ {s} : posts[t].op = "none"
                      /\ ApartFits(p, config, fields, told', flags', missed, section)
    BY <1>2, <1>3, ApartSlot DEF SettingsInv
  <2>1. \A t \in Settings!Slots \ {s} : posts[t].op = "none"
    BY <1>2, ApartAlone
  <2>2. ApartFits(q, config, fields, told, flags, missed, section)
    BY <2>1, ApartAt
  <2>3. ErrorsFit(p, fields, told')
    BY <1>2, <1>3, <2>2 DEF ApartFits, ErrorsFit
  <2>4. ASSUME section = "product-lookup", ~missed PROVE FlagsFit(p, config, fields, flags')
    BY <1>2, <1>3, <1>5, <2>2, <2>4 DEF ApartFits, FlagsFit, IsSaved
  <2>5. section # "location-access"
    BY <1>1, <1>2 DEF PostBelongs, Settings!HasFields
  <2>6. ASSUME section = "restock" PROVE CatsFit(p, config, fields)
    BY <1>2, <1>3, <2>2, <2>6 DEF ApartFits, CatsFit
  <2>7. ASSUME section \in Settings!HasButton, ~missed PROVE TodoFits(p, config, fields)
    BY <1>2, <1>3, <2>2, <2>7 DEF ApartFits, TodoFits
  <2> QED BY <1>3, <2>1, <2>3, <2>4, <2>5, <2>6, <2>7 DEF ApartFits
<1> QED BY <1>7, <1>8, <1>9 DEF SettingsInv

LEMMA SaveFailsKeeps ==
  ASSUME SettingsInv, NEW s \in Settings!Slots, Settings!SaveFails(s)
  PROVE  SettingsInv'
<1> DEFINE q == posts[s]
           p == Settings!Nobody
           marks == Settings!Marks(q)
<1>1. /\ posts \in [Settings!Slots -> PostKind] /\ q \in PostKind /\ PostBelongs(q, section)
      /\ fields \in FormHeld /\ fields.errors \in SUBSET Settings!Places
      /\ missed \in BOOLEAN /\ (q.st = "refused" => q.op = "save")
  BY SettingsTypes, PostKinds DEF SettingsInv, SettingsTyped, FormHeld
<1>2. /\ q.op \in {"save", "put", "acl"} /\ posts' = [posts EXCEPT ![s] = p]
      /\ missed' = (missed \/ q.st = "ok") /\ disabled' = FALSE
      /\ fields' = Settings!Applied(marks)
      /\ told' = IF q.op = "save" THEN Settings!NotSaved ELSE told
      /\ UNCHANGED <<section, config, pressed, flags, apart>>
  BY DEF Settings!SaveFails, Settings!Over
<1>3. p \in PostKind /\ p.op = "none" /\ p.st = "none"
  BY PostNew
<1>4. /\ marks \in SUBSET Settings!Places
      /\ q.op # "save" => marks = {} \/ marks = fields.errors
  <2>1. CASE q.st = "refused"
    <3>1. marks = {"field"}
      BY <1>1, <2>1 DEF Settings!Marks, Settings!Revokes
    <3> QED BY <1>1, <2>1, <3>1 DEF Settings!Places
  <2>2. CASE q.st # "refused" /\ (q.op = "acl" \/ Settings!Revokes(q))
    <3>1. marks = fields.errors
      BY <2>2 DEF Settings!Marks
    <3>2. q.op # "save"
      BY <2>2 DEF Settings!Revokes
    <3> QED BY <1>1, <3>1, <3>2
  <2>3. CASE q.st # "refused" /\ ~(q.op = "acl" \/ Settings!Revokes(q))
    <3>1. marks = {}
      BY <2>3 DEF Settings!Marks
    <3> QED BY <3>1
  <2> QED BY <2>1, <2>2, <2>3
<1> HIDE DEF p, marks
<1>5. /\ fields' \in FormHeld /\ fields'.is = fields.is /\ fields'.errors = marks \ {"category"}
      /\ fields'.value = fields.value /\ fields'.todo = fields.todo
      /\ fields'.strict = fields.strict /\ fields'.known = fields.known
      /\ fields'.moved = fields.moved /\ fields'.grants = fields.grants
      /\ fields'.cats = fields.cats /\ fields'.rows = fields.rows
  BY <1>1, <1>2, <1>4, AppliedFits
<1>6. missed' \in BOOLEAN /\ (~missed' => ~missed /\ q.st # "ok")
  BY <1>1, <1>2
<1>7. told' \in Values => q.op # "save" /\ told \in Values
  BY <1>2, SettingsBounds
<1>8. SettingsTyped'
  <2>1. /\ disabled' => section = "office" /\ \E t \in Settings!Slots : posts'[t].op = "save"
        /\ pressed' => /\ section \in Settings!HasButton
                       /\ \E t \in Settings!Slots : posts'[t].op \in {"press", "render"}
    BY <1>2, <1>3, AnsweredPost
  <2>2. PostBelongs(p, section)
    BY <1>3 DEF PostBelongs
  <2>3. told' \in Values \cup {Settings!NothingYet, Settings!NotSaved}
    BY <1>2, SettingsTypes DEF SettingsInv
  <2> QED BY <1>2, <1>3, <1>5, <1>6, <2>1, <2>2, <2>3, SettingsTypedOn, SettingsTypes
          DEF SettingsInv
<1>9. OfficeInv'
  <2> SUFFICES ASSUME section = "office" PROVE OfficeInv'
    BY <1>2 DEF OfficeInv
  <2>1. q.op = "save"
    BY <1>1, <1>2 DEF PostBelongs
  <2>2. \A t \in Settings!Slots : posts'[t].op # "save"
    BY <1>1, <1>2, <1>3, <2>1 DEF SettingsInv, OfficeInv
  <2> QED BY <1>7, <2>1, <2>2 DEF OfficeInv, IsSaved
<1>10. ApartInv'
  <2> SUFFICES ASSUME apart
               PROVE  /\ \A t \in Settings!Slots \ {s} : posts[t].op = "none"
                      /\ ApartFits(p, config, fields', told', flags, missed', section)
    BY <1>2, <1>3, ApartSlot DEF SettingsInv
  <2>1. \A t \in Settings!Slots \ {s} : posts[t].op = "none"
    BY <1>2, ApartAlone
  <2>2. ApartFits(q, config, fields, told, flags, missed, section)
    BY <2>1, ApartAt
  <2>3. ErrorsFit(p, fields', told')
    BY <1>2, <1>3, <1>4, <1>5, <1>7, <2>2 DEF ApartFits, ErrorsFit
  <2>4. ASSUME section = "product-lookup", ~missed' PROVE FlagsFit(p, config, fields', flags)
    BY <1>3, <1>6, <2>2, <2>4 DEF ApartFits, FlagsFit, IsSaved
  <2>5. ASSUME section = "location-access", ~missed' PROVE GrantsFit(p, config, fields')
    BY <1>2, <1>3, <1>5, <1>6, <2>2, <2>5 DEF ApartFits, GrantsFit
  <2>6. ASSUME section = "location-access" PROVE StrictFits(p, config, fields')
    BY <1>2, <1>3, <1>5, <2>2, <2>6 DEF ApartFits, StrictFits
  <2>7. ASSUME section = "restock" PROVE CatsFit(p, config, fields')
    BY <1>2, <1>3, <1>5, <2>2, <2>7 DEF ApartFits, CatsFit
  <2>8. ASSUME section \in Settings!HasButton, ~missed' PROVE TodoFits(p, config, fields')
    BY <1>2, <1>3, <1>5, <1>6, <2>2, <2>8 DEF ApartFits, TodoFits
  <2> QED BY <1>3, <2>1, <2>3, <2>4, <2>5, <2>6, <2>7, <2>8 DEF ApartFits
<1> QED BY <1>8, <1>9, <1>10 DEF SettingsInv

LEMMA PressAnsweredKeeps ==
  ASSUME SettingsInv, NEW s \in Settings!Slots,
         Settings!PressAccepted(s) \/ Settings!PressFails(s)
  PROVE  SettingsInv'
<1> DEFINE q == posts[s]
<1>1. /\ posts \in [Settings!Slots -> PostKind] /\ q \in PostKind /\ PostBelongs(q, section)
      /\ missed \in BOOLEAN /\ fields \in FormHeld
  BY SettingsTypes DEF SettingsInv, SettingsTyped
<1>2. /\ q.op = "press"
      /\ UNCHANGED <<section, config, fields, disabled, flags, told>>
  BY DEF Settings!PressAccepted, Settings!PressFails
<1>3. PICK p \in PostKind :
        /\ posts' = [posts EXCEPT ![s] = p] /\ p.op \in {"none", "render"} /\ p.st # "ok"
        /\ \/ /\ p.op = "render" /\ pressed' = pressed /\ missed' = missed
              /\ apart' = ~Settings!Others(s)
           \/ /\ p.op = "none" /\ pressed' = FALSE /\ missed' = (missed \/ q.st = "ok")
              /\ apart' = apart
  <2>1. CASE Settings!PressAccepted(s)
    BY <2>1, PostNew DEF Settings!PressAccepted
  <2>2. CASE Settings!PressFails(s)
    BY <2>2, PostNew DEF Settings!PressFails, Settings!Over
  <2> QED BY <2>1, <2>2
<1>4. section \in Settings!HasButton
  BY <1>1, <1>2 DEF PostBelongs
<1>5. /\ section \notin {"office", "product-lookup", "location-access", "restock"}
  BY <1>4 DEF Settings!HasButton
<1>6. SettingsTyped'
  <2>1. /\ disabled' => section = "office" /\ \E t \in Settings!Slots : posts'[t].op = "save"
        /\ pressed' => /\ section \in Settings!HasButton
                       /\ \E t \in Settings!Slots : posts'[t].op \in {"press", "render"}
    BY <1>2, <1>3, AnsweredPost
  <2>2. PostBelongs(p, section)
    BY <1>3 DEF PostBelongs
  <2>3. pressed' \in BOOLEAN /\ missed' \in BOOLEAN /\ apart' \in BOOLEAN
    BY <1>1, <1>3, SettingsTypes DEF SettingsInv, Settings!Others
  <2> QED BY <1>2, <1>3, <2>1, <2>2, <2>3, SettingsTypedOn, SettingsTypes DEF SettingsInv
<1>7. OfficeInv'
  BY <1>2, <1>3, <1>5, OfficeQuiet DEF SettingsInv
<1>8. ApartInv'
  <2> SUFFICES ASSUME apart'
               PROVE  /\ \A t \in Settings!Slots \ {s} : posts[t].op = "none"
                      /\ ApartFits(p, config, fields, told, flags, missed', section)
    BY <1>2, <1>3, ApartSlot DEF SettingsInv
  <2>1. CASE p.op = "render"
    <3>1. \A t \in Settings!Slots \ {s} : posts[t].op = "none"
      BY <1>3, <2>1, SettingsOthers DEF SettingsInv
    <3> QED BY <1>3, <1>5, <2>1, <3>1 DEF ApartFits, ErrorsFit, TodoFits
  <2>2. CASE p.op = "none"
    <3>1. apart /\ \A t \in Settings!Slots \ {s} : posts[t].op = "none"
      BY <1>2, <1>3, <2>2, ApartAlone
    <3>2. ApartFits(q, config, fields, told, flags, missed, section)
      BY <3>1, ApartAt
    <3>3. ErrorsFit(p, fields, told)
      BY <1>2, <2>2, <3>2 DEF ApartFits, ErrorsFit
    <3>4. ~missed' => TodoFits(p, config, fields)
      BY <1>1, <1>2, <1>3, <1>4, <2>2, <3>2 DEF ApartFits, TodoFits
    <3> QED BY <1>3, <1>5, <3>1, <3>3, <3>4 DEF ApartFits
  <2> QED BY <1>3, <2>1, <2>2
<1> QED BY <1>6, <1>7, <1>8 DEF SettingsInv

\* What the render that is asked for will show is of no account yet.
LEMMA RerenderKeeps ==
  ASSUME SettingsInv, NEW s \in Settings!Slots, Settings!Rerender(s), fields' \in FormHeld,
         fields'.errors = fields.errors, fields'.value = fields.value
  PROVE  SettingsInv'
<1> DEFINE p == [op |-> "render", st |-> "sent"]
<1>1. posts \in [Settings!Slots -> PostKind]
  BY SettingsTypes DEF SettingsInv
<1>2. /\ posts[s] = Settings!Nobody /\ posts' = [posts EXCEPT ![s] = p]
      /\ apart' = (~Settings!Others(s) /\ (section = "product-lookup" => apart))
      /\ UNCHANGED <<section, config, disabled, pressed, flags, told, missed>>
  BY DEF Settings!Rerender, Settings!Free
<1>3. p \in PostKind /\ p.op = "render" /\ p.st = "sent" /\ posts[s].op = "none" /\ posts[s].st = "none"
  BY <1>2, PostNew
<1> HIDE DEF p
<1>4. SettingsTyped'
  <2>1. /\ disabled' => section = "office" /\ \E t \in Settings!Slots : posts'[t].op = "save"
        /\ pressed' => /\ section \in Settings!HasButton
                       /\ \E t \in Settings!Slots : posts'[t].op \in {"press", "render"}
    BY <1>2, <1>3, AnsweredPost
  <2>2. PostBelongs(p, section)
    BY <1>3 DEF PostBelongs
  <2>3. apart' \in BOOLEAN
    BY <1>2, SettingsTypes DEF SettingsInv, Settings!Others
  <2> QED BY <1>2, <1>3, <2>1, <2>2, <2>3, SettingsTypedOn, SettingsTypes DEF SettingsInv
<1>5. OfficeInv'
  BY <1>2, <1>3, OfficeQuiet DEF SettingsInv
<1>6. ApartInv'
  <2> SUFFICES ASSUME apart'
               PROVE  /\ \A t \in Settings!Slots \ {s} : posts[t].op = "none"
                      /\ ApartFits(p, config, fields', told, flags, missed, section)
    BY <1>2, <1>3, ApartSlot DEF SettingsInv
  <2>1. \A t \in Settings!Slots \ {s} : posts[t].op = "none"
    BY <1>2, SettingsOthers DEF SettingsInv
  <2>2. ASSUME section = "product-lookup", ~missed PROVE FlagsFit(p, config, fields', flags)
    <3>1. apart
      BY <1>2, <2>2
    <3>2. ApartFits(posts[s], config, fields, told, flags, missed, section)
      BY <2>1, <3>1, ApartAt
    <3> QED BY <1>3, <2>2, <3>2 DEF ApartFits, FlagsFit, IsSaved
  <2>3. ErrorsFit(p, fields', told) /\ CatsFit(p, config, fields') /\ TodoFits(p, config, fields')
    BY <1>3 DEF ErrorsFit, CatsFit, TodoFits
  <2>4. GrantsFit(p, config, fields') /\ StrictFits(p, config, fields')
    BY <1>3 DEF GrantsFit, StrictFits
  <2> QED BY <1>3, <2>1, <2>2, <2>3, <2>4 DEF ApartFits
<1> QED BY <1>4, <1>5, <1>6 DEF SettingsInv

LEMMA RendersAnewKeeps ==
  ASSUME SettingsInv, NEW s \in Settings!Slots,
         \/ Settings!Retry(s)
         \/ \E c \in Cats : Settings!AddCategory(s, c) \/ Settings!RemoveCategory(s, c)
  PROVE  SettingsInv'
<1>1. fields \in FormHeld
  BY SettingsTypes DEF SettingsInv
<1>2. /\ Settings!Rerender(s)
      /\ fields' \in FormHeld /\ fields'.errors = fields.errors /\ fields'.value = fields.value
  <2>1. CASE Settings!Retry(s)
    BY <1>1, <2>1 DEF Settings!Retry
  <2>2. ASSUME NEW c \in Cats, Settings!AddCategory(s, c) \/ Settings!RemoveCategory(s, c)
        PROVE  /\ Settings!Rerender(s)
               /\ fields' \in FormHeld /\ fields'.errors = fields.errors
               /\ fields'.value = fields.value
    <3>1. PICK cats \in SUBSET Cats : fields' = [fields EXCEPT !.cats = cats]
      <4>1. fields.cats \cup {c} \in SUBSET Cats /\ fields.cats \ {c} \in SUBSET Cats
        BY <1>1 DEF FormHeld
      <4> QED BY <2>2, <4>1 DEF Settings!AddCategory, Settings!RemoveCategory
    <3> QED BY <1>1, <2>2, <3>1 DEF Settings!AddCategory, Settings!RemoveCategory, FormHeld
  <2> QED BY <2>1, <2>2
<1> QED BY <1>2, RerenderKeeps

\* Post, as it is sent.
LEMMA PostIsSent ==
  ASSUME SettingsTyped, NEW op \in {"save", "put"},
         NEW subject \in Subjects \cup {Settings!NoSubject}, NEW on \in BOOLEAN
  PROVE  LET p == Settings!Post(op, fields, subject, on)
         IN  /\ p \in PostKind /\ p.op = op /\ p.st = "sent" /\ p.put = fields
             /\ p.sure <=> fields.known /\ ~fields.moved
<1>1. fields \in FormHeld
  BY SettingsTypes
<1>2. (fields.known /\ ~fields.moved) \in BOOLEAN
  OBVIOUS
<1> DEFINE p == Settings!Post(op, fields, subject, on)
<1>3. p \in PostSent
  BY <1>1, <1>2 DEF Settings!Post, PostSent
<1>4. p.op = op /\ p.st = "sent" /\ p.put = fields /\ (p.sure <=> fields.known /\ ~fields.moved)
  BY DEF Settings!Post
<1> QED BY <1>3, <1>4 DEF PostKind

LEMMA SaveKeeps ==
  ASSUME SettingsInv, NEW s \in Settings!Slots, Settings!Save(s)
  PROVE  SettingsInv'
<1> DEFINE p == Settings!Post("save", fields, Settings!NoSubject, FALSE)
<1>1. /\ posts \in [Settings!Slots -> PostKind] /\ fields \in FormHeld /\ apart \in BOOLEAN
  BY SettingsTypes DEF SettingsInv
<1>2. /\ fields.is = "form" /\ posts[s] = Settings!Nobody /\ fields' = Settings!Cleared
      /\ posts' = [posts EXCEPT ![s] = p] /\ apart' = (apart /\ ~Settings!Others(s))
      /\ UNCHANGED <<section, config, pressed, flags, told, missed>>
  BY DEF Settings!Save, Settings!SaveGuarded, Settings!SavePolicies, Settings!SaveConnections,
         Settings!SaveLookup, Settings!SaveRestock, Settings!Send, Settings!Free
<1>3. /\ section \in Settings!HasFields \cup {"restock"}
      /\ section = "office" => ~disabled /\ disabled' = TRUE
      /\ section # "office" => disabled' = disabled
  BY DEF Settings!Save, Settings!SaveGuarded, Settings!SavePolicies, Settings!SaveConnections,
         Settings!SaveLookup, Settings!SaveRestock, Settings!HasFields, Settings!Sections
<1>4. p \in PostKind /\ p.op = "save" /\ p.st = "sent" /\ p.put = fields
  BY PostIsSent DEF SettingsInv
<1> HIDE DEF p
<1>5. posts[s].op = "none" /\ posts[s].st = "none"
  BY <1>2, PostNew
<1>6. /\ fields' \in FormHeld /\ fields'.errors = {} /\ fields'.is = fields.is
      /\ fields'.value = fields.value /\ fields'.todo = fields.todo
      /\ fields'.cats = fields.cats /\ fields'.rows = fields.rows
  BY <1>1, <1>2, ClearedFits
<1>7. posts'[s] = p /\ \A t \in Settings!Slots \ {s} : posts'[t] = posts[t]
  BY <1>1, <1>2
<1>8. SettingsTyped'
  <2>1. disabled' => section = "office" /\ \E t \in Settings!Slots : posts'[t].op = "save"
    BY <1>3, <1>4, <1>7 DEF SettingsInv, SettingsTyped, Settings!TypeOK
  <2>2. pressed' => /\ section \in Settings!HasButton
                    /\ \E t \in Settings!Slots : posts'[t].op \in {"press", "render"}
    BY <1>2, <1>5, <1>7 DEF SettingsInv, SettingsTyped, Settings!TypeOK
  <2>3. PostBelongs(p, section)
    BY <1>3, <1>4 DEF PostBelongs
  <2>4. apart' \in BOOLEAN /\ disabled' \in BOOLEAN
    BY <1>1, <1>2, <1>3, SettingsTypes DEF SettingsInv, Settings!Others
  <2> QED BY <1>2, <1>4, <1>6, <2>1, <2>2, <2>3, <2>4, SettingsTypedOn, SettingsTypes
          DEF SettingsInv
<1>9. OfficeInv'
  <2> SUFFICES ASSUME section = "office" PROVE OfficeInv'
    BY <1>2 DEF OfficeInv
  <2>1. \A t \in Settings!Slots : posts[t].op # "save"
    BY <1>3 DEF SettingsInv, OfficeInv
  <2>2. \A t \in Settings!Slots : ~IsSaved(posts[t]) /\ ~IsSaved(posts'[t])
    BY <1>4, <1>7, <2>1 DEF IsSaved
  <2>3. ~missed /\ told \in Values => config.value = told
    BY <2>2 DEF SettingsInv, OfficeInv
  <2>4. \A t, u \in Settings!Slots : posts'[t].op = "save" /\ posts'[u].op = "save" => t = u
    BY <1>7, <2>1
  <2>5. \A t \in Settings!Slots : posts'[t].op = "save" => disabled' = TRUE
    BY <1>3
  <2> QED BY <1>2, <2>2, <2>3, <2>4, <2>5 DEF OfficeInv
<1>10. ApartInv'
  <2> SUFFICES ASSUME apart'
               PROVE  /\ \A t \in Settings!Slots \ {s} : posts[t].op = "none"
                      /\ ApartFits(p, config, fields', told, flags, missed, section)
    BY <1>2, <1>4, ApartSlot DEF SettingsInv
  <2>1. apart /\ \A t \in Settings!Slots \ {s} : posts[t].op = "none"
    BY <1>2, SettingsOthers DEF SettingsInv
  <2>2. ApartFits(posts[s], config, fields, told, flags, missed, section)
    BY <2>1, ApartAt
  <2>3. ErrorsFit(p, fields', told)
    BY <1>6 DEF ErrorsFit
  <2>4. ASSUME section = "product-lookup", ~missed PROVE FlagsFit(p, config, fields', flags)
    BY <1>4, <1>5, <1>6, <2>2, <2>4 DEF ApartFits, FlagsFit, IsSaved
  <2>5. section # "location-access"
    BY <1>3 DEF Settings!HasFields
  <2>6. ASSUME section = "restock" PROVE CatsFit(p, config, fields')
    BY <1>2, <1>4, <1>5, <1>6, <2>2, <2>6 DEF ApartFits, CatsFit
  <2>7. ASSUME section \in Settings!HasButton, ~missed PROVE TodoFits(p, config, fields')
    BY <1>2, <1>4, <1>5, <1>6, <2>2, <2>7 DEF ApartFits, TodoFits
  <2> QED BY <1>4, <2>1, <2>3, <2>4, <2>5, <2>6, <2>7 DEF ApartFits
<1> QED BY <1>8, <1>9, <1>10 DEF SettingsInv

LEMMA PutKeeps ==
  ASSUME SettingsInv, NEW s \in Settings!Slots,
         NEW subject \in Subjects \cup {Settings!NoSubject}, NEW on \in BOOLEAN,
         Settings!Put(s, subject, on)
  PROVE  SettingsInv'
<1> DEFINE p == Settings!Post("put", fields, subject, on)
<1>1. /\ posts \in [Settings!Slots -> PostKind] /\ fields \in FormHeld /\ apart \in BOOLEAN
  BY SettingsTypes DEF SettingsInv
<1>2. /\ fields.is = "form" /\ section = "location-access" /\ posts[s] = Settings!Nobody
      /\ fields' = Settings!Cleared \/ fields' = fields
      /\ posts' = [posts EXCEPT ![s] = p] /\ apart' = (apart /\ ~Settings!Others(s))
      /\ UNCHANGED <<section, config, disabled, pressed, flags, told, missed>>
  BY DEF Settings!Put, Settings!Free
<1>3. /\ p \in PostKind /\ p.op = "put" /\ p.st = "sent" /\ p.put = fields
      /\ p.sure <=> fields.known /\ ~fields.moved
  BY PostIsSent DEF SettingsInv
<1> HIDE DEF p
<1>4. posts[s].op = "none" /\ posts[s].st = "none"
  BY <1>2, PostNew
<1>5. /\ fields' \in FormHeld /\ fields'.errors \in {{}, fields.errors} /\ fields'.is = fields.is
      /\ fields'.grants = fields.grants /\ fields'.known = fields.known
      /\ fields'.strict = fields.strict /\ fields'.moved = fields.moved
  BY <1>1, <1>2, ClearedFits
<1>6. section \notin Settings!HasButton /\ section \notin {"office", "product-lookup", "restock"}
  BY <1>2 DEF Settings!HasButton
<1>7. SettingsTyped'
  <2>1. /\ disabled' => section = "office" /\ \E t \in Settings!Slots : posts'[t].op = "save"
        /\ pressed' => /\ section \in Settings!HasButton
                       /\ \E t \in Settings!Slots : posts'[t].op \in {"press", "render"}
    BY <1>2, <1>3, <1>4, AnsweredPost
  <2>2. PostBelongs(p, section)
    BY <1>2, <1>3 DEF PostBelongs
  <2>3. apart' \in BOOLEAN
    BY <1>1, <1>2 DEF Settings!Others
  <2> QED BY <1>2, <1>3, <1>5, <2>1, <2>2, <2>3, SettingsTypedOn, SettingsTypes DEF SettingsInv
<1>8. OfficeInv'
  BY <1>2, <1>3, <1>6, OfficeQuiet DEF SettingsInv
<1>9. ApartInv'
  <2> SUFFICES ASSUME apart'
               PROVE  /\ \A t \in Settings!Slots \ {s} : posts[t].op = "none"
                      /\ ApartFits(p, config, fields', told, flags, missed, section)
    BY <1>2, <1>3, ApartSlot DEF SettingsInv
  <2>1. apart /\ \A t \in Settings!Slots \ {s} : posts[t].op = "none"
    BY <1>2, SettingsOthers DEF SettingsInv
  <2>2. ApartFits(posts[s], config, fields, told, flags, missed, section)
    BY <2>1, ApartAt
  <2>3. ErrorsFit(p, fields', told)
    BY <1>3, <1>4, <1>5, <2>2 DEF ApartFits, ErrorsFit
  <2>4. ASSUME ~missed PROVE GrantsFit(p, config, fields')
    BY <1>2, <1>3, <1>4, <1>5, <2>2, <2>4 DEF ApartFits, GrantsFit
  <2>5. StrictFits(p, config, fields')
    <3>1. StrictFits(posts[s], config, fields)
      BY <1>2, <2>2 DEF ApartFits
    <3>2. fields.known /\ ~fields.moved => fields.strict = config.strict
      BY <1>2, <1>4, <3>1 DEF StrictFits
    <3> QED BY <1>2, <1>3, <1>5, <3>2 DEF StrictFits
  <2> QED BY <1>3, <1>6, <2>1, <2>3, <2>4, <2>5 DEF ApartFits
<1> QED BY <1>7, <1>8, <1>9 DEF SettingsInv

LEMMA PressKeeps ==
  ASSUME SettingsInv, NEW s \in Settings!Slots,
         Settings!RetryPush(s) \/ Settings!EnableFractional(s)
  PROVE  SettingsInv'
<1> DEFINE p == [op |-> "press", st |-> "sent"]
<1>1. posts \in [Settings!Slots -> PostKind] /\ fields \in FormHeld /\ apart \in BOOLEAN
  BY SettingsTypes DEF SettingsInv
<1>2. /\ fields.is = "form" /\ posts[s] = Settings!Nobody
      /\ posts' = [posts EXCEPT ![s] = p] /\ pressed' = TRUE
      /\ apart' = (apart /\ ~Settings!Others(s))
      /\ UNCHANGED <<section, config, fields, disabled, flags, told, missed>>
  BY DEF Settings!RetryPush, Settings!EnableFractional, Settings!Press, Settings!Free
<1>3. section \in Settings!HasButton
  BY DEF Settings!RetryPush, Settings!EnableFractional, Settings!HasButton
<1>4. section \notin {"office", "product-lookup", "location-access", "restock"}
  BY <1>3 DEF Settings!HasButton
<1>5. p \in PostKind /\ p.op = "press" /\ p.st = "sent"
  BY PostNew
<1> HIDE DEF p
<1>6. posts[s].op = "none" /\ posts[s].st = "none"
  BY <1>2, PostNew
<1>7. posts'[s] = p
  BY <1>1, <1>2
<1>8. SettingsTyped'
  <2>1. disabled' = FALSE
    BY <1>2, <1>4, SettingsTypes DEF SettingsInv, SettingsTyped, Settings!TypeOK
  <2>2. PostBelongs(p, section)
    BY <1>3, <1>5 DEF PostBelongs
  <2>3. apart' \in BOOLEAN
    BY <1>1, <1>2 DEF Settings!Others
  <2>4. \E t \in Settings!Slots : posts'[t].op \in {"press", "render"}
    BY <1>5, <1>7
  <2> QED BY <1>2, <1>3, <1>5, <2>1, <2>2, <2>3, <2>4, SettingsTypedOn, SettingsTypes
          DEF SettingsInv
<1>9. OfficeInv'
  BY <1>2, <1>4, <1>5, OfficeQuiet DEF SettingsInv
<1>10. ApartInv'
  <2> SUFFICES ASSUME apart'
               PROVE  /\ \A t \in Settings!Slots \ {s} : posts[t].op = "none"
                      /\ ApartFits(p, config, fields, told, flags, missed, section)
    BY <1>2, <1>5, ApartSlot DEF SettingsInv
  <2>1. apart /\ \A t \in Settings!Slots \ {s} : posts[t].op = "none"
    BY <1>2, SettingsOthers DEF SettingsInv
  <2>2. ApartFits(posts[s], config, fields, told, flags, missed, section)
    BY <2>1, ApartAt
  <2>3. ErrorsFit(p, fields, told)
    BY <1>5, <1>6, <2>2 DEF ApartFits, ErrorsFit
  <2>4. ASSUME ~missed PROVE TodoFits(p, config, fields)
    BY <1>3, <1>5, <1>6, <2>2, <2>4 DEF ApartFits, TodoFits
  <2> QED BY <1>4, <1>5, <2>1, <2>3, <2>4 DEF ApartFits
<1> QED BY <1>8, <1>9, <1>10 DEF SettingsInv

\* The administrator edits what no request waits for.
LEMMA FieldsKeep ==
  ASSUME SettingsInv, fields' \in FormHeld, {told'} \subseteq {told, Settings!NotSaved},
         section = "office" => told' = told, apart' \in BOOLEAN,
         UNCHANGED <<section, config, posts, disabled, pressed, flags, missed>>,
         apart' => /\ apart
                   /\ \A s \in Settings!Slots :
                        ApartFits(posts[s], config, fields, told, flags, missed, section) =>
                          ApartFits(posts[s], config, fields', told', flags, missed, section)
  PROVE  SettingsInv'
<1>1. PICK s \in Settings!Slots : TRUE
  BY SettingsBounds
<1>2. posts \in [Settings!Slots -> PostKind] /\ posts' = [posts EXCEPT ![s] = posts[s]]
  BY SettingsTypes DEF SettingsInv
<1>3. SettingsTyped'
  <2>1. PostBelongs(posts[s], section)
    BY DEF SettingsInv, SettingsTyped
  <2>2. told' \in Values \cup {Settings!NothingYet, Settings!NotSaved}
    BY SettingsTypes DEF SettingsInv
  <2>3. /\ disabled' => section = "office" /\ \E t \in Settings!Slots : posts'[t].op = "save"
        /\ pressed' => /\ section \in Settings!HasButton
                       /\ \E t \in Settings!Slots : posts'[t].op \in {"press", "render"}
    BY DEF SettingsInv, SettingsTyped, Settings!TypeOK
  <2> QED BY <1>2, <2>1, <2>2, <2>3, SettingsTypedOn, SettingsTypes DEF SettingsInv
<1>4. OfficeInv'
  <2> SUFFICES ASSUME section = "office" PROVE OfficeInv'
    BY DEF OfficeInv
  <2> QED BY DEF SettingsInv, OfficeInv
<1>5. ApartInv'
  <2> SUFFICES ASSUME apart' PROVE ApartInv'
    BY DEF ApartInv
  <2>1. PICK w \in Settings!Slots :
          /\ \A t \in Settings!Slots \ {w} : posts[t].op = "none"
          /\ ApartFits(posts[w], config, fields, told, flags, missed, section)
    BY DEF SettingsInv, ApartInv
  <2>2. ApartFits(posts[w], config, fields', told', flags, missed, section)
    BY <2>1
  <2> QED BY <2>1, <2>2 DEF ApartInv
<1> QED BY <1>3, <1>4, <1>5 DEF SettingsInv

LEMMA EditKeepsForm ==
  ASSUME SettingsInv, NEW v \in Values, Settings!Edit(v)
  PROVE  SettingsInv'
<1>1. /\ section \in Settings!HasFields /\ fields' = [fields EXCEPT !.value = v]
      /\ apart' = (apart /\ (section = "product-lookup" => Settings!Quiet))
      /\ UNCHANGED <<section, config, posts, disabled, pressed, flags, told, missed>>
  BY DEF Settings!Edit
<1>2. fields \in FormHeld /\ apart \in BOOLEAN
  BY SettingsTypes DEF SettingsInv
<1>3. /\ fields' \in FormHeld /\ fields'.is = fields.is /\ fields'.errors = fields.errors
      /\ fields'.todo = fields.todo
  BY <1>1, <1>2 DEF FormHeld
<1>4. apart' \in BOOLEAN
  BY <1>1, <1>2 DEF Settings!Quiet
<1>5. section \notin {"location-access", "restock"}
  BY <1>1 DEF Settings!HasFields
<1>6. ASSUME apart', NEW s \in Settings!Slots,
             ApartFits(posts[s], config, fields, told, flags, missed, section)
      PROVE  ApartFits(posts[s], config, fields', told, flags, missed, section)
  <2>1. ErrorsFit(posts[s], fields', told)
    BY <1>3, <1>6 DEF ApartFits, ErrorsFit
  <2>2. ASSUME section = "product-lookup", ~missed
        PROVE  FlagsFit(posts[s], config, fields', flags)
    <3>1. posts[s].op = "none" /\ posts[s].st = "none"
      BY <1>1, <1>6, <2>2, PostNew DEF Settings!Quiet
    <3> QED BY <1>6, <2>2, <3>1 DEF ApartFits, FlagsFit, IsSaved
  <2>3. ASSUME section \in Settings!HasButton, ~missed
        PROVE  TodoFits(posts[s], config, fields')
    BY <1>3, <1>6, <2>3 DEF ApartFits, TodoFits
  <2> QED BY <1>5, <1>6, <2>1, <2>2, <2>3 DEF ApartFits
<1> QED BY <1>1, <1>3, <1>4, <1>6, FieldsKeep

LEMMA EditAmountKeeps ==
  ASSUME SettingsInv, NEW place \in Settings!Places, Settings!EditAmount(place)
  PROVE  SettingsInv'
<1>1. /\ section = "restock"
      /\ UNCHANGED <<section, config, posts, disabled, pressed, flags, told, missed, apart>>
  BY DEF Settings!EditAmount
<1>2. fields \in FormHeld /\ apart \in BOOLEAN
  BY SettingsTypes DEF SettingsInv
<1>3. PICK wrong \in SUBSET Settings!Places : fields' = [fields EXCEPT !.wrong = wrong]
  <2>1. /\ fields.wrong \cup {place} \in SUBSET Settings!Places
        /\ fields.wrong \ {place} \in SUBSET Settings!Places
    BY <1>2 DEF FormHeld
  <2> QED BY <1>2, <2>1 DEF Settings!EditAmount, FormHeld
<1>4. /\ fields' \in FormHeld /\ fields'.is = fields.is /\ fields'.errors = fields.errors
      /\ fields'.cats = fields.cats /\ fields'.rows = fields.rows
  BY <1>2, <1>3 DEF FormHeld
<1>5. section \notin {"office", "product-lookup", "location-access"} \cup Settings!HasButton
  BY <1>1 DEF Settings!HasButton
<1>6. ASSUME NEW s \in Settings!Slots,
             ApartFits(posts[s], config, fields, told, flags, missed, section)
      PROVE  ApartFits(posts[s], config, fields', told, flags, missed, section)
  BY <1>4, <1>5, <1>6 DEF ApartFits, ErrorsFit, CatsFit
<1> QED BY <1>1, <1>2, <1>4, <1>6, FieldsKeep

LEMMA RefuseAmountsKeeps ==
  ASSUME SettingsInv, Settings!RefuseAmounts
  PROVE  SettingsInv'
<1>1. /\ section = "restock" /\ fields' = Settings!Applied(fields.wrong)
      /\ told' = Settings!NotSaved /\ apart' = (apart /\ Settings!Quiet)
      /\ UNCHANGED <<section, config, posts, disabled, pressed, flags, missed>>
  BY DEF Settings!RefuseAmounts
<1>2. fields \in FormHeld /\ fields.wrong \in SUBSET Settings!Places /\ apart \in BOOLEAN
  BY SettingsTypes DEF SettingsInv, FormHeld
<1>3. /\ fields' \in FormHeld /\ fields'.is = fields.is
      /\ fields'.cats = fields.cats /\ fields'.rows = fields.rows
  BY <1>1, <1>2, AppliedFits
<1>4. section \notin {"office", "product-lookup", "location-access"} \cup Settings!HasButton
  BY <1>1 DEF Settings!HasButton
<1>5. told' \notin Values /\ apart' \in BOOLEAN
  BY <1>1, <1>2, SettingsBounds DEF Settings!Quiet
<1>6. ASSUME apart', NEW s \in Settings!Slots,
             ApartFits(posts[s], config, fields, told, flags, missed, section)
      PROVE  ApartFits(posts[s], config, fields', told', flags, missed, section)
  <2>1. posts[s].op = "none"
    BY <1>1, <1>6, PostNew DEF Settings!Quiet
  <2>2. ErrorsFit(posts[s], fields', told')
    BY <1>5, <2>1 DEF ErrorsFit
  <2>3. CatsFit(posts[s], config, fields')
    BY <1>1, <1>3, <1>6 DEF ApartFits, CatsFit
  <2> QED BY <1>4, <1>6, <2>2, <2>3 DEF ApartFits
<1> QED BY <1>1, <1>3, <1>4, <1>5, <1>6, FieldsKeep

LEMMA MoveStrictKeeps ==
  ASSUME SettingsInv, Settings!MoveStrict
  PROVE  SettingsInv'
<1>1. /\ section = "location-access"
      /\ fields' = [fields EXCEPT !.strict = ~fields.strict, !.moved = TRUE]
      /\ UNCHANGED <<section, config, posts, disabled, pressed, flags, told, missed, apart>>
  BY DEF Settings!MoveStrict
<1>2. fields \in FormHeld /\ apart \in BOOLEAN
  BY SettingsTypes DEF SettingsInv
<1>3. /\ fields' \in FormHeld /\ fields'.is = fields.is /\ fields'.errors = fields.errors
      /\ fields'.grants = fields.grants /\ fields'.known = fields.known /\ fields'.moved = TRUE
  BY <1>1, <1>2 DEF FormHeld
<1>4. section \notin {"office", "product-lookup", "restock"} \cup Settings!HasButton
  BY <1>1 DEF Settings!HasButton
<1>5. ASSUME NEW s \in Settings!Slots,
             ApartFits(posts[s], config, fields, told, flags, missed, section)
      PROVE  ApartFits(posts[s], config, fields', told, flags, missed, section)
  <2>1. ErrorsFit(posts[s], fields', told)
    BY <1>3, <1>5 DEF ApartFits, ErrorsFit
  <2>2. ASSUME ~missed PROVE GrantsFit(posts[s], config, fields')
    BY <1>1, <1>3, <1>5, <2>2 DEF ApartFits, GrantsFit
  <2>3. StrictFits(posts[s], config, fields')
    BY <1>1, <1>3, <1>5 DEF ApartFits, StrictFits
  <2> QED BY <1>4, <1>5, <2>1, <2>2, <2>3 DEF ApartFits
<1> QED BY <1>1, <1>2, <1>3, <1>5, FieldsKeep

LEMMA SettingsStep == SettingsInv /\ [Settings!SettingsNext]_settingsVars => SettingsInv'
<1> SUFFICES ASSUME SettingsInv, [Settings!SettingsNext]_settingsVars
             PROVE  SettingsInv'
  OBVIOUS
<1>1. ASSUME NEW s \in Settings!Slots, Settings!Settle(s)
      PROVE  SettingsInv'
  BY <1>1, ServeSettingsKeeps, RefuseKeeps, PaintKeeps, GrantsToldKeeps, SavedKeeps,
     SaveFailsKeeps, PressAnsweredKeeps DEF Settings!Settle
<1>2. ASSUME NEW s \in Settings!Slots, Settings!Admin(s)
      PROVE  SettingsInv'
  BY <1>2, SaveKeeps, PressKeeps, RendersAnewKeeps, PutKeeps DEF Settings!Admin
<1>3. CASE Settings!MoveStrict
  BY <1>3, MoveStrictKeeps
<1>4. CASE Settings!RefuseAmounts
  BY <1>4, RefuseAmountsKeeps
<1>5. ASSUME NEW v \in Values, Settings!Edit(v)
      PROVE  SettingsInv'
  BY <1>5, EditKeepsForm
<1>6. ASSUME NEW place \in Settings!Places, Settings!EditAmount(place)
      PROVE  SettingsInv'
  BY <1>6, EditAmountKeeps
<1>7. CASE UNCHANGED settingsVars
  <2>1. UNCHANGED <<section, config, fields, posts, disabled, pressed, flags, told, missed, apart>>
    BY <1>7 DEF settingsVars
  <2> QED BY <2>1, SettingsTypes, FieldsKeep DEF SettingsInv
<1> QED BY <1>1, <1>2, <1>3, <1>4, <1>5, <1>6, <1>7 DEF Settings!SettingsNext

LEMMA SettingsStart == Settings!SettingsInit => SettingsInv
<1> SUFFICES ASSUME Settings!SettingsInit
             PROVE  SettingsInv
  OBVIOUS
<1> DEFINE p == [op |-> "render", st |-> "sent"]
<1>1. /\ section \in Settings!Sections /\ config \in Settings!Config
      /\ config.value = CHOOSE v \in Values \ Refused : TRUE
      /\ fields = Settings!Empty("blank", config)
      /\ posts = [s \in Settings!Slots |-> IF s = 1 THEN p ELSE Settings!Nobody]
      /\ disabled = FALSE /\ pressed = FALSE /\ flags = config.value
      /\ told = Settings!NothingYet /\ missed = FALSE /\ apart = TRUE
  BY DEF Settings!SettingsInit
<1>2. config.value \in Values /\ config.value \notin Refused
  BY <1>1, SettingsBounds
<1>3. fields \in FormHeld /\ fields.is = "blank" /\ fields.errors = {}
  BY <1>1, EmptyFits
<1>4. p \in PostKind /\ p.op = "render" /\ p.st = "sent"
  BY PostNew
<1> HIDE DEF p
<1>5. /\ posts \in [Settings!Slots -> PostKind] /\ 1 \in Settings!Slots /\ posts[1] = p
      /\ \A t \in Settings!Slots \ {1} : posts[t] = Settings!Nobody
  BY <1>1, <1>4, PostNew, SettingsBounds
<1>6. \A t \in Settings!Slots : posts[t].op \in {"none", "render"} /\ posts[t].st \in {"none", "sent"}
  BY <1>4, <1>5, PostNew
<1>7. SettingsTyped
  <2>1. /\ fields.is \in {"blank", "form", "error"} /\ fields.value \in Values
        /\ {fields.wrong, fields.errors} \subseteq SUBSET Settings!Places
    BY <1>3 DEF FormHeld
  <2>2. Settings!TypeOK
    BY <1>1, <1>2, <1>5, <1>6, <2>1 DEF Settings!TypeOK
  <2>3. \A t \in Settings!Slots : PostBelongs(posts[t], section)
    BY <1>6 DEF PostBelongs
  <2> QED BY <1>1, <1>3, <1>5, <2>2, <2>3 DEF SettingsTyped
<1>8. OfficeInv
  BY <1>1, <1>6, SettingsBounds DEF OfficeInv, IsSaved
<1>9. ApartInv
  <2>1. ApartFits(posts[1], config, fields, told, flags, missed, section)
    BY <1>1, <1>3, <1>4, <1>5
       DEF ApartFits, ErrorsFit, FlagsFit, GrantsFit, CatsFit, TodoFits, StrictFits, IsSaved
  <2>2. \A t \in Settings!Slots \ {1} : posts[t].op = "none"
    BY <1>5, PostNew
  <2> QED BY <1>5, <2>1, <2>2 DEF ApartInv
<1> QED BY <1>7, <1>8, <1>9 DEF SettingsInv

LEMMA SettingsAnswered ==
  SettingsInv => /\ Settings!TypeOK /\ Settings!SavedIsStored /\ Settings!SavedIsUnmarked
                 /\ Settings!FlagsAreStored /\ Settings!ListsAreTrue
<1> SUFFICES ASSUME SettingsInv
             PROVE  /\ Settings!TypeOK /\ Settings!SavedIsStored /\ Settings!SavedIsUnmarked
                    /\ Settings!FlagsAreStored /\ Settings!ListsAreTrue
  OBVIOUS
<1>1. Settings!Nobody.op = "none" /\ Settings!Nobody.st = "none"
  BY PostNew
<1>2. ASSUME Settings!Quiet, apart
      PROVE  ApartFits(Settings!Nobody, config, fields, told, flags, missed, section)
  <2>1. 1 \in Settings!Slots /\ \A t \in Settings!Slots : posts[t] = Settings!Nobody
    BY <1>2, SettingsBounds DEF Settings!Quiet
  <2>2. \A t \in Settings!Slots \ {1} : posts[t].op = "none"
    BY <1>1, <2>1
  <2>3. ApartFits(posts[1], config, fields, told, flags, missed, section)
    BY <1>2, <2>1, <2>2, ApartAt
  <2> QED BY <2>1, <2>3
<1>3. Settings!SavedIsStored
  <2> SUFFICES ASSUME section = "office", Settings!Quiet, ~missed, told \in Values
               PROVE  config.value = told
    BY DEF Settings!SavedIsStored
  <2>1. \A s \in Settings!Slots : ~IsSaved(posts[s])
    BY <1>1 DEF Settings!Quiet, IsSaved
  <2> QED BY <2>1 DEF SettingsInv, OfficeInv
<1>4. Settings!SavedIsUnmarked
  BY <1>1, <1>2 DEF Settings!SavedIsUnmarked, ApartFits, ErrorsFit
<1>5. Settings!FlagsAreStored
  BY <1>1, <1>2 DEF Settings!FlagsAreStored, ApartFits, FlagsFit, IsSaved
<1>6. Settings!ListsAreTrue
  <2> SUFFICES ASSUME fields.is = "form", Settings!Quiet, apart, ~missed
               PROVE  /\ section = "location-access" /\ fields.known =>
                           fields.grants = config.grants
                      /\ section = "restock" => fields.rows = config.cats
                      /\ section \in Settings!HasButton => fields.todo = config.todo
    BY DEF Settings!ListsAreTrue
  <2>1. ApartFits(Settings!Nobody, config, fields, told, flags, missed, section)
    BY <1>2
  <2> QED BY <1>1, <2>1 DEF ApartFits, GrantsFit, CatsFit, TodoFits
<1> QED BY <1>3, <1>4, <1>5, <1>6 DEF SettingsInv, SettingsTyped

\* Only what a put that is not sure carries changes the strict mode.
LEMMA StrictIsCarried ==
  ASSUME SettingsInv, Settings!SettingsNext, apart, config'.strict # config.strict
  PROVE  \E s \in Settings!Slots : posts[s].op = "put" /\ posts[s].st = "sent" /\ ~posts[s].sure
<1>1. PICK s \in Settings!Slots : Settings!Serve(s)
  <2>1. config' # config
    OBVIOUS
  <2>2. \A s \in Settings!Slots : Settings!Admin(s) => config' = config
    BY DEF Settings!Admin, Settings!Save, Settings!SaveGuarded, Settings!SavePolicies,
           Settings!SaveConnections, Settings!SaveLookup, Settings!SaveRestock, Settings!Send,
           Settings!RetryPush, Settings!EnableFractional, Settings!Press, Settings!Retry,
           Settings!AddCategory, Settings!RemoveCategory, Settings!Rerender, Settings!Put
  <2>3. \A s \in Settings!Slots : Settings!Settle(s) => Settings!Serve(s) \/ config' = config
    BY DEF Settings!Settle, Settings!Refuse, Settings!Paint, Settings!PaintFails,
           Settings!GrantsTold, Settings!SaveAccepted, Settings!LookupSaved, Settings!SaveFails,
           Settings!PressAccepted, Settings!PressFails
  <2>4. /\ Settings!MoveStrict => config' = config
        /\ Settings!RefuseAmounts => config' = config
        /\ \A v \in Values : Settings!Edit(v) => config' = config
        /\ \A place \in Settings!Places : Settings!EditAmount(place) => config' = config
    BY DEF Settings!MoveStrict, Settings!RefuseAmounts, Settings!Edit, Settings!EditAmount
  <2> QED BY <2>1, <2>2, <2>3, <2>4 DEF Settings!SettingsNext
<1> DEFINE q == posts[s]
<1>2. q \in PostKind /\ PostBelongs(q, section)
  BY SettingsTypes DEF SettingsInv, SettingsTyped
<1>3. /\ q.st = "sent" /\ ~Settings!IsRefused(q)
      /\ config' = Settings!Written(q) \/ (Settings!MayStay(q) /\ config' = config)
  BY <1>1 DEF Settings!Serve
<1>4. config'.strict = IF q.op = "put" THEN q.put.strict ELSE config.strict
  BY <1>2, <1>3, WrittenSettings DEF SettingsInv
<1>5. q.op = "put" /\ q.put.strict # config.strict
  BY <1>4
<1>6. section = "location-access" /\ \A t \in Settings!Slots \ {s} : posts[t].op = "none"
  BY <1>2, <1>5, ApartAlone DEF PostBelongs
<1>7. StrictFits(q, config, fields)
  BY <1>6, ApartAt DEF ApartFits
<1> QED BY <1>3, <1>5, <1>7 DEF StrictFits

--------------------------------------------------------------------------------
\* The licence section.
SlotKind == [is: {"none", "pending", "paired", "expired", "inactive"}, code: Nat]
JobOps == {"render", "lists", "create", "regenerate", "deactivate", "seat"}
JobSent == [op: JobOps, view: Nat, device: Devices \cup {License!Nobody}, st: {"sent"},
            own: BOOLEAN]
JobListed == [op: {"render", "lists"}, view: Nat, st: {"ok"}, own: BOOLEAN,
              got: [Devices -> SlotKind]]
JobCoded == [op: {"create", "regenerate"}, view: Nat, st: {"ok"}, own: BOOLEAN, got: Nat]
JobDone == [op: {"deactivate", "seat"}, view: Nat, st: {"ok"}, own: BOOLEAN,
            got: Devices \cup {License!Nobody}]
JobKind == UNION {{License!NoJob}, JobSent, JobListed, JobCoded, JobDone}
ListKind == [is: {"none", "shown"}, of: [Devices -> SlotKind]]
\* A request is of a render that was asked for, and brings a code that was generated.
JobBelongs(p, n, v) ==
  /\ p.op # "none" => p.view \in 1..v
  /\ p.op \in {"create", "regenerate"} /\ p.st = "ok" => p.got \in 1..n
  /\ p.op \in {"regenerate", "deactivate"} /\ p.st = "sent" => p.device \in Devices
SlotsFit(sl, n) ==
  /\ sl \in [Devices -> SlotKind]
  /\ \A d \in Devices : /\ sl[d].is = "pending" => sl[d].code \in 1..n
                        /\ sl[d].is # "pending" => sl[d].code = 0
  /\ \A d, e \in Devices : sl[d].code = sl[e].code /\ sl[d].code # 0 => d = e
OneDialog ==
  /\ \A j, k \in License!Jobs : jobs[j].own /\ jobs[k].own => j = k
  /\ asked = License!NotAsked => \A j \in License!Jobs : ~jobs[j].own
AskedFits(a, v) == a \in {License!NotAsked} \cup [device: Devices, view: 1..v]
LicenseTyped ==
  /\ SlotsFit(slots, codes) /\ codes \in 0..MaxCodes /\ spent \subseteq 1..codes
  /\ jobs \in [License!Jobs -> JobKind]
  /\ \A j \in License!Jobs : JobBelongs(jobs[j], codes, drawn)
  /\ render \in 0..drawn /\ drawn \in 1..MaxRenders
  /\ lists \in ListKind /\ (lists.is = "shown" => render # 0)
  /\ code \in 0..codes /\ AskedFits(asked, drawn) /\ OneDialog
  /\ gone \in BOOLEAN /\ serial \in BOOLEAN

Works(c, sl, pb) == \/ c \in pb
                    \/ \E d \in Devices : sl[d].code = c
SlotFits(shows, slot) ==
  \/ shows.is = slot.is
  \/ shows.is = "pending" /\ slot.is \in {"paired", "expired"}
ListFits(of, sl) == \A d \in Devices : SlotFits(of[d], sl[d])
\* What p brings will change what the page shows.
Renews(p) == p.op \in {"create", "regenerate", "deactivate"} /\ p.st = "ok"
\* What holds of a section whose only request is p, unless an answer was lost.
JobFits(p, sl, pb, r, cd, ls) ==
  /\ p.op \notin {"none", "render"} => p.view = r
  /\ cd # 0 /\ p.op # "render" /\ ~(Renews(p) /\ p.op # "create") => Works(cd, sl, pb)
  /\ p.op \in {"create", "regenerate"} /\ p.st = "ok" => Works(p.got, sl, pb)
  /\ ls.is = "shown" /\ p.op \notin {"render", "lists"} /\ ~Renews(p) => ListFits(ls.of, sl)
  /\ p.op = "lists" /\ p.st = "ok" => ListFits(p.got, sl)
SerialInv ==
  serial => \E j \in License!Jobs :
              /\ \A k \in License!Jobs \ {j} : jobs[k].op = "none"
              /\ jobs[j].op \notin {"none", "render"} => jobs[j].view = render
              /\ ~gone => JobFits(jobs[j], slots, spent, render, code, lists)
LicenseInv == LicenseTyped /\ SerialInv

LEMMA LicenseBounds ==
  /\ MaxCodes \in Nat \ {0} /\ MaxRenders \in Nat \ {0} /\ MaxCalls \in Nat \ {0}
  /\ License!Jobs = 1..MaxCalls /\ 1 \in License!Jobs
  /\ Devices \subseteq Nat \ {0} /\ License!Nobody = 0
BY PagesAssumption DEF PagesAssumption, License!LicenseAssumption, License!Jobs, License!Nobody

LEMMA NoJobIs ==
  /\ License!NoJob \in JobKind /\ License!NoJob.op = "none" /\ License!NoJob.st = "none"
  /\ License!NoJob.own = FALSE
BY DEF JobKind, License!NoJob

LEMMA JobKinds ==
  ASSUME NEW p \in JobKind
  PROVE  /\ p.op = "none" <=> p = License!NoJob
         /\ p.op \in JobOps \cup {"none"} /\ p.st \in {"none", "sent", "ok"}
         /\ p.st = "none" <=> p.op = "none"
         /\ p.own \in BOOLEAN /\ (p.op # "none" => p.view \in Nat)
         /\ p.st = "sent" => p \in JobSent
         /\ p.st = "ok" /\ p.op \in {"render", "lists"} => p \in JobListed
         /\ p.st = "ok" /\ p.op \in {"create", "regenerate"} => p \in JobCoded
<1>1. \/ p = License!NoJob \/ p \in JobSent \/ p \in JobListed \/ p \in JobCoded
      \/ p \in JobDone
  BY DEF JobKind
<1>2. CASE p = License!NoJob
  BY <1>2, NoJobIs
<1>3. CASE p \in JobSent
  <2>1. p.op \in JobOps /\ p.st = "sent" /\ p.own \in BOOLEAN /\ p.view \in Nat
    BY <1>3 DEF JobSent
  <2> QED BY <1>3, <2>1, NoJobIs DEF JobOps
<1>4. CASE p \in JobListed
  <2>1. p.op \in {"render", "lists"} /\ p.st = "ok" /\ p.own \in BOOLEAN /\ p.view \in Nat
    BY <1>4 DEF JobListed
  <2> QED BY <1>4, <2>1, NoJobIs DEF JobOps
<1>5. CASE p \in JobCoded
  <2>1. p.op \in {"create", "regenerate"} /\ p.st = "ok" /\ p.own \in BOOLEAN /\ p.view \in Nat
    BY <1>5 DEF JobCoded
  <2> QED BY <1>5, <2>1, NoJobIs DEF JobOps
<1>6. CASE p \in JobDone
  <2>1. p.op \in {"deactivate", "seat"} /\ p.st = "ok" /\ p.own \in BOOLEAN /\ p.view \in Nat
    BY <1>6 DEF JobDone
  <2> QED BY <2>1, NoJobIs DEF JobOps
<1> QED BY <1>1, <1>2, <1>3, <1>4, <1>5, <1>6

LEMMA JobNew ==
  ASSUME NEW op \in JobOps, NEW v \in Nat, NEW d \in Devices \cup {License!Nobody}
  PROVE  LET p == License!Job(op, v, d)
         IN  /\ p \in JobKind /\ p.op = op /\ p.view = v /\ p.device = d /\ p.st = "sent"
             /\ p.own <=> op \in {"regenerate", "deactivate"}
<1> DEFINE p == License!Job(op, v, d)
<1>1. p \in JobSent
  BY DEF License!Job, JobSent
<1>2. /\ p.op = op /\ p.view = v /\ p.device = d /\ p.st = "sent"
      /\ p.own <=> op \in {"regenerate", "deactivate"}
  BY DEF License!Job
<1> QED BY <1>1, <1>2 DEF JobKind

LEMMA AnswerNew ==
  ASSUME NEW q \in JobKind, NEW got, q.op # "none",
         \/ q.op \in {"render", "lists"} /\ got \in [Devices -> SlotKind]
         \/ q.op \in {"create", "regenerate"} /\ got \in Nat
         \/ q.op \in {"deactivate", "seat"} /\ got \in Devices \cup {License!Nobody}
  PROVE  LET p == [op |-> q.op, view |-> q.view, st |-> "ok", own |-> q.own, got |-> got]
         IN  /\ p \in JobKind /\ p.op = q.op /\ p.view = q.view /\ p.st = "ok"
             /\ p.own = q.own /\ p.got = got
<1>1. q.view \in Nat /\ q.own \in BOOLEAN
  BY JobKinds
<1>2. CASE q.op \in {"render", "lists"} /\ got \in [Devices -> SlotKind]
  BY <1>1, <1>2 DEF JobKind, JobListed
<1>3. CASE q.op \in {"create", "regenerate"} /\ got \in Nat
  BY <1>1, <1>3 DEF JobKind, JobCoded
<1>4. CASE q.op \in {"deactivate", "seat"} /\ got \in Devices \cup {License!Nobody}
  BY <1>1, <1>4 DEF JobKind, JobDone
<1> QED BY <1>2, <1>3, <1>4

LEMMA LicenseTypes ==
  LicenseTyped => /\ jobs \in [License!Jobs -> JobKind] /\ slots \in [Devices -> SlotKind]
                  /\ codes \in Nat /\ codes <= MaxCodes /\ drawn \in Nat /\ drawn >= 1
                  /\ drawn <= MaxRenders /\ render \in Nat /\ render <= drawn
                  /\ lists \in ListKind /\ (lists.is = "shown" => render # 0)
                  /\ code \in 0..codes /\ spent \subseteq 1..codes
                  /\ gone \in BOOLEAN /\ serial \in BOOLEAN
BY LicenseBounds DEF LicenseTyped, SlotsFit

LEMMA LicenseTypedOn ==
  ASSUME LicenseTyped, NEW j \in License!Jobs, NEW p \in JobKind,
         jobs' = [jobs EXCEPT ![j] = p], JobBelongs(p, codes', drawn'),
         codes' \in Nat, codes' >= codes, codes' <= MaxCodes, SlotsFit(slots', codes'),
         drawn' \in Nat, drawn' >= drawn, drawn' <= MaxRenders, spent' \subseteq 1..codes',
         render' \in 0..drawn', lists' \in ListKind, lists'.is = "shown" => render' # 0,
         code' \in 0..codes', AskedFits(asked', drawn'), gone' \in BOOLEAN, serial' \in BOOLEAN,
         p.own => /\ asked' # License!NotAsked
                  /\ \A k \in License!Jobs \ {j} : ~jobs[k].own,
         asked' = License!NotAsked => \A k \in License!Jobs \ {j} : ~jobs[k].own
  PROVE  LicenseTyped'
<1>1. /\ jobs' \in [License!Jobs -> JobKind] /\ jobs'[j] = p
      /\ \A k \in License!Jobs \ {j} : jobs'[k] = jobs[k]
  BY LicenseTypes
<1>2. codes' \in 0..MaxCodes /\ drawn' \in 1..MaxRenders
  BY LicenseBounds, LicenseTypes
<1>3. ASSUME NEW k \in License!Jobs PROVE JobBelongs(jobs'[k], codes', drawn')
  <2>1. CASE k = j
    BY <1>1, <2>1
  <2>2. CASE k # j
    <3>1. JobBelongs(jobs[k], codes, drawn)
      BY DEF LicenseTyped
    <3>2. 1..codes \subseteq 1..codes' /\ 1..drawn \subseteq 1..drawn'
      BY LicenseTypes
    <3> QED BY <1>1, <2>2, <3>1, <3>2 DEF JobBelongs
  <2> QED BY <2>1, <2>2
<1>4. OneDialog'
  <2>1. \A k, l \in License!Jobs : jobs'[k].own /\ jobs'[l].own => k = l
    BY <1>1 DEF LicenseTyped, OneDialog
  <2>2. asked' = License!NotAsked => \A k \in License!Jobs : ~jobs'[k].own
    BY <1>1
  <2> QED BY <2>1, <2>2 DEF OneDialog
<1> QED BY <1>1, <1>2, <1>3, <1>4 DEF LicenseTyped

\* The request that is answered keeps its dialog, or ends it.
LEMMA DialogStays ==
  ASSUME LicenseTyped, NEW j \in License!Jobs, NEW own \in BOOLEAN,
         own => jobs[j].own /\ asked' = asked,
         asked' = asked \/ asked' = IF jobs[j].own THEN License!NotAsked ELSE asked
  PROVE  /\ own => asked' # License!NotAsked /\ \A k \in License!Jobs \ {j} : ~jobs[k].own
         /\ asked' = License!NotAsked => \A k \in License!Jobs \ {j} : ~jobs[k].own
         /\ AskedFits(asked', drawn)
BY DEF LicenseTyped, OneDialog, AskedFits

LEMMA SerialAt ==
  ASSUME LicenseInv, serial, NEW j \in License!Jobs,
         \A k \in License!Jobs \ {j} : jobs[k].op = "none"
  PROVE  /\ jobs[j].op \notin {"none", "render"} => jobs[j].view = render
         /\ ~gone => JobFits(jobs[j], slots, spent, render, code, lists)
<1>1. PICK w \in License!Jobs :
        /\ \A k \in License!Jobs \ {w} : jobs[k].op = "none"
        /\ jobs[w].op \notin {"none", "render"} => jobs[w].view = render
        /\ ~gone => JobFits(jobs[w], slots, spent, render, code, lists)
  BY DEF LicenseInv, SerialInv
<1>2. CASE w = j
  BY <1>1, <1>2
<1>3. CASE w # j
  <2>1. jobs[w].op = "none" /\ jobs[j].op = "none"
    BY <1>1, <1>3
  <2>2. jobs[w] = jobs[j]
    BY <2>1, JobKinds, LicenseTypes DEF LicenseInv
  <2> QED BY <1>1, <2>2
<1> QED BY <1>2, <1>3

LEMMA SerialAlone ==
  ASSUME LicenseInv, serial, NEW j \in License!Jobs, jobs[j].op # "none"
  PROVE  \A k \in License!Jobs \ {j} : jobs[k].op = "none"
BY DEF LicenseInv, SerialInv

LEMMA SerialSlot ==
  ASSUME LicenseTyped, NEW j \in License!Jobs, NEW p \in JobKind,
         jobs' = [jobs EXCEPT ![j] = p],
         serial' => /\ \A k \in License!Jobs \ {j} : jobs[k].op = "none"
                    /\ p.op \notin {"none", "render"} => p.view = render'
                    /\ ~gone' => JobFits(p, slots', spent', render', code', lists')
  PROVE  SerialInv'
<1>1. /\ jobs'[j] = p
      /\ \A k \in License!Jobs \ {j} : jobs'[k] = jobs[k]
  BY LicenseTypes
<1> QED BY <1>1 DEF SerialInv

LEMMA LicenseOthers ==
  ASSUME LicenseTyped, NEW j \in License!Jobs
  PROVE  ~License!Others(j) <=> \A k \in License!Jobs \ {j} : jobs[k].op = "none"
BY JobKinds, LicenseTypes DEF License!Others

\* A new code, and a slot that has none.
LEMMA SlotGetsCode ==
  ASSUME NEW n \in Nat, NEW sl, SlotsFit(sl, n), NEW d \in Devices, NEW tl,
         tl = [sl EXCEPT ![d] = [is |-> "pending", code |-> n + 1]]
  PROVE  SlotsFit(tl, n + 1) /\ tl[d].code = n + 1 /\ \A e \in Devices \ {d} : tl[e] = sl[e]
<1>1. sl \in [Devices -> SlotKind]
  BY DEF SlotsFit
<1>2. /\ tl[d].is = "pending" /\ tl[d].code = n + 1 /\ \A e \in Devices \ {d} : tl[e] = sl[e]
      /\ tl \in [Devices -> SlotKind]
  BY <1>1 DEF SlotKind
<1>3. \A e \in Devices : sl[e].code \in 0..n /\ (sl[e].is = "pending" => sl[e].code \in 1..n)
                         /\ (sl[e].is # "pending" => sl[e].code = 0)
  BY DEF SlotsFit
<1>4. \A e, f \in Devices : tl[e].code = tl[f].code /\ tl[e].code # 0 => e = f
  <2> SUFFICES ASSUME NEW e \in Devices, NEW f \in Devices, tl[e].code = tl[f].code,
                      tl[e].code # 0
               PROVE  e = f
    OBVIOUS
  <2>1. CASE e = d \/ f = d
    BY <1>2, <1>3, <2>1
  <2>2. CASE e # d /\ f # d
    BY <1>2, <2>2 DEF SlotsFit
  <2> QED BY <2>1, <2>2
<1>5. \A e \in Devices : /\ tl[e].is = "pending" => tl[e].code \in 1..(n + 1)
                         /\ tl[e].is # "pending" => tl[e].code = 0
  BY <1>2, <1>3
<1> QED BY <1>2, <1>4, <1>5 DEF SlotsFit

LEMMA SlotLosesCode ==
  ASSUME NEW n \in Nat, NEW sl, SlotsFit(sl, n), NEW d \in Devices,
         NEW x \in SlotKind, x.is # "pending", x.code = 0, NEW tl, tl = [sl EXCEPT ![d] = x]
  PROVE  SlotsFit(tl, n) /\ tl[d] = x /\ \A e \in Devices \ {d} : tl[e] = sl[e]
<1>1. sl \in [Devices -> SlotKind]
  BY DEF SlotsFit
<1>2. /\ tl[d] = x /\ \A e \in Devices \ {d} : tl[e] = sl[e]
      /\ tl \in [Devices -> SlotKind]
  BY <1>1
<1>3. \A e, f \in Devices : tl[e].code = tl[f].code /\ tl[e].code # 0 => e = f
  <2> SUFFICES ASSUME NEW e \in Devices, NEW f \in Devices, tl[e].code = tl[f].code,
                      tl[e].code # 0
               PROVE  e = f
    OBVIOUS
  <2>1. e # d /\ f # d
    BY <1>2
  <2> QED BY <1>2, <2>1 DEF SlotsFit
<1> QED BY <1>2, <1>3 DEF SlotsFit

\* What the answer to q leaves of a page that q alone was of.
ServedFits(q, got, sl) ==
  \A p \in JobKind :
    p.op = q.op /\ p.view = q.view /\ p.st = "ok" /\ p.got = got =>
      (JobFits(q, slots, spent, render, code, lists) =>
         JobFits(p, sl, spent, render, code, lists))

\* The server answers: what the page shows stays.
LEMMA JobServed ==
  ASSUME LicenseInv, NEW j \in License!Jobs, NEW got, jobs[j].st = "sent",
         License!Answer(j, got),
         \/ jobs[j].op \in {"render", "lists"} /\ got \in [Devices -> SlotKind]
         \/ jobs[j].op \in {"create", "regenerate"} /\ got \in 1..codes'
         \/ jobs[j].op \in {"deactivate", "seat"} /\ got \in Devices \cup {License!Nobody},
         codes' \in Nat, codes' >= codes, codes' <= MaxCodes, SlotsFit(slots', codes'),
         UNCHANGED <<spent, render, drawn, lists, code, asked, gone, serial>>,
         ServedFits(jobs[j], got, slots')
  PROVE  LicenseInv'
<1> DEFINE q == jobs[j]
           p == [op |-> q.op, view |-> q.view, st |-> "ok", own |-> q.own, got |-> got]
<1>1. /\ q \in JobKind /\ jobs' = [jobs EXCEPT ![j] = p] /\ q.op # "none"
      /\ JobBelongs(q, codes, drawn) /\ q.own \in BOOLEAN
  BY LicenseTypes, JobKinds DEF License!Answer, License!Put, LicenseInv, LicenseTyped
<1>2. 1..codes' \subseteq Nat /\ 1..codes \subseteq 1..codes' /\ 0..codes \subseteq 0..codes'
  BY LicenseTypes DEF LicenseInv
<1>3. /\ p \in JobKind /\ p.op = q.op /\ p.view = q.view /\ p.st = "ok"
      /\ p.own = q.own /\ p.got = got
  BY <1>1, <1>2, AnswerNew
<1> HIDE DEF p
<1>4. LicenseTyped'
  <2>1. JobBelongs(p, codes', drawn')
    BY <1>1, <1>3 DEF JobBelongs
  <2>2. /\ p.own => asked' # License!NotAsked /\ \A k \in License!Jobs \ {j} : ~jobs[k].own
        /\ asked' = License!NotAsked => \A k \in License!Jobs \ {j} : ~jobs[k].own
        /\ AskedFits(asked', drawn')
    BY <1>1, <1>3, DialogStays DEF LicenseInv
  <2>3. /\ drawn' \in Nat /\ drawn' >= drawn /\ drawn' <= MaxRenders
        /\ spent' \subseteq 1..codes' /\ render' \in 0..drawn' /\ lists' \in ListKind
        /\ (lists'.is = "shown" => render' # 0)
        /\ code' \in 0..codes' /\ gone' \in BOOLEAN /\ serial' \in BOOLEAN
    BY <1>2, LicenseTypes DEF LicenseInv
  <2> QED BY <1>1, <1>3, <2>1, <2>2, <2>3, LicenseTypedOn DEF LicenseInv
<1>5. SerialInv'
  <2> SUFFICES ASSUME serial
               PROVE  /\ \A k \in License!Jobs \ {j} : jobs[k].op = "none"
                      /\ p.op \notin {"none", "render"} => p.view = render
                      /\ ~gone => JobFits(p, slots', spent, render, code, lists)
    BY <1>1, <1>3, SerialSlot DEF LicenseInv
  <2>1. \A k \in License!Jobs \ {j} : jobs[k].op = "none"
    BY <1>1, SerialAlone
  <2>2. /\ q.op \notin {"none", "render"} => q.view = render
        /\ ~gone => JobFits(q, slots, spent, render, code, lists)
    BY <2>1, SerialAt
  <2> QED BY <1>3, <2>1, <2>2 DEF ServedFits
<1> QED BY <1>4, <1>5 DEF LicenseInv

LEMMA BackendKeeps ==
  ASSUME LicenseInv, NEW j \in License!Jobs, License!Backend(j)
  PROVE  LicenseInv'
<1> DEFINE q == jobs[j]
<1>1. /\ q \in JobKind /\ SlotsFit(slots, codes) /\ codes \in Nat /\ codes <= MaxCodes
      /\ JobBelongs(q, codes, drawn) /\ slots \in [Devices -> SlotKind] /\ MaxCodes \in Nat
  BY LicenseTypes, LicenseBounds DEF LicenseInv, LicenseTyped
<1>2. CASE License!ServeCreate(j)
  <2>1. PICK d \in Devices : License!Free(d) /\ License!NewCode(d) /\ License!Answer(j, codes + 1)
    BY <1>2 DEF License!ServeCreate
  <2>2. /\ q.op = "create" /\ q.st = "sent"
        /\ UNCHANGED <<spent, render, drawn, lists, code, asked, gone, serial>>
    BY <1>2 DEF License!ServeCreate
  <2>3. /\ codes < MaxCodes /\ codes' = codes + 1 /\ slots[d].is = "none"
        /\ slots' = [slots EXCEPT ![d] = [is |-> "pending", code |-> codes + 1]]
    BY <2>1 DEF License!NewCode, License!Free
  <2>4. /\ SlotsFit(slots', codes') /\ slots'[d].code = codes + 1
        /\ \A e \in Devices \ {d} : slots'[e] = slots[e]
    BY <1>1, <2>3, SlotGetsCode
  <2>5. slots[d].code = 0
    BY <1>1, <2>3 DEF SlotsFit
  <2>6. codes + 1 \in 1..codes' /\ codes' \in Nat /\ codes' >= codes /\ codes' <= MaxCodes
    BY <1>1, <2>3
  <2>7. ASSUME NEW p \in JobKind, p.op = q.op, p.view = q.view, p.st = "ok", p.got = codes + 1,
               JobFits(q, slots, spent, render, code, lists)
        PROVE  JobFits(p, slots', spent, render, code, lists)
    <3>1. code # 0 => Works(code, slots', spent)
      BY <2>2, <2>4, <2>5, <2>7 DEF JobFits, Works, Renews
    <3>2. Works(p.got, slots', spent)
      BY <2>4, <2>7 DEF Works
    <3> QED BY <2>2, <2>7, <3>1, <3>2 DEF JobFits, Renews
  <2>8. ServedFits(q, codes + 1, slots')
    BY <2>7 DEF ServedFits
  <2> QED BY <2>1, <2>2, <2>4, <2>6, <2>8, JobServed
<1>3. CASE License!ServeRegenerate(j)
  <2>1. /\ q.op = "regenerate" /\ q.st = "sent" /\ License!NewCode(q.device)
        /\ License!Answer(j, codes + 1)
        /\ UNCHANGED <<spent, render, drawn, lists, code, asked, gone, serial>>
    BY <1>3 DEF License!ServeRegenerate
  <2>2. q.device \in Devices
    BY <1>1, <2>1 DEF JobBelongs
  <2>3. /\ codes < MaxCodes /\ codes' = codes + 1
        /\ slots' = [slots EXCEPT ![q.device] = [is |-> "pending", code |-> codes + 1]]
    BY <2>1 DEF License!NewCode
  <2>4. SlotsFit(slots', codes') /\ slots'[q.device].code = codes + 1
    BY <1>1, <2>2, <2>3, SlotGetsCode
  <2>5. codes + 1 \in 1..codes' /\ codes' \in Nat /\ codes' >= codes /\ codes' <= MaxCodes
    BY <1>1, <2>3
  <2>6. ASSUME NEW p \in JobKind, p.op = q.op, p.view = q.view, p.st = "ok", p.got = codes + 1,
               JobFits(q, slots, spent, render, code, lists)
        PROVE  JobFits(p, slots', spent, render, code, lists)
    <3>1. Works(p.got, slots', spent)
      BY <2>2, <2>4, <2>6 DEF Works
    <3> QED BY <2>1, <2>6, <3>1 DEF JobFits, Renews
  <2>7. ServedFits(q, codes + 1, slots')
    BY <2>6 DEF ServedFits
  <2> QED BY <2>1, <2>4, <2>5, <2>7, JobServed
<1>4. CASE License!ServeDeactivate(j)
  <2>1. /\ q.op = "deactivate" /\ q.st = "sent"
        /\ slots' = [slots EXCEPT ![q.device] = [is |-> "inactive", code |-> 0]]
        /\ License!Answer(j, q.device)
        /\ UNCHANGED <<codes, spent, render, drawn, lists, code, asked, gone, serial>>
    BY <1>4 DEF License!ServeDeactivate
  <2>2. q.device \in Devices
    BY <1>1, <2>1 DEF JobBelongs
  <2>3. SlotsFit(slots', codes')
    <3>1. SlotsFit(slots', codes)
      <4> DEFINE x == [is |-> "inactive", code |-> 0]
      <4>1. x \in SlotKind /\ x.is # "pending" /\ x.code = 0
        BY DEF SlotKind
      <4>2. slots' = [slots EXCEPT ![q.device] = x]
        BY <2>1
      <4> HIDE DEF x
      <4> QED BY <1>1, <2>2, <4>1, <4>2, SlotLosesCode
    <3> QED BY <2>1, <3>1
  <2>4. ASSUME NEW p \in JobKind, p.op = q.op, p.view = q.view, p.st = "ok", p.got = q.device,
               JobFits(q, slots, spent, render, code, lists)
        PROVE  JobFits(p, slots', spent, render, code, lists)
    BY <2>1, <2>4 DEF JobFits, Renews
  <2>5. ServedFits(q, q.device, slots')
    BY <2>4 DEF ServedFits
  <2>6. codes' \in Nat /\ codes' >= codes /\ codes' <= MaxCodes
    BY <1>1, <2>1
  <2> QED BY <2>1, <2>2, <2>3, <2>5, <2>6, JobServed
<1>5. CASE License!ServeSeat(j)
  <2>1. /\ q.op = "seat" /\ q.st = "sent" /\ License!Answer(j, License!Nobody)
        /\ UNCHANGED <<slots, codes, spent, render, drawn, lists, code, asked, gone, serial>>
    BY <1>5 DEF License!ServeSeat
  <2>2. ASSUME NEW p \in JobKind, p.op = q.op, p.view = q.view, p.st = "ok",
               p.got = License!Nobody, JobFits(q, slots, spent, render, code, lists)
        PROVE  JobFits(p, slots', spent, render, code, lists)
    BY <2>1, <2>2 DEF JobFits, Renews
  <2>3. SlotsFit(slots', codes')
    BY <1>1, <2>1
  <2>4. ServedFits(q, License!Nobody, slots')
    BY <2>2 DEF ServedFits
  <2>5. codes' \in Nat /\ codes' >= codes /\ codes' <= MaxCodes
    BY <1>1, <2>1
  <2> QED BY <2>1, <2>3, <2>4, <2>5, JobServed
<1>6. CASE License!ServeLists(j)
  <2>1. /\ q.op \in {"render", "lists"} /\ q.st = "sent" /\ License!Answer(j, slots)
        /\ UNCHANGED <<slots, codes, spent, render, drawn, lists, code, asked, gone, serial>>
    BY <1>6 DEF License!ServeLists
  <2>2. ListFits(slots, slots)
    BY DEF ListFits, SlotFits
  <2>3. ASSUME NEW p \in JobKind, p.op = q.op, p.view = q.view, p.st = "ok",
               p.got = slots, JobFits(q, slots, spent, render, code, lists)
        PROVE  JobFits(p, slots', spent, render, code, lists)
    BY <2>1, <2>2, <2>3 DEF JobFits, Renews
  <2>4. SlotsFit(slots', codes')
    BY <1>1, <2>1
  <2>5. ServedFits(q, slots, slots')
    BY <2>3 DEF ServedFits
  <2>6. codes' \in Nat /\ codes' >= codes /\ codes' <= MaxCodes
    BY <1>1, <2>1
  <2> QED BY <1>1, <2>1, <2>4, <2>5, <2>6, JobServed
<1> QED BY <1>2, <1>3, <1>4, <1>5, <1>6 DEF License!Backend

LEMMA JobAsked ==
  ASSUME LicenseInv, NEW j \in License!Jobs, NEW p \in JobKind, jobs[j] = License!NoJob,
         jobs' = [jobs EXCEPT ![j] = p], p.st = "sent", p.op # "none",
         JobBelongs(p, codes, drawn'), drawn' \in {drawn, drawn + 1}, drawn' <= MaxRenders,
         UNCHANGED <<slots, codes, spent, render, lists, code, asked, gone>>,
         p.own => asked # License!NotAsked /\ ~License!Answering,
         serial' \in BOOLEAN,
         serial' => License!Still /\ (p.op = "render" \/ (serial /\ p.view = render))
  PROVE  LicenseInv'
<1>1. /\ SlotsFit(slots, codes) /\ OneDialog /\ AskedFits(asked, drawn)
  BY DEF LicenseInv, LicenseTyped
<1>2. /\ drawn' \in Nat /\ drawn' >= drawn /\ 1..drawn \subseteq 1..drawn'
      /\ render' \in 0..drawn'
  BY LicenseTypes DEF LicenseInv
<1>3. LicenseTyped'
  <2>1. AskedFits(asked', drawn')
    BY <1>1, <1>2 DEF AskedFits
  <2>2. /\ p.own => asked' # License!NotAsked /\ \A k \in License!Jobs \ {j} : ~jobs[k].own
        /\ asked' = License!NotAsked => \A k \in License!Jobs \ {j} : ~jobs[k].own
    BY <1>1 DEF OneDialog, License!Answering
  <2>3. /\ codes' \in Nat /\ codes' >= codes /\ codes' <= MaxCodes /\ SlotsFit(slots', codes')
        /\ spent' \subseteq 1..codes' /\ lists' \in ListKind /\ code' \in 0..codes'
        /\ (lists'.is = "shown" => render' # 0)
        /\ gone' \in BOOLEAN /\ JobBelongs(p, codes', drawn')
    BY <1>1, LicenseTypes DEF LicenseInv
  <2> QED BY <1>2, <2>1, <2>2, <2>3, LicenseTypedOn DEF LicenseInv
<1>4. SerialInv'
  <2> SUFFICES ASSUME serial'
               PROVE  /\ \A k \in License!Jobs \ {j} : jobs[k].op = "none"
                      /\ p.op \notin {"none", "render"} => p.view = render
                      /\ ~gone => JobFits(p, slots, spent, render, code, lists)
    BY SerialSlot DEF LicenseInv
  <2>1. \A k \in License!Jobs \ {j} : jobs[k].op = "none"
    BY NoJobIs DEF License!Still
  <2>2. CASE p.op = "render"
    BY <2>1, <2>2 DEF JobFits
  <2>3. CASE p.op # "render"
    <3>1. serial /\ p.view = render
      BY <2>3
    <3>2. ~gone => JobFits(License!NoJob, slots, spent, render, code, lists)
      BY <2>1, <3>1, SerialAt
    <3> QED BY <2>1, <2>3, <3>1, <3>2, NoJobIs DEF JobFits, Renews
  <2> QED BY <2>2, <2>3
<1> QED BY <1>3, <1>4 DEF LicenseInv

LEMMA JobSettles ==
  ASSUME LicenseInv, NEW j \in License!Jobs, NEW p \in JobKind, jobs[j].op # "none",
         jobs' = [jobs EXCEPT ![j] = p], UNCHANGED <<slots, codes, spent>>,
         JobBelongs(p, codes, drawn'), drawn' \in {drawn, drawn + 1}, drawn' <= MaxRenders,
         render' \in 0..drawn', lists' \in ListKind, lists'.is = "shown" => render' # 0,
         code' \in 0..codes, asked' = asked \/ asked' = IF jobs[j].own THEN License!NotAsked ELSE asked,
         p.own => jobs[j].own /\ asked' = asked, gone' \in BOOLEAN, serial' \in BOOLEAN,
         serial' => /\ \A k \in License!Jobs \ {j} : jobs[k].op = "none"
                    /\ p.op \notin {"none", "render"} => p.view = render'
                    /\ ~gone' => JobFits(p, slots, spent, render', code', lists')
  PROVE  LicenseInv'
<1>1. SlotsFit(slots, codes)
  BY DEF LicenseInv, LicenseTyped
<1>2. drawn' \in Nat /\ drawn' >= drawn /\ 1..drawn \subseteq 1..drawn'
  BY LicenseTypes DEF LicenseInv
<1>3. LicenseTyped'
  <2>1. p.own \in BOOLEAN
    BY JobKinds
  <2>2. /\ p.own => asked' # License!NotAsked /\ \A k \in License!Jobs \ {j} : ~jobs[k].own
        /\ asked' = License!NotAsked => \A k \in License!Jobs \ {j} : ~jobs[k].own
        /\ AskedFits(asked', drawn)
    BY <2>1, DialogStays DEF LicenseInv
  <2>3. AskedFits(asked', drawn')
    BY <1>2, <2>2 DEF AskedFits
  <2>4. /\ codes' \in Nat /\ codes' >= codes /\ codes' <= MaxCodes /\ SlotsFit(slots', codes')
        /\ spent' \subseteq 1..codes' /\ code' \in 0..codes' /\ JobBelongs(p, codes', drawn')
    BY <1>1, LicenseTypes DEF LicenseInv
  <2> QED BY <1>2, <2>2, <2>3, <2>4, LicenseTypedOn DEF LicenseInv
<1>4. SerialInv'
  BY SerialSlot DEF LicenseInv
<1> QED BY <1>3, <1>4 DEF LicenseInv

LEMMA AdminAsksKeeps ==
  ASSUME LicenseInv, NEW j \in License!Jobs,
         \/ License!Create(j) \/ License!Seat(j) \/ License!Retry(j)
         \/ License!Confirm(j, "regenerate") \/ License!Confirm(j, "deactivate")
  PROVE  LicenseInv'
<1>1. /\ drawn \in Nat /\ drawn >= 1 /\ drawn <= MaxRenders /\ render \in 0..drawn
      /\ serial \in BOOLEAN /\ AskedFits(asked, drawn) /\ License!Nobody \in Nat
      /\ MaxRenders \in Nat /\ License!Still \in BOOLEAN
  BY LicenseTypes, LicenseBounds DEF LicenseInv, LicenseTyped, License!Still
<1>2. CASE License!Create(j) \/ License!Seat(j)
  <2>1. PICK op \in {"create", "seat"} : License!Press(j, License!Job(op, render, License!Nobody))
    BY <1>2 DEF License!Create, License!Seat
  <2> DEFINE p == License!Job(op, render, License!Nobody)
  <2>2. /\ render # 0 /\ jobs[j] = License!NoJob /\ jobs' = [jobs EXCEPT ![j] = p]
        /\ serial' = (serial /\ License!Still)
        /\ UNCHANGED <<slots, codes, spent, render, drawn, lists, code, asked, gone>>
    BY <2>1 DEF License!Press, License!FreeJob, License!Put
  <2>3. p \in JobKind /\ p.op = op /\ p.view = render /\ p.st = "sent" /\ ~p.own
    BY <1>1, JobNew DEF JobOps
  <2> HIDE DEF p
  <2>4. JobBelongs(p, codes, drawn')
    BY <1>1, <2>2, <2>3 DEF JobBelongs
  <2> QED BY <1>1, <2>2, <2>3, <2>4, JobAsked
<1>3. CASE License!Retry(j)
  <2> DEFINE p == License!Job("render", drawn + 1, License!Nobody)
  <2>1. /\ License!Still /\ jobs[j] = License!NoJob /\ drawn < MaxRenders
        /\ drawn' = drawn + 1 /\ jobs' = [jobs EXCEPT ![j] = p] /\ serial' = TRUE
        /\ UNCHANGED <<slots, codes, spent, render, lists, code, asked, gone>>
    BY <1>3 DEF License!Retry, License!FreeJob, License!Put
  <2>2. p \in JobKind /\ p.op = "render" /\ p.view = drawn + 1 /\ p.st = "sent" /\ ~p.own
    BY <1>1, JobNew DEF JobOps
  <2> HIDE DEF p
  <2>3. JobBelongs(p, codes, drawn')
    BY <1>1, <2>1, <2>2 DEF JobBelongs
  <2>4. drawn' <= MaxRenders
    BY <1>1, <2>1
  <2> QED BY <2>1, <2>2, <2>3, <2>4, JobAsked
<1>4. ASSUME NEW op \in {"regenerate", "deactivate"}, License!Confirm(j, op)
      PROVE  LicenseInv'
  <2> DEFINE p == License!Job(op, asked.view, asked.device)
  <2>1. /\ asked # License!NotAsked /\ ~License!Answering /\ jobs[j] = License!NoJob
        /\ jobs' = [jobs EXCEPT ![j] = p]
        /\ serial' = (serial /\ License!Still /\ asked.view = render)
        /\ UNCHANGED <<slots, codes, spent, render, drawn, lists, code, asked, gone>>
    BY <1>4 DEF License!Confirm, License!FreeJob, License!Put
  <2>2. asked.device \in Devices /\ asked.view \in 1..drawn
    BY <1>1, <2>1 DEF AskedFits
  <2>3. /\ p \in JobKind /\ p.op = op /\ p.view = asked.view /\ p.st = "sent"
        /\ p.device = asked.device
    BY <1>1, <2>2, JobNew DEF JobOps
  <2> HIDE DEF p
  <2>4. JobBelongs(p, codes, drawn')
    BY <2>1, <2>2, <2>3 DEF JobBelongs
  <2>5. serial' \in BOOLEAN
    BY <1>1, <2>1
  <2> QED BY <1>1, <2>1, <2>3, <2>4, <2>5, JobAsked
<1> QED BY <1>2, <1>3, <1>4

LEMMA PaintLicenseKeeps ==
  ASSUME LicenseInv, NEW j \in License!Jobs, License!Paint(j) \/ License!RenderFails(j)
  PROVE  LicenseInv'
<1> DEFINE q == jobs[j]
<1>1. /\ q \in JobKind /\ JobBelongs(q, codes, drawn) /\ lists \in ListKind /\ drawn \in Nat
      /\ drawn <= MaxRenders /\ q.own \in BOOLEAN /\ License!Nobody \in Nat
  BY LicenseTypes, LicenseBounds, JobKinds DEF LicenseInv, LicenseTyped
<1>2. /\ q.op = "render" /\ code' = 0 /\ lists' = [lists EXCEPT !.is = "none"]
      /\ UNCHANGED <<slots, codes, spent, drawn, asked, gone, serial>>
  BY DEF License!Paint, License!RenderFails
<1>3. q.view \in 1..drawn /\ q.view \in Nat
  BY <1>1, <1>2 DEF JobBelongs
<1>4. lists' \in ListKind /\ lists'.is = "none"
  BY <1>1, <1>2 DEF ListKind
<1>5. PICK p \in JobKind :
        /\ jobs' = [jobs EXCEPT ![j] = p] /\ ~p.own /\ p.st # "ok"
        /\ \/ p.op = "none" /\ render' = 0
           \/ p.op = "lists" /\ p.view = q.view /\ render' = q.view
  <2>1. CASE License!Paint(j)
    <3> DEFINE p == License!Job("lists", q.view, License!Nobody)
    <3>1. jobs' = [jobs EXCEPT ![j] = p] /\ render' = q.view
      BY <2>1 DEF License!Paint, License!Put
    <3>2. p \in JobKind /\ p.op = "lists" /\ p.view = q.view /\ p.st = "sent" /\ ~p.own
      BY <1>3, JobNew DEF JobOps
    <3> HIDE DEF p
    <3> QED BY <3>1, <3>2
  <2>2. CASE License!RenderFails(j)
    BY <2>2, NoJobIs DEF License!RenderFails, License!Put
  <2> QED BY <2>1, <2>2
<1>6. JobBelongs(p, codes, drawn') /\ render' \in 0..drawn' /\ code' \in 0..codes
  <2>1. codes \in Nat
    BY LicenseTypes DEF LicenseInv
  <2> QED BY <1>1, <1>2, <1>3, <1>5, <2>1 DEF JobBelongs
<1>7. ASSUME serial
      PROVE  /\ \A k \in License!Jobs \ {j} : jobs[k].op = "none"
             /\ p.op \notin {"none", "render"} => p.view = render'
             /\ JobFits(p, slots, spent, render', code', lists')
  <2>1. \A k \in License!Jobs \ {j} : jobs[k].op = "none"
    BY <1>2, <1>7, SerialAlone
  <2> QED BY <1>2, <1>4, <1>5, <2>1 DEF JobFits
<1>8. gone' \in BOOLEAN /\ serial' \in BOOLEAN
  BY <1>2, LicenseTypes DEF LicenseInv
<1> QED BY <1>1, <1>2, <1>4, <1>5, <1>6, <1>7, <1>8, JobSettles

LEMMA ListsArriveLicenseKeeps ==
  ASSUME LicenseInv, NEW j \in License!Jobs, License!ListsArrive(j)
  PROVE  LicenseInv'
<1> DEFINE q == jobs[j]
           p == License!NoJob
<1>1. /\ q \in JobKind /\ JobBelongs(q, codes, drawn) /\ lists \in ListKind /\ drawn \in Nat
      /\ drawn <= MaxRenders /\ codes \in Nat /\ (lists.is = "shown" => render # 0)
      /\ render \in 0..drawn /\ code \in 0..codes
  BY LicenseTypes DEF LicenseInv, LicenseTyped
<1>2. /\ q.op = "lists" /\ q.st = "ok" /\ jobs' = [jobs EXCEPT ![j] = p]
      /\ lists' = IF q.view = render THEN [is |-> "shown", of |-> q.got] ELSE lists
      /\ asked' = IF q.own THEN License!NotAsked ELSE asked
      /\ UNCHANGED <<slots, codes, spent, render, drawn, code, gone, serial>>
  BY DEF License!ListsArrive, License!Put
<1>3. p \in JobKind /\ p.op = "none" /\ p.own = FALSE /\ p.st = "none"
  BY NoJobIs
<1> HIDE DEF p
<1>4. q.got \in [Devices -> SlotKind] /\ q.view # 0
  BY <1>1, <1>2, JobKinds DEF JobListed, JobBelongs
<1>5. lists' \in ListKind /\ (lists'.is = "shown" => render # 0)
  BY <1>1, <1>2, <1>4 DEF ListKind
<1>6. ASSUME serial
      PROVE  /\ \A k \in License!Jobs \ {j} : jobs[k].op = "none"
             /\ ~gone => JobFits(p, slots, spent, render, code, lists')
  <2>1. \A k \in License!Jobs \ {j} : jobs[k].op = "none"
    BY <1>2, <1>6, SerialAlone
  <2>2. /\ q.view = render
        /\ ~gone => JobFits(q, slots, spent, render, code, lists)
    BY <1>2, <1>6, <2>1, SerialAt
  <2>3. lists'.of = q.got
    BY <1>2, <2>2
  <2> QED BY <1>2, <1>3, <2>1, <2>2, <2>3 DEF JobFits, Renews
<1>7. JobBelongs(p, codes, drawn') /\ gone' \in BOOLEAN /\ serial' \in BOOLEAN
  BY <1>2, <1>3, LicenseTypes DEF JobBelongs, LicenseInv
<1> QED BY <1>1, <1>2, <1>3, <1>5, <1>6, <1>7, JobSettles

LEMMA CodeArrivesKeeps ==
  ASSUME LicenseInv, NEW j \in License!Jobs, License!CodeArrives(j)
  PROVE  LicenseInv'
<1> DEFINE q == jobs[j]
           p == [License!Job("lists", q.view, License!Nobody) EXCEPT !.own = q.own]
<1>1. /\ q \in JobKind /\ JobBelongs(q, codes, drawn) /\ lists \in ListKind /\ drawn \in Nat
      /\ drawn <= MaxRenders /\ codes \in Nat /\ (lists.is = "shown" => render # 0)
      /\ render \in 0..drawn /\ code \in 0..codes /\ q.own \in BOOLEAN
  BY LicenseTypes, JobKinds DEF LicenseInv, LicenseTyped
<1>2. /\ q.op \in {"create", "regenerate"} /\ q.st = "ok" /\ jobs' = [jobs EXCEPT ![j] = p]
      /\ code' = IF q.view = render THEN q.got ELSE code
      /\ UNCHANGED <<slots, codes, spent, render, drawn, lists, asked, gone, serial>>
  BY DEF License!CodeArrives, License!Put
<1>3. q.view \in 1..drawn /\ q.view \in Nat /\ q.got \in 1..codes
  BY <1>1, <1>2 DEF JobBelongs
<1>4. p \in JobKind /\ p.op = "lists" /\ p.view = q.view /\ p.own = q.own /\ p.st = "sent"
  <2>1. p \in JobSent
    BY <1>1, <1>3 DEF License!Job, JobSent, JobOps
  <2>2. p.op = "lists" /\ p.view = q.view /\ p.own = q.own /\ p.st = "sent"
    BY DEF License!Job
  <2> HIDE DEF p
  <2> QED BY <2>1, <2>2 DEF JobKind
<1> HIDE DEF p
<1>5. code' \in 0..codes
  BY <1>1, <1>2, <1>3
<1>6. ASSUME serial
      PROVE  /\ \A k \in License!Jobs \ {j} : jobs[k].op = "none"
             /\ p.view = render
             /\ ~gone => JobFits(p, slots, spent, render, code', lists)
  <2>1. \A k \in License!Jobs \ {j} : jobs[k].op = "none"
    BY <1>2, <1>6, SerialAlone
  <2>2. /\ q.view = render
        /\ ~gone => JobFits(q, slots, spent, render, code, lists)
    BY <1>2, <1>6, <2>1, SerialAt
  <2>3. code' = q.got
    BY <1>2, <2>2
  <2> QED BY <1>2, <1>4, <2>1, <2>2, <2>3 DEF JobFits
<1>7. JobBelongs(p, codes, drawn') /\ gone' \in BOOLEAN /\ serial' \in BOOLEAN
  BY <1>2, <1>3, <1>4, LicenseTypes DEF JobBelongs, LicenseInv
<1> QED BY <1>1, <1>2, <1>4, <1>5, <1>6, <1>7, JobSettles

LEMMA RenderAnewKeeps ==
  ASSUME LicenseInv, NEW j \in License!Jobs, License!RenderAnew(j)
  PROVE  LicenseInv'
<1> DEFINE q == jobs[j]
           p == License!Job("render", drawn + 1, License!Nobody)
<1>1. /\ drawn \in Nat /\ codes \in Nat /\ lists \in ListKind /\ render \in 0..drawn
      /\ (lists.is = "shown" => render # 0) /\ code \in 0..codes /\ MaxRenders \in Nat
      /\ License!Nobody \in Nat
  BY LicenseTypes, LicenseBounds DEF LicenseInv, LicenseTyped
<1>2. /\ q.op \in {"deactivate", "seat"} /\ jobs' = [jobs EXCEPT ![j] = p]
      /\ drawn < MaxRenders /\ drawn' = drawn + 1 /\ serial' = ~License!Others(j)
      /\ asked' = IF q.own THEN License!NotAsked ELSE asked
      /\ UNCHANGED <<slots, codes, spent, render, lists, code, gone>>
  BY DEF License!RenderAnew, License!Put
<1>3. p \in JobKind /\ p.op = "render" /\ p.view = drawn + 1 /\ p.st = "sent" /\ ~p.own
  BY <1>1, JobNew DEF JobOps
<1> HIDE DEF p
<1>4. JobBelongs(p, codes, drawn') /\ drawn' <= MaxRenders /\ render' \in 0..drawn'
  BY <1>1, <1>2, <1>3 DEF JobBelongs
<1>5. serial' => \A k \in License!Jobs \ {j} : jobs[k].op = "none"
  BY <1>2, LicenseOthers DEF LicenseInv
<1>6. JobFits(p, slots, spent, render', code', lists')
  BY <1>3 DEF JobFits
<1>7. gone' \in BOOLEAN /\ serial' \in BOOLEAN
  BY <1>2, LicenseTypes DEF LicenseInv, License!Others
<1> QED BY <1>1, <1>2, <1>3, <1>4, <1>5, <1>6, <1>7, JobSettles

LEMMA FailsLicenseKeeps ==
  ASSUME LicenseInv, NEW j \in License!Jobs, License!Fails(j)
  PROVE  LicenseInv'
<1> DEFINE q == jobs[j]
           p == License!NoJob
<1>1. /\ q \in JobKind /\ drawn \in Nat /\ drawn <= MaxRenders /\ codes \in Nat
      /\ lists \in ListKind /\ (lists.is = "shown" => render # 0)
      /\ render \in 0..drawn /\ code \in 0..codes /\ gone \in BOOLEAN
  BY LicenseTypes DEF LicenseInv, LicenseTyped
<1>2. /\ q.op # "none" /\ q.op # "render" /\ jobs' = [jobs EXCEPT ![j] = p]
      /\ gone' = (gone \/ q.st = "ok" \/ q.op = "lists")
      /\ UNCHANGED <<slots, codes, spent, render, drawn, lists, code, asked, serial>>
  BY <1>1, JobKinds DEF License!Fails, License!Put
<1>3. p \in JobKind /\ p.op = "none" /\ p.own = FALSE /\ p.st = "none"
  BY NoJobIs
<1> HIDE DEF p
<1>4. gone' \in BOOLEAN /\ (~gone' => ~gone /\ q.st # "ok" /\ q.op # "lists")
  BY <1>1, <1>2
<1>5. ASSUME serial
      PROVE  /\ \A k \in License!Jobs \ {j} : jobs[k].op = "none"
             /\ ~gone' => JobFits(p, slots, spent, render, code, lists)
  <2>1. \A k \in License!Jobs \ {j} : jobs[k].op = "none"
    BY <1>2, <1>5, SerialAlone
  <2>2. ~gone => JobFits(q, slots, spent, render, code, lists)
    BY <1>5, <2>1, SerialAt
  <2> QED BY <1>2, <1>3, <1>4, <2>1, <2>2 DEF JobFits, Renews
<1>6. JobBelongs(p, codes, drawn') /\ serial' \in BOOLEAN
  BY <1>2, <1>3, LicenseTypes DEF JobBelongs, LicenseInv
<1> QED BY <1>1, <1>2, <1>3, <1>4, <1>5, <1>6, JobSettles

LEMMA AskKeeps ==
  ASSUME LicenseInv, NEW d \in Devices, License!Ask(d)
  PROVE  LicenseInv'
<1>1. /\ asked = License!NotAsked /\ lists.is = "shown"
      /\ asked' = [device |-> d, view |-> render]
      /\ UNCHANGED <<slots, codes, spent, jobs, render, drawn, lists, code, gone, serial>>
  BY DEF License!Ask
<1>2. render \in 1..drawn
  BY <1>1, LicenseTypes DEF LicenseInv
<1>3. AskedFits(asked', drawn)
  BY <1>1, <1>2 DEF AskedFits
<1>4. \A j \in License!Jobs : ~jobs[j].own
  BY <1>1 DEF LicenseInv, LicenseTyped, OneDialog
<1>5. OneDialog'
  BY <1>1, <1>4 DEF OneDialog
<1>6. LicenseTyped'
  BY <1>1, <1>3, <1>5 DEF LicenseInv, LicenseTyped
<1>7. SerialInv'
  BY <1>1 DEF LicenseInv, SerialInv
<1> QED BY <1>6, <1>7 DEF LicenseInv

LEMMA JobIsLeft ==
  ASSUME NEW q \in JobKind, NEW p, p = [q EXCEPT !.own = FALSE]
  PROVE  /\ p \in JobKind /\ p.op = q.op /\ p.st = q.st /\ p.own = FALSE
         /\ q.op # "none" => p.view = q.view
         /\ q.st = "sent" => p.device = q.device
         /\ q.st = "ok" => p.got = q.got
<1>1. \/ q = License!NoJob \/ q \in JobSent \/ q \in JobListed \/ q \in JobCoded
      \/ q \in JobDone
  BY DEF JobKind
<1>2. CASE q = License!NoJob
  <2>1. p = License!NoJob
    BY <1>2 DEF License!NoJob
  <2> QED BY <1>2, <2>1, NoJobIs
<1>3. CASE q \in JobSent
  <2>1. /\ p \in JobSent /\ p.op = q.op /\ p.st = q.st /\ p.own = FALSE /\ p.view = q.view
        /\ p.device = q.device /\ q.st = "sent"
    BY <1>3 DEF JobSent
  <2> QED BY <2>1 DEF JobKind
<1>4. CASE q \in JobListed
  <2>1. /\ p \in JobListed /\ p.op = q.op /\ p.st = q.st /\ p.own = FALSE /\ p.view = q.view
        /\ p.got = q.got /\ q.st = "ok"
    BY <1>4 DEF JobListed
  <2> QED BY <2>1 DEF JobKind
<1>5. CASE q \in JobCoded
  <2>1. /\ p \in JobCoded /\ p.op = q.op /\ p.st = q.st /\ p.own = FALSE /\ p.view = q.view
        /\ p.got = q.got /\ q.st = "ok"
    BY <1>5 DEF JobCoded
  <2> QED BY <2>1 DEF JobKind
<1>6. CASE q \in JobDone
  <2>1. /\ p \in JobDone /\ p.op = q.op /\ p.st = q.st /\ p.own = FALSE /\ p.view = q.view
        /\ p.got = q.got /\ q.st = "ok"
    BY <1>6 DEF JobDone
  <2> QED BY <2>1 DEF JobKind
<1> QED BY <1>1, <1>2, <1>3, <1>4, <1>5, <1>6

LEMMA CloseDialogKeeps ==
  ASSUME LicenseInv, License!CloseDialog
  PROVE  LicenseInv'
<1>1. /\ asked' = License!NotAsked
      /\ jobs' = [j \in License!Jobs |-> [jobs[j] EXCEPT !.own = FALSE]]
      /\ UNCHANGED <<slots, codes, spent, render, drawn, lists, code, gone, serial>>
  BY DEF License!CloseDialog
<1>2. jobs \in [License!Jobs -> JobKind]
  BY LicenseTypes DEF LicenseInv
<1>3. \A j \in License!Jobs :
        /\ jobs'[j] \in JobKind /\ jobs'[j].op = jobs[j].op /\ jobs'[j].st = jobs[j].st
        /\ jobs'[j].own = FALSE
        /\ jobs[j].op # "none" => jobs'[j].view = jobs[j].view
        /\ jobs[j].st = "sent" => jobs'[j].device = jobs[j].device
        /\ jobs[j].st = "ok" => jobs'[j].got = jobs[j].got
  <2> SUFFICES ASSUME NEW j \in License!Jobs
               PROVE  /\ jobs'[j] \in JobKind /\ jobs'[j].op = jobs[j].op
                      /\ jobs'[j].st = jobs[j].st /\ jobs'[j].own = FALSE
                      /\ jobs[j].op # "none" => jobs'[j].view = jobs[j].view
                      /\ jobs[j].st = "sent" => jobs'[j].device = jobs[j].device
                      /\ jobs[j].st = "ok" => jobs'[j].got = jobs[j].got
    OBVIOUS
  <2>1. jobs[j] \in JobKind /\ jobs'[j] = [jobs[j] EXCEPT !.own = FALSE]
    BY <1>1, <1>2
  <2> QED BY <2>1, JobIsLeft
<1>4. jobs' \in [License!Jobs -> JobKind]
  BY <1>1, <1>3
<1>5. \A j \in License!Jobs : JobBelongs(jobs'[j], codes, drawn)
  BY <1>3 DEF LicenseInv, LicenseTyped, JobBelongs
<1>6. OneDialog' /\ AskedFits(asked', drawn)
  BY <1>1, <1>3 DEF OneDialog, AskedFits
<1>7. LicenseTyped'
  BY <1>1, <1>4, <1>5, <1>6 DEF LicenseInv, LicenseTyped
<1>8. SerialInv'
  <2> SUFFICES ASSUME serial PROVE SerialInv'
    BY <1>1 DEF SerialInv
  <2>1. PICK w \in License!Jobs :
          /\ \A k \in License!Jobs \ {w} : jobs[k].op = "none"
          /\ jobs[w].op \notin {"none", "render"} => jobs[w].view = render
          /\ ~gone => JobFits(jobs[w], slots, spent, render, code, lists)
    BY DEF LicenseInv, SerialInv
  <2>2. JobFits(jobs[w], slots, spent, render, code, lists) =>
          JobFits(jobs'[w], slots, spent, render, code, lists)
    BY <1>3 DEF JobFits, Renews
  <2>3. /\ \A k \in License!Jobs \ {w} : jobs'[k].op = "none"
        /\ jobs'[w].op \notin {"none", "render"} => jobs'[w].view = render
        /\ ~gone => JobFits(jobs'[w], slots, spent, render, code, lists)
    BY <1>3, <2>1, <2>2
  <2> QED BY <1>1, <2>3 DEF SerialInv
<1> QED BY <1>7, <1>8 DEF LicenseInv

LEMMA SpendKeeps ==
  ASSUME LicenseInv, NEW d \in Devices, NEW is \in {"paired", "expired"}, License!Spend(d, is)
  PROVE  LicenseInv'
<1> DEFINE x == [is |-> is, code |-> 0]
<1>1. /\ slots[d].is = "pending" /\ slots' = [slots EXCEPT ![d] = x]
      /\ spent' = spent \cup {slots[d].code}
      /\ UNCHANGED <<codes, jobs, render, drawn, lists, code, asked, gone, serial>>
  BY DEF License!Spend
<1>2. SlotsFit(slots, codes) /\ codes \in Nat /\ slots \in [Devices -> SlotKind]
  BY LicenseTypes DEF LicenseInv, LicenseTyped
<1>3. x \in SlotKind /\ x.is \in {"paired", "expired"} /\ x.code = 0
  BY DEF SlotKind
<1> HIDE DEF x
<1>4. SlotsFit(slots', codes) /\ slots'[d] = x /\ \A e \in Devices \ {d} : slots'[e] = slots[e]
  BY <1>1, <1>2, <1>3, SlotLosesCode
<1>5. spent' \subseteq 1..codes
  BY <1>1, <1>2, LicenseTypes DEF SlotsFit, LicenseInv
<1>6. LicenseTyped'
  BY <1>1, <1>4, <1>5 DEF LicenseInv, LicenseTyped, OneDialog
<1>7. \A c : Works(c, slots, spent) => Works(c, slots', spent')
  <2> SUFFICES ASSUME NEW c, Works(c, slots, spent)
               PROVE  Works(c, slots', spent')
    OBVIOUS
  <2>1. CASE c \in spent
    BY <1>1, <2>1 DEF Works
  <2>2. ASSUME NEW e \in Devices, slots[e].code = c
        PROVE  Works(c, slots', spent')
    BY <1>1, <1>4, <2>2 DEF Works
  <2> QED BY <2>1, <2>2 DEF Works
<1>8. \A of : ListFits(of, slots) => ListFits(of, slots')
  <2> SUFFICES ASSUME NEW of, ListFits(of, slots), NEW e \in Devices
               PROVE  SlotFits(of[e], slots'[e])
    BY DEF ListFits
  <2>1. SlotFits(of[e], slots[e])
    BY DEF ListFits
  <2> QED BY <1>1, <1>3, <1>4, <2>1 DEF SlotFits
<1>9. SerialInv'
  <2> SUFFICES ASSUME serial PROVE SerialInv'
    BY <1>1 DEF SerialInv
  <2>1. PICK w \in License!Jobs :
          /\ \A k \in License!Jobs \ {w} : jobs[k].op = "none"
          /\ jobs[w].op \notin {"none", "render"} => jobs[w].view = render
          /\ ~gone => JobFits(jobs[w], slots, spent, render, code, lists)
    BY DEF LicenseInv, SerialInv
  <2>2. JobFits(jobs[w], slots, spent, render, code, lists) =>
          JobFits(jobs[w], slots', spent', render, code, lists)
    BY <1>7, <1>8 DEF JobFits
  <2> QED BY <1>1, <2>1, <2>2 DEF SerialInv
<1> QED BY <1>6, <1>9 DEF LicenseInv

LEMMA LicenseStep == LicenseInv /\ [License!LicenseNext]_licenseVars => LicenseInv'
<1> SUFFICES ASSUME LicenseInv, [License!LicenseNext]_licenseVars
             PROVE  LicenseInv'
  OBVIOUS
<1>1. ASSUME NEW j \in License!Jobs, License!Backend(j) \/ License!Settle(j)
      PROVE  LicenseInv'
  BY <1>1, BackendKeeps, PaintLicenseKeeps, ListsArriveLicenseKeeps, CodeArrivesKeeps,
     RenderAnewKeeps, FailsLicenseKeeps DEF License!Settle
<1>2. CASE License!Admin
  BY <1>2, CloseDialogKeeps, AskKeeps, AdminAsksKeeps DEF License!Admin
<1>3. ASSUME NEW d \in Devices, License!Pair(d) \/ License!Expire(d)
      PROVE  LicenseInv'
  BY <1>3, SpendKeeps DEF License!Pair, License!Expire
<1>4. CASE UNCHANGED licenseVars
  <2>1. UNCHANGED <<slots, codes, spent, jobs, render, drawn, lists, code, asked, gone, serial>>
    BY <1>4 DEF licenseVars
  <2> QED BY <2>1 DEF LicenseInv, LicenseTyped, OneDialog, SerialInv
<1> QED BY <1>1, <1>2, <1>3, <1>4 DEF License!LicenseNext

LEMMA LicenseStart == License!LicenseInit => LicenseInv
<1> SUFFICES ASSUME License!LicenseInit
             PROVE  LicenseInv
  OBVIOUS
<1> DEFINE p == License!Job("render", 1, License!Nobody)
<1>1. /\ slots = [d \in Devices |-> License!NoDevice] /\ codes = 0 /\ spent = {}
      /\ jobs = [j \in License!Jobs |-> IF j = 1 THEN p ELSE License!NoJob]
      /\ render = 0 /\ drawn = 1 /\ code = 0 /\ asked = License!NotAsked
      /\ lists = [is |-> "none", of |-> slots] /\ gone = FALSE /\ serial = TRUE
  BY DEF License!LicenseInit
<1>2. p \in JobKind /\ p.op = "render" /\ p.view = 1 /\ p.st = "sent" /\ ~p.own
  BY LicenseBounds, JobNew DEF JobOps
<1> HIDE DEF p
<1>3. /\ jobs \in [License!Jobs -> JobKind] /\ 1 \in License!Jobs /\ jobs[1] = p
      /\ \A k \in License!Jobs \ {1} : jobs[k] = License!NoJob
  BY <1>1, <1>2, NoJobIs, LicenseBounds
<1>4. slots \in [Devices -> SlotKind] /\ \A d \in Devices : slots[d].is = "none" /\ slots[d].code = 0
  BY <1>1 DEF License!NoDevice, SlotKind
<1>5. SlotsFit(slots, codes)
  BY <1>4 DEF SlotsFit
<1>6. lists \in ListKind /\ lists.is = "none"
  BY <1>1, <1>4 DEF ListKind
<1>7. \A j \in License!Jobs : ~jobs[j].own /\ JobBelongs(jobs[j], codes, drawn)
  BY <1>1, <1>2, <1>3, NoJobIs DEF JobBelongs
<1>8. /\ codes \in 0..MaxCodes /\ spent \subseteq 1..codes /\ render \in 0..drawn
      /\ drawn \in 1..MaxRenders /\ code \in 0..codes
  BY <1>1, LicenseBounds
<1>9. LicenseTyped
  BY <1>1, <1>3, <1>5, <1>6, <1>7, <1>8 DEF LicenseTyped, OneDialog, AskedFits
<1>10. SerialInv
  <2>1. JobFits(jobs[1], slots, spent, render, code, lists)
    BY <1>2, <1>3 DEF JobFits
  <2>2. \A k \in License!Jobs \ {1} : jobs[k].op = "none"
    BY <1>3, NoJobIs
  <2> QED BY <1>2, <1>3, <2>1, <2>2 DEF SerialInv
<1> QED BY <1>9, <1>10 DEF LicenseInv

LEMMA LicenseAnswered ==
  LicenseInv => License!TypeOK /\ License!ShownCodeWorks /\ License!ListsAreCurrent
<1> SUFFICES ASSUME LicenseInv
             PROVE  License!TypeOK /\ License!ShownCodeWorks /\ License!ListsAreCurrent
  OBVIOUS
<1>1. License!TypeOK
  <2>1. /\ \A d \in Devices : slots[d].is \in {"none", "pending", "paired", "expired", "inactive"}
        /\ \A d \in Devices : (slots[d].is = "pending") <=> slots[d].code \in 1..codes
        /\ \A d, e \in Devices : slots[d].code = slots[e].code /\ slots[d].code # 0 => d = e
    BY LicenseTypes DEF LicenseInv, LicenseTyped, SlotsFit, SlotKind
  <2>2. \A j \in License!Jobs : jobs[j].op \in {"none", "render", "lists", "create",
                                                "regenerate", "deactivate", "seat"}
    BY LicenseTypes, JobKinds DEF LicenseInv, JobOps
  <2> QED BY <2>1, <2>2 DEF License!TypeOK, LicenseInv, LicenseTyped, OneDialog, AskedFits
<1>2. ASSUME License!Answered
      PROVE  JobFits(License!NoJob, slots, spent, render, code, lists)
  <2>1. serial /\ ~gone /\ 1 \in License!Jobs /\ \A k \in License!Jobs : jobs[k] = License!NoJob
    BY <1>2, LicenseBounds DEF License!Answered, License!Still
  <2>2. \A k \in License!Jobs \ {1} : jobs[k].op = "none"
    BY <2>1, NoJobIs
  <2> QED BY <2>1, <2>2, SerialAt
<1>3. License!ShownCodeWorks
  BY <1>2, NoJobIs DEF License!ShownCodeWorks, JobFits, Renews, Works
<1>4. License!ListsAreCurrent
  BY <1>2, NoJobIs DEF License!ListsAreCurrent, JobFits, Renews, ListFits, SlotFits
<1> QED BY <1>1, <1>3, <1>4

--------------------------------------------------------------------------------
\* All pages.
PagesKept == MovesInv /\ ListInv /\ DetailInv /\ DashInv /\ SettingsInv /\ LicenseInv

LEMMA MovesStill == MovesInv /\ UNCHANGED movementsVars => MovesInv'
BY DEF movementsVars, MovesInv, MovesTyped, AsksForTheForm, Movements!TypeOK, Movements!HasShell,
       Movements!KindAndDatesAreTold, Movements!Settled

LEMMA ListStill == ListInv /\ UNCHANGED listVars => ListInv'
<1> SUFFICES ASSUME ListInv, UNCHANGED listVars PROVE ListInv'
  OBVIOUS
<1>1. UNCHANGED <<kind, stored, writes, lost, views, view, loads, sent, list, pageBusy,
                  selected, labels>>
  BY DEF listVars
<1>2. ListTyped' /\ AsksForTheText' /\ List!TextIsApplied' /\ List!LabelsAreTicked'
  BY <1>1 DEF ListInv, ListTyped, List!TypeOK, AsksForTheText, List!TextIsApplied,
              List!LabelsAreTicked, List!Settled, List!Ids
<1>3. ServedIsCurrent'
  BY <1>1 DEF ListInv, ServedIsCurrent, List!Settled, List!Found
<1> QED BY <1>2, <1>3 DEF ListInv

LEMMA PagesStart == PagesInit => PagesKept
BY MovesInit, ListStart, DetailStart, DashStart, SettingsStart, LicenseStart
   DEF PagesInit, PagesKept

\* Every page steps as itself, or not at all.
LEMMA PagesMove ==
  ASSUME [PagesNext]_pagesVars
  PROVE  /\ [Movements!Next]_movementsVars /\ [List!ListNext]_listVars
         /\ [Detail!DetailNext]_detailVars /\ [Dash!DashNext]_dashVars
         /\ [Settings!SettingsNext]_settingsVars /\ [License!LicenseNext]_licenseVars
BY DEF PagesNext, pagesVars

LEMMA PagesStep == PagesKept /\ [PagesNext]_pagesVars => PagesKept'
<1> SUFFICES ASSUME PagesKept, [PagesNext]_pagesVars PROVE PagesKept'
  OBVIOUS
<1>1. /\ [Movements!Next]_movementsVars /\ [List!ListNext]_listVars
      /\ [Detail!DetailNext]_detailVars /\ [Dash!DashNext]_dashVars
      /\ [Settings!SettingsNext]_settingsVars /\ [License!LicenseNext]_licenseVars
  BY PagesMove
<1>2. MovesInv'
  BY <1>1, MovesStep, MovesStill DEF PagesKept
<1>3. ListInv'
  BY <1>1, ListStep, ListStill DEF PagesKept
<1>4. DetailInv' /\ DashInv'
  BY <1>1, DetailStep, DashStep DEF PagesKept
<1>5. SettingsInv' /\ LicenseInv'
  BY <1>1, SettingsStep, LicenseStep DEF PagesKept
<1> QED BY <1>2, <1>3, <1>4, <1>5 DEF PagesKept

LEMMA ScenesStay == PagesSpec => [](scene \in Scenes)
<1>1. PagesInit => scene \in Scenes
  BY DEF PagesInit
<1>2. scene \in Scenes /\ [PagesNext]_pagesVars => (scene \in Scenes)'
  BY DEF PagesNext, pagesVars
<1> QED BY <1>1, <1>2, PTL DEF PagesSpec

LEMMA PagesAreKept == PagesSpec => []PagesKept
BY PagesStart, PagesStep, PTL DEF PagesSpec

\* In every reachable state each page is typed, and what it shows once all is answered is
\* what the server holds: see QuietIsTrue.
THEOREM PagesAreTrue == PagesSpec => []PagesInv
<1>1. PagesKept /\ scene \in Scenes => PagesInv
  <2> SUFFICES ASSUME PagesKept, scene \in Scenes PROVE PagesInv
    OBVIOUS
  <2>1. Movements!TypeOK /\ List!TypeOK
    BY DEF PagesKept, MovesInv, MovesTyped, ListInv, ListTyped
  <2>2. List!OwnChangesListed
    BY DEF PagesKept, ListInv, ServedIsCurrent, List!OwnChangesListed
  <2>3. Detail!TypeOK /\ Detail!QuietPageIsTrue
    BY DetailAnswered DEF PagesKept
  <2>4. Dash!TypeOK /\ Dash!OpenSheetsShown /\ Dash!MarkersAreTrue
    BY DashAnswered DEF PagesKept
  <2>5. /\ Settings!TypeOK /\ Settings!SavedIsStored /\ Settings!SavedIsUnmarked
        /\ Settings!FlagsAreStored /\ Settings!ListsAreTrue
    BY SettingsAnswered DEF PagesKept
  <2>6. License!TypeOK /\ License!ShownCodeWorks /\ License!ListsAreCurrent
    BY LicenseAnswered DEF PagesKept
  <2> QED BY <2>1, <2>2, <2>3, <2>4, <2>5, <2>6 DEF PagesInv, PagesTypeOK, QuietIsTrue
<1> QED BY <1>1, PagesAreKept, ScenesStay, PTL

\* Results and lists take up the answer to the newest request and no other, as LatestAnswer
\* promises; they are of what the form and the box say, and labels of what is ticked.
THEOREM PagesShowTheNewest == PagesSpec => NewestIsShown
<1>1. PagesInit => Movements!LatestSpec!Init
  <2> SUFFICES ASSUME Movements!Init PROVE Movements!LatestSpec!Init
    BY DEF PagesInit
  <2>1. seq = 1 /\ results.seq = 0
    BY DEF Movements!Init, Movements!NoResults
  <2> QED BY <2>1 DEF Movements!LatestSpec!Init
<1>2. PagesInit => List!LatestList!Init
  <2> SUFFICES ASSUME List!ListInit PROVE List!LatestList!Init
    BY DEF PagesInit
  <2>1. views[view].newest \in Nat
    <3>1. ListInv
      BY ListStart
    <3>2. views[view] \in ListView
      BY <3>1, ListBounds DEF ListInv, ListTyped
    <3> QED BY <3>2 DEF ListView
  <2>2. list.no = 0
    BY DEF List!ListInit
  <2> QED BY <2>1, <2>2 DEF List!LatestList!Init
<1>3. PagesKept /\ [PagesNext]_pagesVars => [Movements!LatestSpec!Next]_<<seq, results.seq>>
  <2> SUFFICES ASSUME PagesKept, [PagesNext]_pagesVars
               PROVE  [Movements!LatestSpec!Next]_<<seq, results.seq>>
    OBVIOUS
  <2>1. [Movements!Next]_movementsVars
    BY PagesMove
  <2>2. UNCHANGED movementsVars => UNCHANGED <<seq, results.seq>>
    BY DEF movementsVars
  <2> QED BY <2>1, <2>2, MovesImplements DEF PagesKept
<1>4. PagesKept /\ [PagesNext]_pagesVars =>
        [List!LatestList!Next]_<<views[view].newest, list.no>>
  <2> SUFFICES ASSUME PagesKept, [PagesNext]_pagesVars
               PROVE  [List!LatestList!Next]_<<views[view].newest, list.no>>
    OBVIOUS
  <2>1. [List!ListNext]_listVars
    BY PagesMove
  <2>2. UNCHANGED listVars => UNCHANGED <<views[view].newest, list.no>>
    BY DEF listVars
  <2> QED BY <2>1, <2>2, ListImplements DEF PagesKept
<1>5. PagesKept => Movements!KindAndDatesAreTold /\ List!TextIsApplied /\ List!LabelsAreTicked
  BY DEF PagesKept, MovesInv, ListInv
<1>6. PagesSpec => Movements!NewestIsShown
  BY <1>1, <1>3, PagesAreKept, PTL DEF PagesSpec, Movements!NewestIsShown, Movements!LatestSpec!Spec
<1>7. PagesSpec => List!NewestList
  BY <1>2, <1>4, PagesAreKept, PTL DEF PagesSpec, List!NewestList, List!LatestList!Spec
<1>8. PagesSpec =>
        [](Movements!KindAndDatesAreTold /\ List!TextIsApplied /\ List!LabelsAreTicked)
  BY <1>5, PagesAreKept, PTL
<1> QED BY <1>6, <1>7, <1>8 DEF NewestIsShown

\* A save of the edit dialog changes nothing the user left as the page shows it, while he
\* works alone; the strict mode of a list of grants changes only with a put that was not sure
\* of it, unless requests overlapped.
THEOREM PagesKeepUntouched == PagesSpec => UntouchedIsKept
<1>1. PagesKept /\ [PagesNext]_pagesVars =>
        [\A s \in Detail!Slots :
           clean /\ panel = "entity" /\ Detail!Saved(s) /\ calls[s].put.name = shown.name
             => entity' = entity]_Detail!detailVars
  BY PagesMove, DetailStepKeepsFields DEF PagesKept
<1>2. PagesKept /\ [PagesNext]_pagesVars =>
        [apart /\ config'.strict # config.strict =>
           \E s \in Settings!Slots : posts[s].op = "put" /\ posts[s].st = "sent"
                                     /\ ~posts[s].sure]_Settings!settingsVars
  <2> SUFFICES ASSUME PagesKept, [PagesNext]_pagesVars, apart, config'.strict # config.strict
               PROVE  \E s \in Settings!Slots : posts[s].op = "put" /\ posts[s].st = "sent"
                                                /\ ~posts[s].sure
    OBVIOUS
  <2>1. [Settings!SettingsNext]_settingsVars
    BY PagesMove
  <2>2. Settings!SettingsNext
    BY <2>1 DEF settingsVars
  <2> QED BY <2>2, StrictIsCarried DEF PagesKept
<1>3. PagesSpec => Detail!ShownFieldsAreKept
  BY <1>1, PagesAreKept, PTL DEF PagesSpec, Detail!ShownFieldsAreKept
<1>4. PagesSpec => Settings!StrictIsChosen
  BY <1>2, PagesAreKept, PTL DEF PagesSpec, Settings!StrictIsChosen
<1> QED BY <1>3, <1>4 DEF UntouchedIsKept

================================================================================
