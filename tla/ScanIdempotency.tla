---------------------------- MODULE ScanIdempotency ----------------------------
(***************************************************************************)
(* MobileController::scan over ScanIdempotencyService: the requests that   *)
(* carry one (actor, clientRequestId) key.  Keys share no row, so the      *)
(* model has one.                                                          *)
(*                                                                         *)
(* The claim row is written in statements of its own, outside the ledger   *)
(* transaction, so each read, insert, update and delete of it is a step    *)
(* and so is the ledger's commit.  A worker may die between any two steps  *)
(* and an answer may be lost; the companion then sends the request again.  *)
(* A response is named after the payload it answers.                       *)
(***************************************************************************)
EXTENDS Integers, FiniteSets

CONSTANTS
  Attempts,    \* companion requests that carry the key
  Payloads,    \* what they ask to book
  None,        \* no payload, no response
  Stale,       \* PENDING_STALE_SECONDS
  MaxAge,      \* bound: the oldest a pending claim is seen
  MaxLosses,   \* bound: workers that die and answers that are lost
  BookCap      \* bound: bookings are counted up to it

Verdicts == {"none", "mismatch", "refused"}   \* answers that carry no booking

ASSUME NoneAssumption == Payloads \cap ({None} \cup Verdicts) = {}
ASSUME BoundAssumption ==
  /\ Stale \in Nat /\ MaxAge \in Nat /\ MaxLosses \in Nat
  /\ BookCap \in Nat /\ BookCap > 1

VARIABLES
  pc,        \* where each request is
  payload,   \* what it asks to book
  answer,    \* what it was last answered
  claim,     \* the row of the key in iv_scan_idem
  booked,    \* the payloads the ledger holds a booking of
  bookings,  \* how many bookings it holds
  losses,
  takenOver  \* history: whether a takeover has deleted a pending claim

vars == <<pc, payload, answer, claim, booked, bookings, losses, takenOver>>

Waiting == {"waiting", "settled"}
Working == {"send", "age", "drop", "claim", "again", "age2", "drop2", "claim2",
            "book", "release", "complete"}
Answers == Payloads \cup Verdicts

ClaimRow == [status: {"missing", "pending", "done"}, hash: Payloads \cup {None},
             age: 0..MaxAge, response: Payloads \cup {None}]

\* Rows and variables hold what their columns allow.
TypeOK ==
  /\ pc \in [Attempts -> Waiting \cup Working]
  /\ payload \in [Attempts -> Payloads]
  /\ answer \in [Attempts -> Answers]
  /\ claim \in ClaimRow
  /\ booked \subseteq Payloads
  /\ bookings \in 0..BookCap
  /\ losses \in 0..MaxLosses
  /\ takenOver \in BOOLEAN

Missing == [status |-> "missing", hash |-> None, age |-> 0, response |-> None]

Init ==
  /\ pc = [a \in Attempts |-> "waiting"]
  /\ payload \in [Attempts -> Payloads]
  /\ answer = [a \in Attempts |-> "none"]
  /\ claim = Missing
  /\ booked = {}
  /\ bookings = 0
  /\ losses = 0
  /\ takenOver = FALSE

Goto(a, label) == pc' = [pc EXCEPT ![a] = label]
Settle(a, what) == Goto(a, "settled") /\ answer' = [answer EXCEPT ![a] = what]
InFlight(a) == Goto(a, "waiting") /\ UNCHANGED answer

--------------------------------------------------------------------------------
\* The companion sends a request, and sends it again while it has no answer.
Send(a) ==
  /\ pc[a] = "waiting"
  /\ Goto(a, "send")
  /\ UNCHANGED <<payload, answer, claim, booked, bookings, losses, takenOver>>

\* Broken variant: a stored response is replayed for any payload.
ReplayAny(a) == Settle(a, claim.response)
\* A completed claim answers a request with the same fingerprint, no other.
Replay(a) == Settle(a, IF claim.hash = payload[a] THEN claim.response ELSE "mismatch")

\* Broken variant: a row that is there is replayed, whatever its status.
LookupAnyRow(a) ==
  /\ pc[a] = "send"
  /\ IF claim.status = "missing" THEN Goto(a, "claim") /\ UNCHANGED answer
                                ELSE Settle(a, claim.response)
  /\ UNCHANGED <<payload, claim, booked, bookings, losses, takenOver>>

Lookup(a) ==
  /\ pc[a] = "send"
  /\ CASE claim.status = "done"    -> Replay(a)
       [] claim.status = "pending" -> Goto(a, "age") /\ UNCHANGED answer
       [] claim.status = "missing" -> Goto(a, "claim") /\ UNCHANGED answer
  /\ UNCHANGED <<payload, claim, booked, bookings, losses, takenOver>>

\* Broken variant: a claim never is stale.
StaleNever == FALSE
IsStale == claim.status = "pending" /\ claim.age >= Stale

\* releaseStalePending: the claim is read again and its age taken, then deleted.
Age(a, here, next) ==
  /\ pc[a] = here
  /\ IF IsStale THEN Goto(a, next) /\ UNCHANGED answer ELSE InFlight(a)
  /\ UNCHANGED <<payload, claim, booked, bookings, losses, takenOver>>

\* Broken variant: the DELETE does not ask for status pending.
DeleteAny == claim' = Missing
\* The DELETE finds its row by key and status.
DeletePending == claim' = IF claim.status = "pending" THEN Missing ELSE claim

Drop(a, here, next) ==
  /\ pc[a] = here
  /\ DeletePending
  /\ takenOver' = (takenOver \/ claim.status = "pending")
  /\ Goto(a, next)
  /\ UNCHANGED <<payload, answer, booked, bookings, losses>>

\* Broken variant: the insert overwrites a row that is there.
InsertOver(a) ==
  /\ claim' = [status |-> "pending", hash |-> payload[a], age |-> 0, response |-> None]
  /\ Goto(a, "book")
  /\ UNCHANGED answer

\* tryClaim: the unique key lets one of two inserts through.
Insert(a) ==
  /\ claim.status = "missing"
  /\ claim' = [status |-> "pending", hash |-> payload[a], age |-> 0, response |-> None]
  /\ Goto(a, "book")
  /\ UNCHANGED answer

Claim(a) ==
  /\ pc[a] = "claim"
  /\ \/ Insert(a)
     \/ claim.status # "missing" /\ Goto(a, "again") /\ UNCHANGED <<answer, claim>>
  /\ UNCHANGED <<payload, booked, bookings, losses, takenOver>>

Again(a) ==
  /\ pc[a] = "again"
  /\ CASE claim.status = "done"    -> Replay(a)
       [] claim.status = "pending" -> Goto(a, "age2") /\ UNCHANGED answer
       [] claim.status = "missing" -> InFlight(a)
  /\ UNCHANGED <<payload, claim, booked, bookings, losses, takenOver>>

ClaimAgain(a) ==
  /\ pc[a] = "claim2"
  /\ \/ Insert(a)
     \/ claim.status # "missing" /\ InFlight(a) /\ UNCHANGED claim
  /\ UNCHANGED <<payload, booked, bookings, losses, takenOver>>

--------------------------------------------------------------------------------
\* The ledger commits the booking, or refuses it and nothing is booked.
Book(a) ==
  /\ pc[a] = "book"
  /\ booked' = booked \cup {payload[a]}
  /\ bookings' = IF bookings < BookCap THEN bookings + 1 ELSE BookCap
  /\ Goto(a, "complete")
  /\ UNCHANGED <<payload, answer, claim, losses, takenOver>>

Refuse(a) ==
  /\ pc[a] = "book"
  /\ Goto(a, "release")
  /\ UNCHANGED <<payload, answer, claim, booked, bookings, losses, takenOver>>

\* Broken variant: the claim of a refused booking is completed.
ReleaseAsDone(a) ==
  /\ pc[a] = "release"
  /\ claim' = [claim EXCEPT !.status = "done", !.response = payload[a]]
  /\ Settle(a, "refused")
  /\ UNCHANGED <<payload, booked, bookings, losses, takenOver>>

Release(a) ==
  /\ pc[a] = "release"
  /\ DeletePending
  /\ Settle(a, "refused")
  /\ UNCHANGED <<payload, booked, bookings, losses, takenOver>>

\* complete updates the row of the key, whoever claimed it; the fingerprint stays.
Complete(a) ==
  /\ pc[a] = "complete"
  /\ claim' = IF claim.status = "missing" THEN claim
              ELSE [status |-> "done", hash |-> claim.hash, age |-> 0,
                    response |-> payload[a]]
  /\ Settle(a, payload[a])
  /\ UNCHANGED <<payload, booked, bookings, losses, takenOver>>

\* The worker dies, or its answer is lost on the way.
Lose(a) ==
  /\ pc[a] # "waiting"
  /\ losses < MaxLosses
  /\ losses' = losses + 1
  /\ Goto(a, "waiting")
  /\ UNCHANGED <<payload, answer, claim, booked, bookings, takenOver>>

Tick ==
  /\ claim.status = "pending"
  /\ claim.age < MaxAge
  /\ claim' = [claim EXCEPT !.age = @ + 1]
  /\ UNCHANGED <<pc, payload, answer, booked, bookings, losses, takenOver>>

--------------------------------------------------------------------------------
Step(a) ==
  \/ Send(a) \/ Lookup(a)
  \/ Age(a, "age", "drop") \/ Drop(a, "drop", "claim")
  \/ Claim(a) \/ Again(a)
  \/ Age(a, "age2", "drop2") \/ Drop(a, "drop2", "claim2") \/ ClaimAgain(a)
  \/ Book(a) \/ Refuse(a) \/ Release(a) \/ Complete(a)

AllSettled == (\A a \in Attempts : pc[a] = "settled") /\ UNCHANGED vars

Next == (\E a \in Attempts : Step(a) \/ Lose(a)) \/ Tick \/ AllSettled

Spec == Init /\ [][Next]_vars

\* A living worker runs its request to the end, the companion keeps trying, time passes.
FairSpec == Spec /\ WF_vars(Tick) /\ \A a \in Attempts : WF_vars(Step(a))

--------------------------------------------------------------------------------
\* Properties.

\* Until a takeover deletes a claim the ledger holds at most one booking for the key,
\* however old claims get, however often the request is sent and wherever its workers
\* die (the claim row outlives a worker that died after its booking).
AtMostOnce == ~takenOver => bookings <= 1

\* Until then a client that is handed a booking is handed the one it asked for, also
\* when the companion reuses the key for another payload (payloadMatches).
AnswerFitsPayload ==
  ~takenOver => \A a \in Attempts : answer[a] \in Payloads => answer[a] = payload[a]

\* A client is handed only bookings the ledger holds.
AnswerIsBooked == \A a \in Attempts : answer[a] \in Payloads => answer[a] \in booked

\* A completed claim stays: neither a slow worker's release nor a stale takeover
\* deletes it (the status condition of release).
DoneIsKept == [][claim.status = "done" => claim'.status = "done"]_vars

\* A takeover removes only a claim that is stale when it is removed.
OnlyStaleIsDropped ==
  [][\A a \in Attempts :
       pc[a] \in {"drop", "drop2"} /\ pc'[a] \in {"claim", "claim2"} /\ claim' # claim =>
         claim.age >= Stale]_vars

\* Every client is settled in the end, also one whose claim a dead worker holds.
EveryoneIsSettled == \A a \in Attempts : <>[](pc[a] = "settled")
================================================================================
