------------------------- MODULE ScanIdempotencyProofs -------------------------
(***************************************************************************)
(* What one key promises, for any number of requests, payloads and losses. *)
(* Part of it always holds; that the key books at most once holds until a  *)
(* takeover deletes a claim, however old claims get before that.           *)
(***************************************************************************)
EXTENDS ScanIdempotency, TLAPS

\* What a row or a client was given is booked.
StoredInv ==
  /\ TypeOK
  /\ claim.status = "done" => claim.response \in booked
  /\ \A a \in Attempts : pc[a] = "complete" => payload[a] \in booked
  /\ AnswerIsBooked

\* Between the insert and the end of its request the claim is the request's own.
Owns(a) == pc[a] \in {"book", "release", "complete"}

\* What holds until a claim is taken over.
OwnerInv ==
  /\ \A a, b \in Attempts : Owns(a) /\ Owns(b) => a = b
  /\ \A a \in Attempts : Owns(a) => claim.status = "pending" /\ claim.hash = payload[a]
  /\ \A a \in Attempts : pc[a] \in {"book", "release"} => bookings = 0
  /\ claim.status = "missing" => bookings = 0
  /\ claim.status = "done" => claim.response = claim.hash
  /\ \A a \in Attempts : answer[a] \in Payloads => answer[a] = payload[a]
  /\ bookings \in {0, 1}

OwnerUntilTakeover == ~takenOver => OwnerInv

--------------------------------------------------------------------------------
\* The rows a statement writes, and the fields a row has.
LEMMA MissingClaim ==
  /\ Missing \in ClaimRow
  /\ Missing.status = "missing" /\ Missing.hash = None
  /\ Missing.response = None /\ Missing.age = 0
  BY BoundAssumption DEF ClaimRow, Missing

\* A row made of its columns is a row.
LEMMA NewClaim ==
  ASSUME NEW s \in {"missing", "pending", "done"}, NEW h \in Payloads \cup {None},
         NEW n \in 0..MaxAge, NEW p \in Payloads \cup {None}
  PROVE  LET c == [status |-> s, hash |-> h, age |-> n, response |-> p]
         IN /\ c \in ClaimRow
            /\ c.status = s /\ c.hash = h /\ c.age = n /\ c.response = p
  BY DEF ClaimRow

\* Tick changes nothing but the age.
LEMMA OlderClaim ==
  ASSUME NEW c \in ClaimRow, c.age < MaxAge
  PROVE  LET d == [c EXCEPT !.age = @ + 1]
         IN /\ d \in ClaimRow /\ d.status = c.status
            /\ d.hash = c.hash /\ d.response = c.response
  BY BoundAssumption DEF ClaimRow

\* The statuses and fields a claim can have.
LEMMA ClaimFields ==
  ASSUME NEW c \in ClaimRow
  PROVE  /\ c.status \in {"missing", "pending", "done"}
         /\ c.hash \in Payloads \cup {None}
         /\ c.age \in 0..MaxAge
         /\ c.response \in Payloads \cup {None}
  BY DEF ClaimRow

--------------------------------------------------------------------------------
\* The initial state has no booking and nobody is handed one.
LEMMA StoredInit == Init => StoredInv
  <1> SUFFICES ASSUME Init PROVE StoredInv OBVIOUS
  <1>1. Missing \in ClaimRow /\ Missing.status = "missing"
    BY BoundAssumption DEF ClaimRow, Missing
  <1>t. takenOver \in BOOLEAN
    BY Zenon DEF Init
  <1>2. TypeOK
    BY <1>1, <1>t, BoundAssumption DEF Init, TypeOK, Waiting, Working, Answers, Verdicts
  <1>3. AnswerIsBooked
    BY NoneAssumption DEF Init, AnswerIsBooked, Verdicts
  <1> QED BY <1>1, <1>2, <1>3 DEF Init, StoredInv

\* What a step of the claim protocol does to a request's place and answer.
LEMMA StepTypes ==
  ASSUME StoredInv, NEW a \in Attempts
  PROVE  /\ \A l \in Waiting \cup Working : Goto(a, l) =>
              /\ pc' \in [Attempts -> Waiting \cup Working]
              /\ pc'[a] = l /\ \A b \in Attempts \ {a} : pc'[b] = pc[b]
         /\ \A x \in Answers : Settle(a, x) =>
              /\ pc' \in [Attempts -> Waiting \cup Working]
              /\ pc'[a] = "settled" /\ \A b \in Attempts \ {a} : pc'[b] = pc[b]
              /\ answer' \in [Attempts -> Answers]
              /\ answer'[a] = x /\ \A b \in Attempts \ {a} : answer'[b] = answer[b]
  BY DEF StoredInv, TypeOK, Goto, Settle, Waiting, Working

\* A step of one request keeps the invariant if what it stores and answers is booked.
LEMMA StoredKept ==
  ASSUME StoredInv, NEW a \in Attempts,
         pc' \in [Attempts -> Waiting \cup Working],
         \A b \in Attempts \ {a} : pc'[b] = pc[b],
         pc'[a] = "complete" => payload[a] \in booked',
         payload' = payload,
         answer' \in [Attempts -> Answers],
         \A b \in Attempts \ {a} : answer'[b] = answer[b],
         answer'[a] = answer[a] \/ answer'[a] \in Verdicts \cup booked',
         claim' \in ClaimRow,
         claim'.status = "done" => claim'.response \in booked',
         booked \subseteq booked', booked' \subseteq Payloads,
         bookings' \in 0..BookCap, losses' \in 0..MaxLosses, takenOver' \in BOOLEAN
  PROVE  StoredInv'
  <1>1. TypeOK'
    BY DEF StoredInv, TypeOK
  <1>2. \A b \in Attempts : pc'[b] = "complete" => payload'[b] \in booked'
    BY DEF StoredInv
  <1>3. \A b \in Attempts : answer'[b] \in Payloads => answer'[b] \in booked'
    BY NoneAssumption DEF StoredInv, AnswerIsBooked
  <1> QED BY <1>1, <1>2, <1>3 DEF StoredInv, AnswerIsBooked

\* What a completed claim replays is booked, or a verdict.
LEMMA ReplayIsBooked ==
  ASSUME StoredInv, NEW a \in Attempts, claim.status = "done", Replay(a),
         UNCHANGED <<payload, claim, booked, bookings, losses, takenOver>>
  PROVE  StoredInv'
  <1>1. PICK x \in Verdicts \cup booked : Settle(a, x)
    BY DEF Replay, StoredInv, Verdicts
  <1>2. x \in Answers
    BY DEF StoredInv, TypeOK, Answers
  <1>3. /\ pc' \in [Attempts -> Waiting \cup Working]
        /\ pc'[a] = "settled" /\ \A b \in Attempts \ {a} : pc'[b] = pc[b]
        /\ answer' \in [Attempts -> Answers]
        /\ answer'[a] = x /\ \A b \in Attempts \ {a} : answer'[b] = answer[b]
    BY <1>1, <1>2, StepTypes
  <1> QED
    BY <1>1, <1>3, StoredKept DEF StoredInv, TypeOK

\* A step that only moves a request, to a place before its booking.
LEMMA MoveKeepsStored ==
  ASSUME StoredInv, NEW a \in Attempts, NEW l \in (Waiting \cup Working) \ {"complete"},
         Goto(a, l), UNCHANGED <<payload, answer, booked, bookings>>,
         claim' \in ClaimRow, claim'.status = "done" => claim' = claim,
         losses' \in 0..MaxLosses, takenOver' \in BOOLEAN
  PROVE  StoredInv'
  <1>1. /\ pc' \in [Attempts -> Waiting \cup Working]
        /\ pc'[a] = l /\ \A b \in Attempts \ {a} : pc'[b] = pc[b]
    BY StepTypes
  <1> QED
    BY <1>1, StoredKept DEF StoredInv, TypeOK

\* Every step keeps what is stored and answered booked.
LEMMA StoredStep == StoredInv /\ [Next]_vars => StoredInv'
<1> SUFFICES ASSUME StoredInv, [Next]_vars PROVE StoredInv' OBVIOUS
<1> USE DEF Waiting, Working
<1>0. /\ claim \in ClaimRow /\ losses \in 0..MaxLosses /\ takenOver \in BOOLEAN
      /\ claim.status \in {"missing", "pending", "done"}
  BY ClaimFields DEF StoredInv, TypeOK
<1>1. ASSUME NEW a \in Attempts, Send(a) PROVE StoredInv'
  BY <1>0, <1>1, MoveKeepsStored DEF Send
<1>2. ASSUME NEW a \in Attempts, Lookup(a) PROVE StoredInv'
  BY <1>0, <1>2, MoveKeepsStored, ReplayIsBooked DEF Lookup
<1>3. ASSUME NEW a \in Attempts, NEW h, NEW n \in {"drop", "drop2"}, Age(a, h, n)
      PROVE  StoredInv'
  BY <1>0, <1>3, MoveKeepsStored DEF Age, InFlight
<1>4. ASSUME NEW a \in Attempts, NEW h, NEW n \in {"claim", "claim2"}, Drop(a, h, n)
      PROVE  StoredInv'
  BY <1>0, <1>4, MissingClaim, MoveKeepsStored DEF Drop, DeletePending
<1>5. ASSUME NEW a \in Attempts, Insert(a), UNCHANGED <<payload, booked, bookings, losses, takenOver>>
      PROVE  StoredInv'
  <2>1. claim' \in ClaimRow /\ claim'.status = "pending"
    BY <1>5, BoundAssumption, NewClaim DEF Insert, StoredInv, TypeOK
  <2> QED BY <1>0, <1>5, <2>1, MoveKeepsStored DEF Insert
<1>6. ASSUME NEW a \in Attempts, Claim(a) PROVE StoredInv'
  BY <1>0, <1>5, <1>6, MoveKeepsStored DEF Claim
<1>7. ASSUME NEW a \in Attempts, Again(a) PROVE StoredInv'
  BY <1>0, <1>7, MoveKeepsStored, ReplayIsBooked DEF Again, InFlight
<1>8. ASSUME NEW a \in Attempts, ClaimAgain(a) PROVE StoredInv'
  BY <1>0, <1>5, <1>8, MoveKeepsStored DEF ClaimAgain, InFlight
<1>9. ASSUME NEW a \in Attempts, Book(a) PROVE StoredInv'
  <2>1. /\ pc' \in [Attempts -> Waiting \cup Working]
        /\ pc'[a] = "complete" /\ \A b \in Attempts \ {a} : pc'[b] = pc[b]
    BY <1>9, StepTypes DEF Book
  <2>2. bookings' \in 0..BookCap
    BY <1>9, BoundAssumption DEF Book, StoredInv, TypeOK
  <2>3. payload[a] \in booked' /\ booked \subseteq booked' /\ booked' \subseteq Payloads
    BY <1>9 DEF Book, StoredInv, TypeOK
  <2> QED BY <1>0, <1>9, <2>1, <2>2, <2>3, StoredKept DEF Book, StoredInv, TypeOK
<1>10. ASSUME NEW a \in Attempts, Refuse(a) PROVE StoredInv'
  BY <1>0, <1>10, MoveKeepsStored DEF Refuse
<1>11. ASSUME NEW a \in Attempts, Release(a) PROVE StoredInv'
  <2>1. /\ pc' \in [Attempts -> Waiting \cup Working]
        /\ pc'[a] = "settled" /\ \A b \in Attempts \ {a} : pc'[b] = pc[b]
        /\ answer' \in [Attempts -> Answers]
        /\ answer'[a] = "refused" /\ \A b \in Attempts \ {a} : answer'[b] = answer[b]
    BY <1>11, StepTypes DEF Release, Answers, Verdicts
  <2>2. claim' \in ClaimRow /\ (claim'.status = "done" => claim' = claim)
    BY <1>0, <1>11, MissingClaim DEF Release, DeletePending
  <2>3. claim'.status = "done" => claim'.response \in booked'
    BY <1>11, <2>2 DEF Release, StoredInv
  <2> QED BY <1>0, <1>11, <2>1, <2>2, <2>3, StoredKept DEF Release, Verdicts, StoredInv, TypeOK
<1>12. ASSUME NEW a \in Attempts, Complete(a) PROVE StoredInv'
  <2>1. payload[a] \in booked /\ payload[a] \in Payloads
    BY <1>12 DEF Complete, StoredInv, TypeOK
  <2>2. /\ pc' \in [Attempts -> Waiting \cup Working]
        /\ pc'[a] = "settled" /\ \A b \in Attempts \ {a} : pc'[b] = pc[b]
        /\ answer' \in [Attempts -> Answers]
        /\ answer'[a] = payload[a] /\ \A b \in Attempts \ {a} : answer'[b] = answer[b]
    BY <1>12, <2>1, StepTypes DEF Complete, Answers
  <2>3. claim' \in ClaimRow /\ (claim'.status = "done" => claim'.response \in booked)
    <3>1. CASE claim.status = "missing"
      BY <1>0, <1>12, <3>1 DEF Complete
    <3>2. CASE claim.status # "missing"
      BY <1>0, <1>12, <3>2, <2>1, BoundAssumption, NewClaim, ClaimFields DEF Complete
    <3> QED BY <3>1, <3>2
  <2> QED BY <1>0, <1>12, <2>1, <2>2, <2>3, StoredKept DEF Complete, StoredInv, TypeOK
<1>13. ASSUME NEW a \in Attempts, Lose(a) PROVE StoredInv'
  BY <1>0, <1>13, BoundAssumption, MoveKeepsStored DEF Lose
<1>14. CASE Tick
  <2>1. /\ claim' \in ClaimRow /\ claim'.status = claim.status
        /\ claim'.response = claim.response
    BY <1>0, <1>14, OlderClaim DEF Tick
  <2> QED BY <1>14, <2>1 DEF Tick, StoredInv, TypeOK, AnswerIsBooked
<1>15. CASE UNCHANGED vars
  BY <1>15 DEF vars, StoredInv, TypeOK, AnswerIsBooked
<1> QED
  BY <1>1, <1>2, <1>3, <1>4, <1>6, <1>7, <1>8, <1>9, <1>10, <1>11, <1>12, <1>13, <1>14, <1>15
  DEF Next, Step, AllSettled
--------------------------------------------------------------------------------
\* TypeOK for every number of requests, payloads, losses and every MaxAge.
THEOREM TypesCorrect == Spec => []TypeOK
  <1>1. StoredInv => TypeOK BY DEF StoredInv
  <1> QED BY StoredInit, StoredStep, <1>1, PTL DEF Spec

\* A client is handed only bookings the ledger holds, also when claims are taken over.
THEOREM AnswersAreBooked == Spec => []AnswerIsBooked
  <1>1. StoredInv => AnswerIsBooked BY DEF StoredInv
  <1> QED BY StoredInit, StoredStep, <1>1, PTL DEF Spec

\* No step takes a completed claim back: each DELETE asks for status pending.
LEMMA DoneStep ==
  StoredInv /\ [Next]_vars => (claim.status = "done" => claim'.status = "done")
<1> SUFFICES ASSUME StoredInv, [Next]_vars, claim.status = "done"
             PROVE  claim'.status = "done"
  OBVIOUS
<1>0. claim \in ClaimRow BY DEF StoredInv, TypeOK
<1>1. ASSUME NEW a \in Attempts, Complete(a) PROVE claim'.status = "done"
  BY <1>1 DEF Complete
<1>2. CASE Tick BY <1>0, <1>2, OlderClaim DEF Tick
<1>3. ASSUME NEW a \in Attempts, Step(a), ~Complete(a) PROVE claim' = claim
  BY <1>3 DEF Step, Send, Lookup, Age, Drop, DeletePending, Claim, ClaimAgain, Insert,
    Again, Book, Refuse, Release
<1> QED BY <1>1, <1>2, <1>3 DEF Next, Lose, AllSettled, vars

\* DoneIsKept for every value of the constants, takeovers included.
THEOREM DoneStaysDone == Spec => DoneIsKept
  <1>1. StoredInv /\ [Next]_vars
        => [claim.status = "done" => claim'.status = "done"]_vars
    BY DoneStep
  <1> QED BY StoredInit, StoredStep, <1>1, PTL DEF Spec, DoneIsKept

--------------------------------------------------------------------------------
\* Nobody has claimed or booked anything at first.
LEMMA OwnerInit == Init => OwnerInv
  BY MissingClaim, NoneAssumption
  DEF Init, OwnerInv, Owns, Verdicts

\* A request that leaves the claim and the ledger alone, and ends a step without
\* owning the claim, disturbs nobody.
LEMMA OwnerMoves ==
  ASSUME StoredInv, OwnerInv, NEW a \in Attempts,
         NEW l \in Waiting \cup {"send", "age", "drop", "claim", "again", "age2",
                               "drop2", "claim2"},
         Goto(a, l), UNCHANGED <<payload, claim, bookings>>,
         NEW x \in Answers, answer' = [answer EXCEPT ![a] = x],
         x \in Payloads => x = payload[a]
  PROVE  OwnerInv'
  <1>1. /\ pc'[a] = l /\ \A b \in Attempts \ {a} : pc'[b] = pc[b]
        /\ answer'[a] = x /\ \A b \in Attempts \ {a} : answer'[b] = answer[b]
    BY DEF Goto, StoredInv, TypeOK
  <1>2. /\ ~Owns(a)' /\ pc'[a] \notin {"book", "release"}
        /\ \A b \in Attempts \ {a} : Owns(b)' <=> Owns(b)
    BY <1>1 DEF Owns, Waiting
  <1>3. \A b \in Attempts : answer'[b] \in Payloads => answer'[b] = payload'[b]
    BY <1>1 DEF OwnerInv
  <1> QED BY <1>1, <1>2, <1>3 DEF OwnerInv

\* The same for a step that leaves the answer alone.
LEMMA OwnerMovesOn ==
  ASSUME StoredInv, OwnerInv, NEW a \in Attempts,
         NEW l \in Waiting \cup {"send", "age", "drop", "claim", "again", "age2",
                               "drop2", "claim2"},
         Goto(a, l), UNCHANGED <<payload, claim, bookings, answer>>
  PROVE  OwnerInv'
  <1>1. answer[a] \in Answers /\ answer' = [answer EXCEPT ![a] = answer[a]]
    BY DEF StoredInv, TypeOK
  <1>2. answer[a] \in Payloads => answer[a] = payload[a]
    BY DEF OwnerInv
  <1> QED BY <1>1, <1>2, OwnerMoves

\* A replay hands out the response of the claim's own payload.
LEMMA OwnerReplays ==
  ASSUME StoredInv, OwnerInv, NEW a \in Attempts, claim.status = "done", Replay(a),
         UNCHANGED <<payload, claim, bookings>>
  PROVE  OwnerInv'
  <1>1. PICK x : Settle(a, x) /\ (x = "mismatch" \/ x = payload[a])
    BY DEF Replay, OwnerInv
  <1>2. x \in Answers /\ (x \in Payloads => x = payload[a])
    BY <1>1, NoneAssumption DEF Answers, Verdicts, StoredInv, TypeOK
  <1> QED BY <1>1, <1>2, OwnerMoves DEF Settle, Waiting

\* The request whose insert succeeds finds no other owner and no booking.
LEMMA InsertOwns ==
  ASSUME StoredInv, OwnerInv, NEW a \in Attempts, Insert(a),
         UNCHANGED <<payload, bookings>>
  PROVE  OwnerInv'
  <1>1. \A b \in Attempts : ~Owns(b) BY DEF Insert, OwnerInv
  <1>2. bookings = 0 BY DEF Insert, OwnerInv
  <1>3. claim'.status = "pending" /\ claim'.hash = payload[a]
    BY BoundAssumption, NewClaim DEF Insert, StoredInv, TypeOK
  <1>4. pc'[a] = "book" /\ \A b \in Attempts \ {a} : pc'[b] = pc[b]
    BY DEF Insert, Goto, StoredInv, TypeOK
  <1>5. \A b \in Attempts \ {a} : ~Owns(b)' BY <1>1, <1>4 DEF Owns
  <1>6. \A b \in Attempts : answer'[b] \in Payloads => answer'[b] = payload'[b]
    BY DEF Insert, OwnerInv
  <1> QED BY <1>2, <1>3, <1>4, <1>5, <1>6 DEF OwnerInv, Owns

\* The owner moves to l, and what it leaves in the claim and the ledger fits.
LEMMA OwnerActs ==
  ASSUME StoredInv, OwnerInv, NEW a \in Attempts, Owns(a),
         NEW l \in {"release", "complete", "settled"}, Goto(a, l), payload' = payload,
         l \in {"release", "complete"} =>
           claim'.status = "pending" /\ claim'.hash = payload[a],
         l = "release" => bookings' = 0,
         claim'.status = "missing" => bookings' = 0,
         claim'.status = "done" => claim'.response = claim'.hash,
         bookings' \in {0, 1},
         NEW x \in Answers, answer' = [answer EXCEPT ![a] = x],
         x \in Payloads => x = payload[a]
  PROVE  OwnerInv'
  <1>1. /\ pc'[a] = l /\ \A b \in Attempts \ {a} : pc'[b] = pc[b]
        /\ answer'[a] = x /\ \A b \in Attempts \ {a} : answer'[b] = answer[b]
    BY DEF Goto, StoredInv, TypeOK
  <1>2. \A b \in Attempts \ {a} : ~Owns(b) /\ ~Owns(b)'
    BY <1>1 DEF OwnerInv, Owns
  <1>3. \A b \in Attempts : answer'[b] \in Payloads => answer'[b] = payload'[b]
    BY <1>1 DEF OwnerInv
  <1> QED BY <1>1, <1>2, <1>3 DEF OwnerInv, Owns

\* Every step but a takeover keeps the claim with its owner.
LEMMA OwnerStep == StoredInv /\ OwnerInv /\ [Next]_vars /\ ~takenOver' => OwnerInv'
<1> SUFFICES ASSUME StoredInv, OwnerInv, [Next]_vars, ~takenOver' PROVE OwnerInv' OBVIOUS
<1> USE DEF Waiting
<1>0. claim \in ClaimRow /\ claim.status \in {"missing", "pending", "done"}
  BY ClaimFields DEF StoredInv, TypeOK
<1>1. ASSUME NEW a \in Attempts, NEW h, NEW n \in {"claim", "claim2"}, Drop(a, h, n)
      PROVE  OwnerInv'
  <2>1. claim' = claim BY <1>1 DEF Drop, DeletePending
  <2> QED BY <1>1, <2>1, OwnerMovesOn DEF Drop
<1>a. ASSUME NEW a \in Attempts
      PROVE  /\ answer[a] \in Answers
             /\ answer' = answer => answer' = [answer EXCEPT ![a] = answer[a]]
  BY DEF StoredInv, TypeOK
<1>b. ASSUME NEW a \in Attempts, Owns(a)
      PROVE  claim.status = "pending" /\ claim.hash = payload[a]
  BY <1>b DEF OwnerInv
<1>2. ASSUME NEW a \in Attempts, Send(a) PROVE OwnerInv'
  BY <1>2, OwnerMovesOn DEF Send
<1>3. ASSUME NEW a \in Attempts, Lookup(a) PROVE OwnerInv'
  BY <1>0, <1>3, OwnerMovesOn, OwnerReplays DEF Lookup
<1>4. ASSUME NEW a \in Attempts, NEW h, NEW n \in {"drop", "drop2"}, Age(a, h, n)
      PROVE  OwnerInv'
  BY <1>4, OwnerMovesOn DEF Age, InFlight
<1>5. ASSUME NEW a \in Attempts, Claim(a) PROVE OwnerInv'
  BY <1>5, InsertOwns, OwnerMovesOn DEF Claim
<1>6. ASSUME NEW a \in Attempts, Again(a) PROVE OwnerInv'
  BY <1>0, <1>6, OwnerMovesOn, OwnerReplays DEF Again, InFlight
<1>7. ASSUME NEW a \in Attempts, Book(a) PROVE OwnerInv'
  <2>1. Owns(a) /\ bookings = 0 BY <1>7 DEF Book, Owns, OwnerInv
  <2>2. bookings' = 1 BY <1>7, <2>1, BoundAssumption DEF Book
  <2>3. answer[a] \in Payloads => answer[a] = payload[a]
    BY DEF OwnerInv
  <2> QED BY <1>a, <1>b, <1>7, <2>1, <2>2, <2>3, OwnerActs DEF Book
<1>8. ASSUME NEW a \in Attempts, Refuse(a) PROVE OwnerInv'
  <2>1. Owns(a) /\ bookings = 0 BY <1>8 DEF Refuse, Owns, OwnerInv
  <2>2. answer[a] \in Payloads => answer[a] = payload[a]
    BY DEF OwnerInv
  <2> QED BY <1>a, <1>b, <1>8, <2>1, <2>2, OwnerActs DEF Refuse
<1>9. ASSUME NEW a \in Attempts, Release(a) PROVE OwnerInv'
  <2>1. Owns(a) /\ bookings = 0 BY <1>9 DEF Release, Owns, OwnerInv
  <2>2. claim'.status = "missing"
    BY <1>b, <1>9, <2>1, MissingClaim DEF Release, DeletePending
  <2>3. "refused" \in Answers \ Payloads
    BY NoneAssumption DEF Answers, Verdicts
  <2> QED BY <1>9, <2>1, <2>2, <2>3, OwnerActs DEF Release, Settle
<1>10. ASSUME NEW a \in Attempts, Complete(a) PROVE OwnerInv'
  <2>1. Owns(a) /\ payload[a] \in Payloads
    BY <1>10 DEF Complete, Owns, StoredInv, TypeOK
  <2>2. claim.status = "pending" /\ claim.hash = payload[a] BY <1>b, <2>1
  <2>3. /\ claim'.status = "done" /\ claim'.hash = payload[a]
        /\ claim'.response = payload[a]
    BY <1>10, <2>1, <2>2, BoundAssumption, NewClaim DEF Complete
  <2>4. bookings \in {0, 1} BY DEF OwnerInv
  <2> QED BY <1>10, <2>1, <2>3, <2>4, OwnerActs DEF Complete, Settle, Answers
<1>11. ASSUME NEW a \in Attempts, Lose(a) PROVE OwnerInv'
  BY <1>11, OwnerMovesOn DEF Lose
<1>12. CASE Tick
  <2>1. /\ claim'.status = claim.status /\ claim'.hash = claim.hash
        /\ claim'.response = claim.response
    BY <1>0, <1>12, OlderClaim DEF Tick
  <2> QED BY <1>12, <2>1 DEF Tick, OwnerInv, Owns
<1>13. CASE UNCHANGED vars
  BY <1>13 DEF vars, OwnerInv, Owns
<1>14. ASSUME NEW a \in Attempts, ClaimAgain(a) PROVE OwnerInv'
  BY <1>14, InsertOwns, OwnerMovesOn DEF ClaimAgain, InFlight
<1> QED
  BY <1>1, <1>2, <1>3, <1>4, <1>5, <1>6, <1>7, <1>8, <1>9, <1>10, <1>11, <1>12, <1>13,
     <1>14
  DEF Next, Step, AllSettled

\* A takeover is not forgotten.
LEMMA TakeoverStays == StoredInv /\ [Next]_vars /\ takenOver => takenOver'
  BY DEF Next, Step, Send, Lookup, Age, Drop, Claim, ClaimAgain, Again, Book, Refuse,
     Release, Complete, Lose, Tick, AllSettled, vars

\* The invariant of a key none of whose claims has been taken over.
LEMMA OwnerInvariant == Spec => []OwnerUntilTakeover
  <1>1. Init => StoredInv /\ OwnerUntilTakeover
    BY StoredInit, OwnerInit DEF OwnerUntilTakeover
  <1>2. StoredInv /\ OwnerUntilTakeover /\ [Next]_vars => (StoredInv /\ OwnerUntilTakeover)'
    BY StoredStep, OwnerStep, TakeoverStays DEF OwnerUntilTakeover
  <1> QED BY <1>1, <1>2, PTL DEF Spec

\* A key books at most once until one of its claims is taken over, for any number of
\* requests and losses and however old the claims get.
THEOREM BooksAtMostOnce == Spec => []AtMostOnce
  <1>1. OwnerUntilTakeover => AtMostOnce
    BY DEF OwnerUntilTakeover, OwnerInv, AtMostOnce
  <1> QED BY OwnerInvariant, <1>1, PTL

\* Until then no client is handed the booking of another payload.
THEOREM AnswersFit == Spec => []AnswerFitsPayload
  <1>1. OwnerUntilTakeover => AnswerFitsPayload
    BY DEF OwnerUntilTakeover, OwnerInv, AnswerFitsPayload
  <1> QED BY OwnerInvariant, <1>1, PTL
================================================================================
