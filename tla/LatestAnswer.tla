----------------------------- MODULE LatestAnswer -----------------------------
\* What a part of the page that is filled by requests promises, however late answers come:
\* it only ever takes up the answer to the newest request, and it takes that up.
EXTENDS Naturals
VARIABLES
  asked,  \* number of the newest request
  shown   \* number of the request whose answer or failure is shown

Init == asked \in Nat /\ shown = 0
Ask == asked' > asked /\ UNCHANGED shown
Show == shown' = asked /\ UNCHANGED asked
Next == Ask \/ Show
Spec == Init /\ [][Next]_<<asked, shown>>

\* When nothing more is asked the newest answer is shown in the end.
ShownInTheEnd == <>[][FALSE]_asked => <>[](asked = shown)
================================================================================
