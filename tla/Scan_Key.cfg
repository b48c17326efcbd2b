SPECIFICATION FairSpec
CONSTANTS
  Attempts = {a1, a2, a3}
  Payloads = {p, q}
  None = None
  Stale = 2
  MaxAge = 2
  MaxLosses = 2
  BookCap = 2
INVARIANTS AtMostOnce AnswerFitsPayload AnswerIsBooked
PROPERTIES DoneIsKept EveryoneIsSettled
