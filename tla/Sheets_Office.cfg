SPECIFICATION Spec
CONSTANTS
  Clerks = {c1, c2}
  Receivers = {r1, r2}
  Sheets = {1}
  Items = {1, 2}
  MaxLines = 3
  MaxQty = 3
  Ordered = {0, 3}
  Received = {0, 2}
  OpenLimit = 1
  Approval = 3
  Budget = 6
SYMMETRY ClerkAndReceiverSymmetry
INVARIANTS SheetsInv ReceivedIsCovered OnlyRacesEvadeApproval
PROPERTY OnlyRacesTouchSent
