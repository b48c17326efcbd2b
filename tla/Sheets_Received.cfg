SPECIFICATION Spec
CONSTANTS
  Clerks = {c1}
  Receivers = {r1, r2}
  Sheets = {1}
  Items = {1, 2}
  MaxLines = 2
  MaxQty = 2
  Ordered = {1, 2}
  Received = {1, 2}
  OpenLimit = 2
  Approval = 3
  Budget = 2
INVARIANT CoveredIsReceived
