SPECIFICATION Spec
CONSTANTS
  Clerks = {c1, c2}
  Receivers = {r1}
  Sheets = {1, 2}
  Items = {1, 2}
  MaxLines = 3
  MaxQty = 2
  Ordered = {1, 2}
  Received = {1, 2}
  OpenLimit = 2
  Approval = 3
  Budget = 4
PROPERTY SentLinesAreFixed
