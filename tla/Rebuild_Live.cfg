SPECIFICATION Spec
CONSTANTS
  Items = {1, 2}
  Locations = {1, 2}
  Absent = Absent
  Forced = TRUE
  Deltas <- UpAndDown
  RowLimit = 3
  Most = 1
INVARIANTS RebuildInv RepairedWhenDone
