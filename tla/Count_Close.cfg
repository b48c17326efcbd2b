SPECIFICATION Spec
CONSTANTS
  Workers = {w1, w2}
  Items = {1, 2}
  Campaigns = {1}
  MaxLines = 2
  Counts <- MinusOneOrOneOrTwo
  CountMax = 3
  QtyMax = 2
  Deltas <- OneUpOneDown
  BalanceCap = 2
  ItemTargets = {"inactive", "lot", "none", "gone"}
  PlaceTargets = {"inactive", "active", "gone"}
SYMMETRY WorkerSymmetry
INVARIANT CountInv
PROPERTIES CloseHasConsent ClosePostsCounts CloseFindsMastersUsable ClosedIsFinal
CHECK_DEADLOCK FALSE
