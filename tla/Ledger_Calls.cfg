SPECIFICATION Spec
CONSTANTS
  Requests = {r1, r2, r3}
  Items = {1}
  Locations = {1, 2}
  Lots = {"A"}
  NoLot = "none"
  Expiries = {1, 2}
  Calls <- AllCalls
  AllowNegative = FALSE
  QtyMax = 2
  BalanceMax = 4
  SerialUnit = 1
  StartTracks = {"none", "lot", "serial"}
SYMMETRY RequestSymmetry
INVARIANTS LedgerInv BalanceIsLedger NonNegativeStock NoLockCycle SerialUnique
PROPERTIES AtomicSpec PostedWhileActive MarkerFollowsReceipts
