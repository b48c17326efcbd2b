SPECIFICATION Spec
CONSTANTS
  Requests = {r1, r2, r3}
  Items = {1}
  Locations = {1, 2}
  Lots = {"A", "B"}
  NoLot = "none"
  Expiries = {1, 2}
  Calls <- UpgradeCalls
  AllowNegative = FALSE
  QtyMax = 2
  BalanceMax = 4
  SerialUnit = 1
  StartTracks = {"lot"}
INVARIANT SerialUnique
