SPECIFICATION FairSpec
CONSTANTS
  l1 = l1
  l2 = l2
  l3 = l3
  Lines = {l1, l2, l3}
  PageOf <- TwoPages
  System <- AllOne
  Qty = {1}
  Slots = {1, 2}
  MaxMoved = 1
  Nothing = Nothing
INVARIANTS PageInv CloseHasConsent
PROPERTIES CloseWaitsForSaves StartingEnds
