CONSTANTS
  MaxSeq = 3
  Groups = {"g"}
  Entries = {"e1", "e2"}
  Texts = {"", "t"}
  Match <- TFindsOne
  MaxLoads = 2
  MaxViews = 2
  Names = {"a", "b"}
  Photos = {"p"}
  NoPhoto = "none"
  DetailCalls = 1
  Goods = {"g"}
  MaxSheets = 1
  MaxTasks = 2
  MaxTurns = 2
  Values = {"a", "b", "bad"}
  Refused = {"bad"}
  Subjects = {"u"}
  Cats = {"c"}
  Devices = {1}
  MaxCodes = 2
  MaxRenders = 2
  MaxCalls = 2
SPECIFICATION PagesSpec
INVARIANT PagesInv
PROPERTIES NewestIsShown UntouchedIsKept WaitsEnd
CHECK_DEADLOCK FALSE
