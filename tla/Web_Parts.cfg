CONSTANTS
  Dialogs = {1, 2}
  Items = {"plain", "lots"}
  Tracked = {"lots"}
  None = "none"
  Csvs = {"", "a", "b"}
  NoFile = "no file"
  MaxRuns = 2
  Gtins = {"g1", "g2"}
  OtherCodes = {"", "x"}
  Typed = "typed"
  MaxLookups = 3
  Terms = {"", "a", "b"}
  MaxPosts = 2
  MaxSearch = 2
  Ids = {"i", "j"}
  Words = {"", "a", "ab", "ac"}
  Short = "a"
  Finds <- BothOrOne
  MaxAsks = 2
  Fields = {"search", "box", "qty", "reason"}
  Typing = {"search", "qty", "reason"}
  InDialog = {"qty", "reason"}
  Heights = {1, 2}
  Links = 7
  Parent = 3
  Submenu = {4, 5}
  HelpMenu = {6, 7}
  Messages = {"saved", "failed"}
  Errors = {"failed"}
  Sections = {"access", "office", "license"}
  DefaultSection = "access"
  Anchors = {"none", "iv-access-title", "iv-license", "other"}
  NoAnchor = "none"
  Owner <- SectionOf
  Digits = {0, 3, 9}
  Chars = {0, 5, 9, 10, 11}
  MaxText = 4
  Users = {"ada", "bob"}
  Pages = {"dashboard", "items", "locations", "movements", "item-detail",
           "location-detail", "stocktake", "stocktake-detail", "stocktake-new",
           "settings-office", "settings-access", "settings-restock"}
  MaxHidden = 1
SPECIFICATION PartsSpec
INVARIANTS PartsInv SentIsShown ComputedRight
PROPERTIES AnswersFitInputs FrameIsKept WaitsEnd
CHECK_DEADLOCK FALSE
