------------------------------- MODULE WebParts -------------------------------
\* The parts that pages are put together from, and the frame around them, one at a time:
\* each is a closure or a script with state of its own, installed on every page that needs
\* it (the template's scripts, and boot() of src/js/app.js).
EXTENDS Integers, Sequences, FiniteSets

CONSTANTS
  Dialogs, Items, Tracked, None,                      \* booking dialogs
  Csvs, NoFile, MaxRuns,                              \* CSV import
  Gtins, OtherCodes, Typed, MaxLookups,               \* product lookup
  Terms, MaxPosts, MaxSearch,                         \* a new stocktake
  Ids, Words, Short, Finds, MaxAsks,                  \* pickers
  Fields, Typing, InDialog, Heights,                  \* on-screen keyboard
  Links, Parent, Submenu, HelpMenu,                   \* keys in the navigation
  Messages, Errors,                                   \* toasts
  Sections, DefaultSection, Anchors, NoAnchor, Owner, \* old links to the settings
  Digits, Chars, MaxText,                             \* barcodes and amounts
  Users, Pages, MaxHidden                             \* how-to cards

VARIABLES
  scene,  \* the part that is used
  \* booking dialogs
  dlg, inert, locked, opening, rules,
  \* CSV import
  box, file, typed, runs, lastRun, lastDry, skipErrors, result, import, reported,
  \* product lookup
  autofire, open, scan, name, sku, due, generation, inFlight, lookups, ready, status, looked,
  \* a new stocktake
  at, places, panel, taking, creating, posts, sentPosts, created, lostPosts, chooser,
  \* pickers
  source, multi, chips, word, alarm, asks, options, entered, blurred,
  \* on-screen keyboard
  keyboard, heard, field, padding, kept, paddedHost, retries, blurTimer, mistaken,
  \* navigation drawer, help popover, dialog
  wide, turned, drawer, portal, shellInert, navHidden, traps, popover, dialogBox, chromeInert, focus,
  \* keys in the navigation
  linkAt, expanded, helping, onSettings, leaving,
  \* toasts
  toasts, since, timers, seen, links,
  \* old links to the settings
  place, anchor, link, readAnchor,
  \* barcodes and amounts
  typing, barcode, amount,
  \* how-to cards
  role, blocked, remembered, tip, hidden

Booking == INSTANCE BookingDialogs
Import == INSTANCE ImportDialog WITH Texts <- Csvs
Lookup == INSTANCE ProductLookup
Start == INSTANCE StocktakeStart WITH opening <- taking
Choose == INSTANCE Picker WITH Texts <- Words, focus <- entered
Pad == INSTANCE KeyboardPad WITH focus <- field
Shell == INSTANCE ShellNav
Keys == INSTANCE NavKeys WITH at <- linkAt
Told == INSTANCE Toasts
Legacy == INSTANCE LegacyLinks
Codes == INSTANCE TypedCodes WITH field <- typing
Tips == INSTANCE HowTo

ASSUME PartsAssumption ==
  /\ Booking!DialogAssumption /\ Import!ImportAssumption /\ Lookup!LookupAssumption
  /\ Start!StartAssumption /\ Choose!PickerAssumption /\ Pad!PadAssumption
  /\ Keys!LinksAssumption /\ Told!ToastAssumption /\ Legacy!LegacyAssumption
  /\ Codes!TypedAssumption /\ Tips!HowToAssumption

bookingVars == <<dlg, inert, locked, opening, rules>>
importVars == <<box, file, typed, runs, lastRun, lastDry, skipErrors, result, import, reported>>
lookupVars == <<autofire, open, scan, name, sku, due, generation, inFlight, lookups, ready,
                status, looked>>
startVars == <<at, places, panel, taking, creating, posts, sentPosts, created, lostPosts, chooser>>
pickerVars == <<source, multi, chips, word, alarm, asks, options, entered, blurred>>
padVars == <<keyboard, heard, field, padding, kept, paddedHost, retries, blurTimer, mistaken>>
shellVars == <<wide, turned, drawer, portal, shellInert, navHidden, traps, popover, dialogBox,
               chromeInert, focus>>
keyVars == <<linkAt, expanded, helping, onSettings, leaving>>
toastVars == <<toasts, since, timers, seen, links>>
legacyVars == <<place, anchor, link, readAnchor>>
typedVars == <<typing, barcode, amount>>
tipVars == <<role, blocked, remembered, tip, hidden>>
\* What stays when one of the first five, or of the others, moves.
formVars == <<bookingVars, importVars, lookupVars, startVars, pickerVars>>
frameVars == <<padVars, shellVars, keyVars, toastVars, legacyVars, typedVars, tipVars>>
partsVars == <<scene, formVars, frameVars>>

Scenes == {"booking", "import", "lookup", "start", "picker", "pad", "shell", "keys", "toasts",
           "legacy", "codes", "tips"}
TypeOK == /\ scene \in Scenes
          /\ Booking!TypeOK /\ Import!TypeOK /\ Lookup!TypeOK /\ Start!TypeOK /\ Choose!TypeOK
          /\ Pad!TypeOK /\ Shell!TypeOK /\ Keys!TypeOK /\ Told!TypeOK /\ Legacy!TypeOK
          /\ Codes!TypeOK /\ Tips!TypeOK

\* What a part that is not used would start with is of no account.
PartsInit ==
  /\ scene \in Scenes
  /\ Booking!Init /\ Import!ImportInit /\ Lookup!LookupInit /\ Start!StartInit
  /\ Choose!PickerInit /\ Pad!PadInit /\ Shell!ShellInit /\ Keys!KeysInit /\ Told!ToastInit
  /\ Legacy!LegacyInit /\ Codes!TypedInit /\ Tips!HowToInit
  /\ scene # "booking" => rules = [reason |-> FALSE, scan |-> FALSE]
  /\ scene # "lookup" => ~autofire /\ name = "" /\ sku = ""
  /\ scene # "start" => at = "list" /\ places = "none"
  /\ scene # "picker" => source = "local" /\ multi
  /\ (scene # "shell" => wide) /\ (scene # "keys" => onSettings)
  /\ scene # "codes" => typing = "amount"
  /\ scene # "tips" => role = [u \in Users |-> "field"] /\ ~blocked

Form(x, vars) == scene = x /\ UNCHANGED <<scene, frameVars, vars>>
Frame(x, vars) == scene = x /\ UNCHANGED <<scene, formVars, vars>>
PartsNext ==
  \/ Form("booking", <<importVars, lookupVars, startVars, pickerVars>>) /\ Booking!Next
  \/ Form("import", <<bookingVars, lookupVars, startVars, pickerVars>>) /\ Import!ImportNext
  \/ Form("lookup", <<bookingVars, importVars, startVars, pickerVars>>) /\ Lookup!LookupNext
  \/ Form("start", <<bookingVars, importVars, lookupVars, pickerVars>>) /\ Start!StartNext
  \/ Form("picker", <<bookingVars, importVars, lookupVars, startVars>>) /\ Choose!PickerNext
  \/ Frame("pad", <<shellVars, keyVars, toastVars, legacyVars, typedVars, tipVars>>) /\ Pad!PadNext
  \/ Frame("shell", <<padVars, keyVars, toastVars, legacyVars, typedVars, tipVars>>)
       /\ Shell!ShellNext
  \/ Frame("keys", <<padVars, shellVars, toastVars, legacyVars, typedVars, tipVars>>)
       /\ Keys!KeysNext
  \/ Frame("toasts", <<padVars, shellVars, keyVars, legacyVars, typedVars, tipVars>>)
       /\ Told!ToastNext
  \/ Frame("legacy", <<padVars, shellVars, keyVars, toastVars, typedVars, tipVars>>)
       /\ Legacy!LegacyNext
  \/ Frame("codes", <<padVars, shellVars, keyVars, toastVars, legacyVars, tipVars>>)
       /\ Codes!TypedNext
  \/ Frame("tips", <<padVars, shellVars, keyVars, toastVars, legacyVars, typedVars>>)
       /\ Tips!HowToNext

\* Requests are answered or fail, timers fire, and the browser follows a redirect.
PartsSpec ==
  /\ PartsInit /\ [][PartsNext]_partsVars
  /\ \A d \in Dialogs : WF_bookingVars(scene = "booking" /\ Booking!Answer(d))
  /\ WF_importVars(scene = "import" /\ Import!Checking)
  /\ WF_importVars(scene = "import" /\ Import!Importing)
  /\ WF_importVars(scene = "import" /\ Import!TimerFires)
  /\ WF_lookupVars(scene = "lookup" /\ Lookup!Answer)
  /\ WF_lookupVars(scene = "lookup" /\ Lookup!TimerFires)
  /\ WF_startVars(scene = "start" /\ at # "left" /\ Start!Posting)
  /\ WF_startVars(scene = "start" /\ at # "left" /\ Start!Masters)
  /\ WF_startVars(scene = "start" /\ at # "left" /\ Start!Searching)
  /\ WF_pickerVars(scene = "picker" /\ Choose!Timers)
  /\ WF_pickerVars(scene = "picker" /\ \E t \in asks : Choose!Answered(t))
  /\ WF_legacyVars(scene = "legacy" /\ (Legacy!OldPage \/ Legacy!Run))

--------------------------------------------------------------------------------
\* Properties: each part states its own, and they are asked here of the part that is used.

\* What is modal locks the page and nothing else does: one dialog at a time, an open drawer
\* only on a narrow screen, the page inert without a dialog only while one is on its way,
\* rows of locations that take no tap only while a campaign is being created.
ModalLocksThePage ==
  /\ Booking!OneDialog /\ Booking!DialogIsModal /\ Booking!NeverLockedOut
  /\ Shell!DrawerIsModal /\ Shell!PageIsFree /\ Start!ChooserIsFree

\* A how-to card is hidden from whoever hid it and from nobody else, and its buttons start
\* only what the server lets its reader do.
CardsAreForReaders == Tips!TipsAreRemembered /\ Tips!OfferedIsAllowed

\* What every reachable state is like.
PartsInv == TypeOK /\ ModalLocksThePage /\ CardsAreForReaders

\* What is sent is what the form showed as it was confirmed: a short form that suffices, a
\* lot of the item, rows of an import as they were reported, one campaign for one visit, a
\* user or location once.
SentIsShown ==
  /\ Booking!ShortFormSuffices /\ Booking!LotFitsItem
  /\ Import!ImportIsAsReported /\ Import!ReportIsOfInputs
  /\ Start!OneCampaign /\ Choose!ChosenOnce

\* What the page computes from what is typed is right: a barcode is taken that the server
\* takes, an amount is read in hundredths of its text, the arrow keys lead to every link.
ComputedRight == Codes!MirrorsTheServer /\ Codes!AmountIsRead /\ Keys!EveryLinkIsReached

\* However late it comes, a barcode's suggestion and the users found are used only for the
\* text they were asked for, and the lookup button tells what it will take.  The location
\* chooser takes up the newest search only: while a text is in its box the locations shown are
\* those of this text, though an emptied box may get the answer of the text before (see
\* TermIsShown there).
AnswersFitInputs ==
  /\ Lookup!SuggestionIsForBarcode /\ Start!NewestSearch
  /\ [](Lookup!ButtonTells /\ Choose!OfferedAreFound /\ Start!TypedIsFound)

\* The frame around the pages gets out of the user's way: a field that is typed into has the
\* keyboard's height below it, once the keyboard is closed nothing waits to be given back and
\* every host whose padding was noted right has it again; no submenu is left open without its
\* page, Escape leaves nothing open and the focus where the user can see it, a message has one
\* toast, which stays its full time since it was last announced, and an error's has its report
\* link, once; an old link ends where its anchor lives.
FrameIsKept ==
  /\ [](Pad!NothingToGiveBack /\ Pad!OwnPaddingIsGivenBack)
  /\ [](Pad!OneHostIsPadded /\ Pad!FieldHasRoom)
  /\ []Keys!NoEmptyExpand /\ Shell!EscapeKeepsFocus
  /\ Told!ToastsStay /\ [](Told!OneToastPerMessage /\ Told!LinkedOnce)
  /\ []Legacy!LinkIsKept

\* Every wait of a part ends, however its requests do: for a booking form, a check of an
\* import, a lookup, the creation of a campaign; the list of a search field that was left is
\* shut (though a search still under way may open it again); an old link is not sent round in
\* circles.
WaitsEnd ==
  /\ scene = "booking" => Booking!WaitEnds
  /\ scene = "import" => Import!CheckingEnds
  /\ scene = "lookup" => Lookup!LookupEnds
  /\ scene = "start" => Start!CreationEnds
  /\ scene = "picker" => Choose!LeftListShuts
  /\ scene = "legacy" => Legacy!LinksSettle
================================================================================
