# InventoryCheck in TLA+

InventoryCheck is a Nextcloud app: a stock ledger with items, locations, lots and serial
numbers, stocktakes, order sheets, kits, a scanning companion and a few interfaces to other
apps. It has two halves, and both are modelled here.

* **The server** is PHP without shared memory. Every HTTP call, cron job and `occ` command is a
  worker of its own; all they share is the database (MySQL/MariaDB, PostgreSQL or SQLite), and
  what keeps them apart is transactions, row locks and a few named locks. The modules are
  workers whose reads, locks and commits interleave, die and are repeated.
* **The browser** is `js/app.js` with six small scripts beside it. It has one thread, and every
  callback runs to its end; what interleaves are answers, timers, keys and clicks. The modules
  have one action for each callback, requests that are served and answered in any order or
  fail, and other clerks who write meanwhile.

Source paths below are relative to `src/lib/` for PHP and to `src/js/` for JavaScript.

## Inventory

| component | state | operations | talks to |
|---|---|---|---|
| movements (`Service/MovementService`, `MovementMath`, `AdjustSemantics`) | `iv_movements`, `iv_balances`, `iv_lots` | receive, issue, issueWithRef, adjust, transfer | item and location rows (locks), order sheets (same transaction), low-stock notification and webhook (after the commit) |
| item master data (`Service/ItemService`) | `iv_items`, incl. track mode and on-order marker | create, update, delete, markOnOrder(Bulk), clearOnOrder | balances, movements, stocktake lines (checks) |
| location master data (`Service/LocationService`) | `iv_locations` | create, update, delete | balances, movements, campaigns (checks) |
| row locks (`Db/RowLocking`) | the database's locks | shared and exclusive locking reads | everything above |
| stocktakes (`Service/CycleCountService`) | `iv_cc_camp`, `iv_cc_line` | create, startCounting, setCount, close | adjust of movements, locks of items, location and balances |
| companion scans (`Service/ScanIdempotencyService`, `Controller/MobileController::scan`) | `iv_scan_idem` | lookup, tryClaim, complete, release, releaseStalePending | movements; the companion, which repeats |
| order sheets (`Service/OrderSheetService`) | `iv_order_sheets`, `iv_order_sheet_lines` | create, replaceLines, send, cancel, applyReceive | called by receive inside its transaction |
| rebuild command (`Command/RebuildBalancesCommand`) | none of its own | recompute balances from the ledger | movements that run meanwhile |
| kits, stock issue facade, flange (`Service/KitService`, `Public/StockIssueFacade`, `Service/FlangeService`) | kits; movement refs | issue several items at once, replay by (refType, refId) | movements, invoice push |
| low-stock notification, invoice push, restock digest | `iv_notify_log`, `iv_invoice_push`, one setting | open/close an episode; push, retry | movements; other apps |
| quantity scale (`Service/QtyScaleService`) | one setting, every quantity column | one-way rescale by 1000 | everything that holds quantities |
| licence, seats, devices, pairing | `iv_license`, seats, devices | apply, assign, remove, pair, rate limit | companion calls, the licence page |
| codes and CSV import | codes of items and locations | unique over both under a named lock | item and location services, the import dialog |
| access control | groups, location ACL | who may call and sees what | everything |
| stocktake pages (`app.js`) | a campaign with its counters and pending saves, a chooser, one flag for "is being created" | load, page, autosave, start, close; choose, create, retry | cycle count calls |
| booking and import dialogs (`app.js`) | the stack of dialogs, the inert page, a form, a report | open, edit, confirm, change; check, import | movement, item and import calls |
| list, detail, movement, dashboard pages (`app.js`) | the render that is shown, its number, forms, lists, selections | search, filter, edit, switch, mark, print labels | item, location, movement, order sheet calls |
| settings and licence pages, pickers (`app.js`) | forms, field errors, disabled buttons, a few flags of the page, one pairing code | save a section, grants, categories, retry pushes; slots, seats | configuration and licence calls |
| product lookup (`common/product-lookup.js`) | a generation, a timer, a button | look up by hand or by itself, fill empty fields | the lookup call |
| shell (`common/mobile-nav.js`, `navigation.js`, `app-feedback.js`, `keep-focused-visible.js`, `settings-legacy-redirect.js`, toasts and how-to cards of `app.js`) | drawer, popover, focus, inert attributes, room for the keyboard, timers, hidden cards | keys, clicks, resizes, announcements, redirects | the page around it, `localStorage` |
| the rest: reports, exports, labels, photos on the server, product databases, backups, schema, templates, translations | files, settings | read-mostly | |

`PROJECT.json` lists each with its status and reason.

What is hard here, and what makes a component correct:

* **Reading before locking.** A movement peeks at the item to choose the strength of its
  lock; a clerk's status check, a stocktake's list of items and the age of a claim are read
  without a lock. Correct: what was decided is still true when it is written.
* **Several locks per transaction.** `RowLocking` states one order; kits, bulk marking and
  the facade nest transactions. Correct: nobody waits in a circle.
* **Derived state.** Balances are sums of movements, a sheet is received when its lines
  are, a marker is what is left of an order. Correct: they agree at every commit.
* **Repetition and death.** The companion repeats a call whose answer it lost; workers die
  between a ledger commit and the statement that records it; the rebuild command is killed.
  Correct: one booking, the right answer, and nobody stuck.
* **Late answers.** A page asks again before it was answered; renders, searches, checks and
  lookups overtake each other, and each part has its own way to tell old from new: a number,
  the text in the box, a generation, or nothing. Correct: what is shown is of the newest request
  and of what the form says.
* **Snapshots.** Forms and counters come from an answer that may be old: a close is asked to
  accept what the page had counted, a save may bring back what another clerk changed. Correct:
  consent was given to what happens, and a save changes only what its user changed.
* **Modes.** Dialog, drawer, popover and on-screen keyboard share focus, Escape, `inert` and
  the page's padding. Correct: what is left gives back what it took.

## Modules

```
server
  LedgerRules      what a call may do: checks and effects as operators
    AtomicLedger     abstract: every call is one step
    StockLedger      the transactions with their locks; implements AtomicLedger
      MCStockLedger, StockLedgerProofs
  CycleCount       stocktakes against movements and master data     MCCycleCount, CycleCountProofs
  ScanIdempotency  claims of one scan key                           ScanIdempotencyProofs
  OrderSheets      sheets, clerks and receives                      MCOrderSheets, OrderSheetsProofs
  LedgerRebuild    the repair command                               MCLedgerRebuild, LedgerRebuildProofs
  LockOrder        row locks with their queues                      LockOrderProofs
    LockPlans        the lock sequences of the code, instances included
browser
  LatestAnswer     abstract: only the newest request is taken up, and it is
  StocktakePage    the count screen                                 MCStocktakePage, WebPagesProofs
  WebPages         one page at a time                               MCWebPages, WebPagesProofs
    MovementsPage (implements LatestAnswer), MasterList (implements LatestAnswer),
    DetailPage, Dashboard, SettingsPage, LicensePage
  WebParts         one part of a page at a time                     MCWebParts, WebPartsProofs
    BookingDialogs, ImportDialog, ProductLookup, StocktakeStart (implements LatestAnswer),
    Picker, TypedCodes, ShellNav, NavKeys, KeyboardPad, Toasts, LegacyLinks, HowTo
```

### The server

**LedgerRules, AtomicLedger, StockLedger.** A request of `StockLedger` is one HTTP call.
`StartMovement` makes the checks before the transaction and the unlocked peek; `LockItem`,
`LockLocation` and `LockBalance` take one lock each in the code's order and keep what they
read in `row` and `seen`; `Check` is the arithmetic and the serial capacity query; `Commit`
writes movement rows, balances, marker and lot expiry. `StartMaster`, `LockMaster`, `Decide`
and `WriteMaster` are updates and deletes of items and locations and the on-order marker.
`Rollback` is any error or death in between. Writes are one step at the commit because READ
COMMITTED shows them to nobody before; the rows they touch are locked until then.
`AtomicLedger` is what the clients are promised: each call takes effect at one moment, with
all its checks against the tables as they are then, or is refused. `StockLedger!AtomicSpec`
is that specification with each request's answer read off its `pc`.

**CycleCount.** Workers run create, close, deactivations and deletes step by step;
movements, startCounting and setCount are one step each, movements because of `AtomicSpec`,
the other two because they hold the campaign's lock from their only read to their write. One location, as a
campaign touches no other; lot and serial items are both "lot", as both are left out of
stocktakes.

**ScanIdempotency.** The requests that carry one key. The claim row's statements commit by
themselves, so each is a step, and so is the ledger's commit (`Book`). `Lose` is a worker's
death or a lost answer, after which the companion sends again; `Tick` ages a pending claim.
`takenOver` is a history variable, set when `releaseStalePending` has deleted a claim: the
promises that rest on a claim having one owner are made until then.

**OrderSheets.** A clerk's reads and its one write are steps without any lock between them;
a receive's updates lock their lines and sheets and become visible when it commits. The receives book at different
locations, so the movement locks do not serialise them. A receive looks at `OpenLimit` open rows of its item at most
(`openSheetIdsForItem`), any of them. `raced` is a history variable: the sheets that a clerk wrote although another clerk
had, since he read them (`current`). Two clerks can do that, so what the two properties of approval and of sent lines
promise is promised of the other sheets.

**LedgerRebuild.** The command's statements, with a kill between any two, and movements when
it is forced. The list of balances has a limit (`RowLimit`, 100000 rows in the code); `cut` is a history variable, the pairs
without movements that it left out. Local variables the command has no more use for are reset.

**LockOrder, LockPlans.** A transaction is the sequence of its row locks. `Queued` gives the
locks a first-come-first-served queue per row, as InnoDB has; `LockPlans` has a plan for each
kind of transaction, with rows numbered in the protocol's order, and the sets of plans that are run.

How they fit together: `StockLedger` shows that movements and master data calls are atomic
at their commit; `CycleCount` and `LedgerRebuild` use that and take a movement as one step;
`OrderSheets` takes up the lines `StockLedger` leaves out; `LockOrder` asks of all lock
sequences together what `StockLedger!NoLockCycle` asks of two kinds.

### The browser

A request goes through `st`: "sent" until the server has served it (one step, which is what the
server's modules justify), "ok" until its callback runs. Either may fail instead, the latter a
lost answer: the server has done it and the page does not know. What the server holds is a
variable of the module, and so are the form fields that differ from it. A callback with all it
calls is one action, named for the function or the handler it is in.

**StocktakePage.** The campaign as the page holds it (`camp`) beside the counts and movements
of the server. `Autosave`, the save of a page of lines, `ClickClose`, `ConfirmClose` and their
answers move both; `consent` is a history variable that keeps what the dialog had named when
it was confirmed. A promise of the server (`CycleCount!CloseHasConsent`) is asked again here of
the person: the query parameters of a close were accepted by somebody who had read them.

**MovementsPage, MasterList, StocktakeStart** number their renders or searches; each states that
it implements `LatestAnswer` (`NewestIsShown`, `NewestList`, `NewestSearch`). `MasterList` has
several closures alive at once (`views`), because a render does not stop the timers of the one
before. **DetailPage** has no numbers: every answer paints. **Dashboard** renders in two
answers, and lists of sheets below them that are appended. **SettingsPage** has a form of
each section, the marks of fields (`errors`, as against `wrong`, the fields that are), and the
flags the page itself keeps; **LicensePage** the panel with a pairing code, the lists the
renders draw, and the confirmation, which keeps the render it was opened in (`asked.view`) while the page
may be drawn anew behind it. A pairing code is used by a scanner (`Pair`) or its day is over (`Expire`).

**BookingDialogs** is `dialog()` with what locks the page (`inert`, `locked`, `opening`) and the
form of `openMovementDialog`, short or full. **ImportDialog** has the text, its checks by
timer, by file and by the confirm button, and the commit. **ProductLookup**, **Picker**: the
field, its timer, the requests. **TypedCodes**: check digit and amounts, computed as the code does.

**ShellNav, NavKeys, KeyboardPad, Toasts, LegacyLinks, HowTo**: the frame. `ShellNav` has the order
in which three Escape handlers run and the page that is inert from the moment a booking form is asked for, `NavKeys` the list of links the arrow keys go through,
`KeyboardPad` the one host that is padded and the attribute in which its own padding is kept,
`HowTo` who may press what a card offers and what the browser remembers for whom.

`WebPages` and `WebParts` compose them: `scene` names the page the server's frame asked for, or
the part in use, its script alone runs, and all others stay where they began. That is what
happens: a page is loaded anew whenever another is opened, and the parts share nothing but what a
module of theirs names (the frame's parts that do share focus and `inert` are one module,
`ShellNav`). Composing them keeps one instance of each and lets one run ask one question of all.

## Runs

| run | question | bounds |
|---|---|---|
| `ledger_calls` | balances equal the ledger, never negative, nothing posted to or left on what is retired, serials, expiries and markers, no lock cycle, each call atomic; the invariant of the proofs | 3 requests of 25 calls, 1 item of any track mode, 2 locations, 1 lot, 2 expiries |
| `ledger_upgrade` | *violated*: serial uniqueness after a lot → serial upgrade | 3 requests, 2 lots |
| `count_close` | a campaign and its close against movements, counts, and whatever happens to its items and location | 2 workers, 2 items, 1 campaign |
| `scan_key` | one booking and fitting answers until a takeover; booked answers, done claims and an answer for everyone in any case | 3 requests, 2 payloads, 2 losses, claims fresh to stale, fair |
| `sheets_office` | two clerks edit, send and cancel while two receives cover: what evades approval or changes sent lines | 1 sheet, 2 items, 3 lines ever, 1 open row looked at |
| `sheets_received` | *violated*: a sheet whose lines are covered is received | 1 sheet, 2 lines, 1 clerk, 2 receives |
| `sheets_sent` | *violated*: the lines of a sent sheet stay | 2 sheets, 3 lines, 2 clerks, 1 receive |
| `rebuild_live` | repair, killed anywhere, beside movements, and of a table longer than its list | 2 items, 2 locations, 3 rows listed, quantities 0 and 1 |
| `locks_ordered` | no circle of waits among the plans in the order, nobody overtaken for ever | 3 workers, 10 plans, queues, fair |
| `stocktake_page` | consent to what a close does, the saves a close waits for, the end of "starting" | 3 lines on 2 pages, 2 requests at once, fair |
| `web_pages` | pages are true when all is answered, newest results, what was left untouched is kept, waits end | see `MCWebPages`; fair |
| `web_parts` | what is sent is what was shown, answers fit their inputs, the frame keeps out of the way, codes and amounts are read right, waits end | see `MCWebParts`; fair |

Properties that the code does not have are stated in the modules without a run; the table of the section after next
names them. Each is refuted by TLC with the constants of the run of its module: `CycleCount!RunningKeepsItems`
those of `count_close`, `ScanIdempotency!OnlyStaleIsDropped` those of `scan_key`,
`LedgerRebuild!NothingDrifts` and `AllIsRepaired` those of `rebuild_live`, `OrderSheets!SendsAreApproved` those of `sheets_sent`,
`StocktakePage!CloseWaitsForAll` those of `stocktake_page`, `LockOrder!NoLockCycle` those of
`locks_ordered` with two workers and `Plans <- NestedPlans`, and those of the pages and parts those of
`MCWebPages` and `MCWebParts`.

Why the bounds are enough. Lost updates, stale reads and lock cycles of this code need two
parties, or two and a history before them, and three requests give both: a receive and two
calls that race over what it brought. Two locations make a transfer and its opposite; two
items are needed only where a transaction locks two (`count_close`, `locks_ordered`), where a sheet
has two lines, and in the rebuild, whose unit is the item. Two clerks are what a race for one sheet takes; one
receive that finds more open rows than it looks at (`OpenLimit`) and one list shorter than its table (`RowLimit`) are
what the code's limits of 50 and 100000 rows come to. A campaign touches nothing of
another campaign but balances, which movements change as freely. Quantities are 0 to 2 against
limits of 2, so each limit is reached, exceeded by one and covered in one and in two steps.
In the browser an answer is late in relation to one other request, so two of a kind overlap
everywhere, three where a render may be overtaken twice (`MovementsPage`) or a lookup by a second
of the same barcode (`ProductLookup`). Two values of a field tell a stale one from a fresh one, and a
third is one the server refuses. Lists have two entries, of which a search finds one.

The named bounds: balances of movements (`BalanceMax`, `BalanceCap`, `Most`, `MaxMoved`), lines ever inserted
(`MaxLines`), quantities ordered and received (`Ordered`, `Received`, values out of range included), losses (`MaxLosses`), the age of a claim (`MaxAge`) and the count of bookings
(`BookCap`); renders (`MaxSeq`, `MaxTurns`, `MaxViews`, `MaxRenders`), requests (`MaxLoads`, `MaxCalls`,
`MaxTasks`, `MaxRuns`, `MaxLookups`, `MaxPosts`, `MaxSearch`, `MaxAsks`), sheets (`MaxSheets`), pairing codes (`MaxCodes`),
characters (`MaxText`), cards hidden (`MaxHidden`). A callback that would send one more than its bound
is not enabled; that leaves its request unanswered at the end of a bounded run, so properties of what is
shown "once all is answered" ask for no request under way.

Deadlock is checked by `ledger_calls`, `scan_key`, `sheets_office`, `rebuild_live`, `locks_ordered` and
`stocktake_page`. In `count_close`, once the location and the items
are deleted and no campaign runs, nothing more is possible; in the web runs a page that was left, or whose
bounded requests are used up, stops. `ledger_calls` has requests that are
interchangeable, and so have `count_close` and `sheets_office`: they use symmetry, and check no liveness.

The initial states are an app just installed, with items and locations created; only
`LedgerRebuild` starts with any balances and any ledger, as that is what the command is for. A page
starts as its script is called, with whatever the server holds.

### What the grouped properties consist of

A web run asks each property of all pages or parts together. Each conjunct was tried against a wrong version of the code of
its own, kept in the modules beside the definition it would replace, under "Broken variant". (A variant of one definition is
a mutant in `PROJECT.json`; the others are checked the same way by hand.)

| property | conjunct | refuted by |
|---|---|---|
| `PagesInv` | `List!OwnChangesListed` | `WriteAcceptedQuietly` (MasterList) |
| | `Detail!QuietPageIsTrue` | `WriteAcceptedQuietly` (DetailPage) |
| | `Dash!OpenSheetsShown`, `MarkersAreTrue` | `SheetsLeft`, `MarkAcceptedQuietly` |
| | `Settings!SavedIsStored`, `SavedIsUnmarked` | `SaveUnguarded`, `NotCleared` |
| | `Settings!FlagsAreStored`, `ListsAreTrue` | `LookupSavedOnly`, `GrantsSaid` |
| | `License!ShownCodeWorks`, `ListsAreCurrent` | `PaintKeepingCode`, `RenderAnewForSeats` |
| `NewestIsShown` | `Movements!NewestIsShown`, `KindAndDatesAreTold` | `IsNewestOrNot`, `StaleFilters` |
| | `List!NewestList`, `TextIsApplied`, `LabelsAreTicked` | `IsNewestOrNot`, `TypeUntimed`, `RowsUnticked` |
| `UntouchedIsKept` | `Detail!ShownFieldsAreKept` | `WriteAcceptedQuietly` (DetailPage) |
| | `Settings!StrictIsChosen` | `AssignmentsOnly` |
| `WaitsEnd` (pages) | `Movements!ShownInTheEnd`, `ResultsBusyEnds` | `IsNewerStill`, `PaintResultsBusy` |
| | `List!ListShownInTheEnd` | `IsNewestButOne` |
| | `Detail!DetailBusyEnds`, `Dash!DashBusyEnds` | `LoadFailsWaiting`, `RenderFailsBusy` |
| | `Settings!SaveButtonReturns` | `SaveFailsDisabled` |
| `PartsInv` | `Booking!NeverLockedOut`, `OneDialog`, `DialogIsModal` | `FreedButLocked`, `MastersFailInert`, `ShowOver` |
| | `Shell!DrawerIsModal`, `PageIsFree` | `ViewportIgnored`, `CloseDrawerInert`, `DialogFailsInert` |
| | `Start!ChooserIsFree` | `CreateFailsBusy` |
| | `Tips!TipsAreRemembered`, `OfferedIsAllowed` | `HiddenForAll`, `HideForNow`, `OneDashboardCard`; `ListCardForOffice` |
| `SentIsShown` | `Booking!ShortFormSuffices`, `LotFitsItem` | `ConfirmOnlyUnscanned`, `ChosenSilently` |
| | `Import!ImportIsAsReported`, `ReportIsOfInputs` | `CheckedSome`, `ChooseUnchecked` |
| | `Start!OneCampaign`, `Choose!ChosenOnce` | `SendUnmarked`, `AddedTwice` |
| `AnswersFitInputs` | `Lookup!SuggestionIsForBarcode`, `ButtonTells` | `IsOldResponse`, `OverUnsynced` |
| | `Start!NewestSearch`, `TypedIsFound` | `IsAnySearch` |
| | `Choose!OfferedAreFound` | `StillAnyText` |
| `ComputedRight` | `Codes!MirrorsTheServer`, `AmountIsRead` | `HasValidCheckDigitTen`, `ParseUnpadded` |
| | `Keys!EveryLinkIsReached` | `TargetStill` |
| `FrameIsKept` | `Pad!NothingToGiveBack`, `OwnPaddingIsGivenBack` | `NoRoomForgetting`, `GiveBackNothing` |
| | `Pad!OneHostIsPadded`, `FieldHasRoom` | `RoomWithoutRestoring`, `FocusUnrevealed` |
| | `Keys!NoEmptyExpand` | `ToggleSubmenuOnly` |
| | `Shell!EscapeKeepsFocus` | `EscapeUnordered` |
| | `Told!ToastsStay`, `OneToastPerMessage`, `LinkedOnce` | `ToastKeepingTimer`, `ToastStacked`, `ObserveNothing` |
| | `Legacy!LinkIsKept` | `RunWithoutFragment` |
| `WaitsEnd` (parts) | `Booking!WaitEnds`, `Start!CreationEnds` | `MastersFailInert`, `CreateFailsMarked` |
| | `Import!CheckingEnds`, `Lookup!LookupEnds` | `RunFailsQuietly`, `OverUnlessStale` |
| | `Choose!LeftListShuts` | `BlurTimerOnly` |
| | `Legacy!LinksSettle` | `TargetAnywhere` |

The server's groups: `LedgerInv` is the types and what the locks and reads promise; `CountInv` the types and
`RunningKeepsLocation`; `CloseHasConsent` says that a close overwrites a movement or abandons a line only if its
call said so; `SheetsInv` the types and `CoverIsExact`; `RebuildInv` the types and `ItemsAreWhole`; `PageInv` the
types, `PendingIsExact` and `CountedIsOnServer`.

### Fairness

* `ScanIdempotency!FairSpec`: the clock ticks and each request's worker or companion goes on,
  weakly: a PHP worker runs without pause, the companion keeps trying. Losses are not fair and finitely many.
* `LockOrder!FairSpec`: each worker's transaction goes on, weakly: the database grants a lock that
  conflicts with nobody. Beginning and rolling back are not fair. Without queues (`CanGrantOvertaking`) this is not enough, which is what the queues are for.
* `StocktakePage!FairSpec`, `WebPages!PagesSpec`, `WebParts!PartsSpec`: a request is answered or
  fails (`api()` rejects on a network error, so one of both does happen), a timer that was set fires. The user, other clerks and the server's choice
  between success and failure are never fair: whatever must end must end with a user who does nothing and with requests that fail.

## Where code and words differ

Each `violation` run is a finding in `PROJECT.json`, with the sentence it contradicts:

1. **Serial numbers after an upgrade** (`ItemService:768`). Only the sum of a balance must be
   zero for lot → serial; lots that net to +2 and −2 pass, and the first is a serial held twice.
2. **A covered sheet stays sent** (`OrderSheetService:325`). Two receives that cover a sheet's
   last lines do not see each other's line.
3. **The lines of a sent sheet are replaced** (`OrderSheetService:139`). `replaceLines` checks for a draft on a sheet it
   read without a lock; when another clerk's send comes between, it deletes the lines of the sent sheet and inserts new
   ones. "Sent sheets are immutable snapshots" (126). What remains true is `OnlyRacesTouchSent`: nothing else does it.

More is shown by properties without a run:

| where | what | refuted |
|---|---|---|
| `CycleCountService:143` | create reads its items unlocked, so an item may be deactivated that a running campaign counts, although `CycleLineMapper.php:133` blocks it | `CycleCount!RunningKeepsItems` |
| `ScanIdempotencyService:203` | the age of a claim is read, then whatever pending row the key has is deleted: a fresh one too | `ScanIdempotency!OnlyStaleIsDropped` |
| `RebuildBalancesCommand:48` | the forced command overwrites a movement committed after it read the sums | `LedgerRebuild!NothingDrifts` |
| `RebuildBalancesCommand:59` | the list of balances has 100000 rows; a balance beyond them that no movement explains stays, and "No drift." may be said of it | `LedgerRebuild!AllIsRepaired` |
| `OrderSheetService:208`, `236` | the approval threshold is asked of a total and the budget of lines read without a lock; another clerk's replacement between them and the send is asked of neither | `OrderSheets!SendsAreApproved` |
| `app.js:3034` | the comment at 3048 takes confirming "after a dry-run that listed errors" for consent to skip rows; when the text was changed just before, the button runs that check itself and commits on its answer, and the list of errors was never on the screen | `ImportDialog!SkipIsConsented` |
| `app.js:7043`, `7232` | a close waits until "still saving" is over, but not for the rest of a count-as-system of which one count failed (`Promise.all`), nor for counts typed before the last paint | `StocktakePage!CloseWaitsForAll` |
| `app.js:3463` | the edit dialog sends all its fields: one that another clerk changed meanwhile, and the user did not, is taken back | `DetailPage!OthersFieldsAreKept` |
| `app.js:4123`, `4196` | a full render marks the whole movements page busy; the render with the form as it is that overtakes it unmarks the results only | `MovementsPage!MountBusyEnds` |
| `KitService:63` | a kit's second item is locked after the first one's location and balance, in the order of the kit's lines, out of the order of `RowLocking.php:12` | `LockOrder!NoLockCycle` with `NestedPlans` |
| `keep-focused-visible.js:456` | a host without a padding of its own keeps "" in the attribute, which reads as none kept; the second reveal keeps the keyboard's room as the host's own, and it stays | `KeyboardPad!NoStickyPadding` |
| `app.js:6164`, `6181` | a category's bad amount is marked, then `applyFieldErrors` clears all marks and sets those of the two named fields only | `SettingsPage!WrongIsMarked` |
| `app.js:1949` | two renders of the order sheets each append a list | `Dashboard!SheetsListedOnce` |
| `app.js:3212` | an empty item list returns before the page stops being busy | `MasterList!ListBusyEnds` |
| `app.js:6511` | an answer to a search that was emptied replaces the list | `StocktakeStart!TermIsShown` |

And without a property: take `takenOver` out of
`AtMostOnce` and `AnswerFitsPayload` and TLC finds a key booked twice by a worker slower than
the stale limit, and a replay of another payload's booking, as `complete` (157) writes the row
whoever claimed it. A cancel (304) that read a sent sheet turns a received one into a
cancelled one. One receive spends its whole quantity on every sheet, in no order (316). Plans
`MarkOnOrderBulk(<<1, 2>>)` and `MarkOnOrderBulk(<<2, 1>>)` (`ItemService:602`) wait for each
other, and so do, with queues, `FacadeIssue({1, 2}, 1)` (`StockIssueFacade:207`),
`Movement(2, {1}, TRUE)` and `LocationCall(1)`. A booking dialog that is left while its request is under way
(`app.js:2776`, 1528) lets the same movement be posted again from the next form. A Regenerate confirmation
that outlives the render it was opened in (`app.js:5955`) shows its one-time code, and refreshes lists, in panels that
are no longer on the page; take `asked.view = render` out of `LicensePage!Confirm` and `PagesInv` is refuted. Adding or removing a
restock category (`app.js:6129`) renders from the server and loses the change with all that was typed. Amounts of up to
nine digits before the point are 10^11 hundredths, not "well below 2^31" (`money-input.js:14`).

## Proofs

TLAPS checks what follows for any number of requests, workers, items, locations, sheets, quantities and
calls. Each inductive invariant was checked by TLC before it was proved; the strengthenings are not there for
the prover's sake but because the property alone says nothing of what a transaction has read and not yet used.

* `StockLedgerProofs`. `LedgerInv` is inductive: the locks held are compatible
  (`LocksCompatible`, `OwnLocks`), and what a request has read or checked under its locks is
  still so (`MovementReads`, `MovementChecked`, `MasterReads`). `BalanceIsLedger` and the
  rest say nothing of `seen` and `row`, so they are not inductive: a commit computes from
  `seen`, and only the invariant says that `seen` is the balance. From it follow types, balances as ledger sums, no negative stock, empty and
  undeletable masters, posting only while active, markers and expiries. Three of these are no longer asked of a run,
  because they are proved and follow from what is: `RetiredHoldsNoStock`, `RowsHaveMasters`, `ReceiptsAgreeOnExpiry`.
  `NeverDeadlocks`: the row a request waits for comes, by kind and place, before every row it may still come to want, and after all it
  holds, so whoever is waited for waits for something later, and the last waiter of a finite circle waits for nobody in it.
  `Serializable`: `StockLedger` implements `AtomicLedger`. The commit of a call, and the decision of a master
  data call, is the abstract step, with the checks made over many states holding all together in that one; every other step is a stutter. What makes it so are
  the conjuncts of `LedgerInv` above, which say that nobody changed a table behind a lock.
  `SerialsAreUnique`: a serial number is in stock once, however receipts, transfers and counts of it race. A posting of a serial item
  looks for its stock under the exclusive lock of the item's row, and what it saw is still so when it commits (`MovementChecked`); the sum of a lot's
  movements grows by what a commit appends to it, a fact about folds over finite sets that is proved from their definition. It has a hypothesis:
  no update makes an item a serial item while one of its codes is in stock twice (`UpgradesFindNoDuplicate`), because that is the one check
  `ItemService::update` leaves out, as `ledger_upgrade` shows. The proof shows that it is the only one. `SerialsWithoutUpgrades` has the hypothesis
  of the calls alone: none upgrades an item to serial tracking.
* `CycleCountProofs`. `IInv` adds to `CountInv` what each worker knows between its lock and its commit: a
  close that is posting holds its campaign, items, location and balance, and what it read there is still so (`CloseHolds`, `ItemsHeld`,
  `BalancesHeld`, `MasterHolds`, `CreateHolds`). A close posts the counts, finds its masters usable, overwrites and abandons only what its
  call agreed to, and is final. `RunningKeepsItems` cannot be had from it: create holds no lock on the items it lists.
* `OrderSheetsProofs`, for any number of clerks and receives. `Orderly`: a line never exceeds its order, the receives' sums
  are spent as they were booked, and what a clerk has read is still so while his reading is current (`ReadHolds`), but for a sheet
  that was received meanwhile. From it `SheetsInv`, `ReceivedIsCovered`, `OnlyRacesEvadeApproval` and `OnlyRacesTouchSent`. The
  handlers decide on what they read without a lock, and TLC refutes `SendsAreApproved` and `SentLinesAreFixed` with two clerks; the
  theorems say that a write on an out-of-date reading is the one way to it, and `OneClerkNeverRaces` that one clerk never writes so.
  That a finite sum changes by what one of its terms does is shown from the definition of the fold with the least set that would refute it, as
  the library's induction theorem is out of reach.
* `LedgerRebuildProofs`. `IInv` says how far the command got (`Progress`): the rows it has
  passed equal the ledger, the sums in its memory are those of the ledger (`TotalsHold`), what it has counted as drift is drift (`DriftTells`). Under `~Forced`
  nothing moves while it works, so it may be killed at any statement (`ItemsAreWhole`), and when it says it is done all is repaired but `cut`, which has no
  movements and came after the rows it lists (`CutTells`). Forced, `NothingDrifts` is refuted.
* `WebPagesProofs`, the count screen. The messages under way say what is true or was true (`Delivered`), and a dialog that asks for consent
  shows the counters of its page (`DialogHoldsCounts`). From it `PageInv`, that a close overwrites and abandons only what the person was shown, and that it waits for the
  counts typed since the last paint.
* `ScanIdempotencyProofs`. In any case: types, answers are booked, done claims stay. Until a takeover
  has deleted a claim: a claim belongs to the one request between its insert and its end
  (`OwnerInv`), so there is at most one booking and every answer fits its payload, however old
  the claims are and whoever died. That a dead worker's booking keeps its claim is what
  makes it so: `claim.status = "missing"` implies `bookings = 0`.
* `WebPagesProofs`, the other pages. `PagesKept` has one invariant for each page, which says what requests under way bring or will
  write. Movements: of the newest number there is one render, and it asks for what the form says (`MovesInv`). Lists: what was served for the newest
  load of the last render is what the server holds, unless a change is under way or its answer was lost, and renders are left for the
  changes that may still be told (`ListInv`). The page of an item or location, the dashboard, the settings and the licence promise what they show only while
  requests do not overlap in a way the code does not sort out (`clean`, `calm`, `apart`, `serial`). There the
  invariants say that the request in question is the sole one and what it meets: the row an answer brings (`DetailInv`),
  a list of sheets that is current or asked for (`DashInv`), the form a save was sent from (`SettingsInv`), the lists and the code of the
  render on the screen (`LicenseInv`). From these follow `PagesInv`, `NewestIsShown` (the movements page and the
  lists implement `LatestAnswer`, step by step) and `UntouchedIsKept`: a user who works alone, with one request at a time, sends a
  form that says what the server holds. The proof of `LicenseInv` failed at first, and rightly: the model took
  every confirmation for one of the render on the screen. It now keeps the render it was opened in, as the closure in the code does.
* `WebPartsProofs`. `PartsKept` has one invariant for each part, of which the properties say too little to be kept by themselves.
  Booking dialogs: what makes the page inert without a dialog is one on its way, and a form on its way has nothing filled in yet
  (`BookingInv`). Import: what a running check brings is of the text it was started with, and reports are of checks (`ImportInv`). A new
  stocktake: one creation is under way at most, and the campaigns made are those lost and that one (`MakingInv`); searches are numbered up to the newest
  (`ChooserInv`). Pickers: the options that are shown were found for a text of the box (`OptionsInv`), nobody is chosen twice
  (`ChipsInv`). The shell: drawer, dialog and `inert` agree on every screen, the screen and the drawer only once a change has been told
  (`ShellInv`). Toasts: what is left of a timer and what has passed make up the whole time (`ToastTimes`). Old links: on its way a link is where it
  was asked for or where its anchor lives (`LegacyInv`). How-to cards: the browser's keys are those of hidden cards, and a key tells its card
  (`OneCardOneKey`), the role included where roles are taught different tasks (`TipInv`). The keyboard's room: the padding of a
  host is its own, the keyboard's or, where it was noted wrong (`mistaken`), one that stays. From these follow `PartsInv`, `SentIsShown`, `AnswersFitInputs` (the location chooser implements
  `LatestAnswer`) and `FrameIsKept`. One proof failed for a reason: `NoEmptyExpand` needs a submenu with a link in it, which
  `navigation.php:135` sees to; `NavKeys` assumes it now.
* `LockOrderProofs`. If every plan is in order (`AllInOrder`) no set of transactions waits in a
  circle, queues included: in a circle take the one that waits for the greatest row; whoever it
  waits for holds that row or is queued before it on it, and so waits for a greater one or, on
  the same row, began to wait earlier.

The assumptions of the theorems are the `ASSUME`s of the modules: ids are natural numbers,
limits too, there is at least one sheet and one item, and the sets of requests, workers, lines, items, locations (of the rebuild) and list entries are finite where a sum, a count or a maximum is taken;
settings have a value the server accepts, and "not saved" and "nothing yet" are none of them.
Three hypotheses come with single theorems: `~Forced` (the maintenance the command's own message asks for), that there is one clerk
(`OneClerkNeverRaces` only), and that upgrades find no duplicate. Each is where TLC refutes the property without it.

Only model-checked:

* liveness (`EveryoneIsSettled`, `EveryoneGetsThrough`, `StartingEnds`, `WaitsEnd`), which the prover cannot treat;
* `ComputedRight`, the check digit, the amounts and the links the arrow keys reach: what a fold over typed digits or links computes, for
  every input, needs induction over data. They are checked for all barcodes of eight digits out of three, and amounts of up to four characters out of five.

## Not modelled

On the server: refs, reason codes, prices, spend and all text; access control (the calls modelled are those
of users who may make them, except where `HowTo` asks what a card offers to whom); the isolation anomalies of a database beyond READ COMMITTED with
row locks; lock modes of duplicate inserts (`ensureZeroRow`, `upsertForReceive`); rows of claims older than the payload
fingerprint; the HTTP controllers but for `MobileController::scan` (they parse parameters and
format the answer of one service call). One thing no model is needed for:
`MovementService::dispatchWebhook` (679) looks for an entry `movement` that no result has, so the webhook is never called.

In the browser: how elements look and how far a page scrolls; helpers that format a date, a quantity or
a label; the wording of messages and of the report mail; the stripping of query parameters from links; the address of a
page as such. `SettingsPage` has one administrator in one tab, and leaves the server's own retry job aside.
The twelve tables of translations (`src/l10n/*.js`) and `src/playwright.config.js` hold no behaviour; they are four
fifths of the JavaScript lines that no definition is mapped to.

## Plan

Done: StockLedger with AtomicLedger and its proofs, CycleCount,
ScanIdempotency, OrderSheets, LockOrder, LedgerRebuild; then the browser, page by page and part by part.

Every safety property of a run that passes is a theorem, but for `ComputedRight`; what a module added to this list would need is its own.

Modules still missing, most important first:

1. **StockIssue**: the facade, FlangeService and the unique index of (refType, refId, item):
   replay after a lost race; abstractly, an issue of a ref takes effect once.
2. **InvoicePush**: the outbox row, the retry job, a manual retry and a receiver that drops repeats.
3. **QtyScale**: the rescale with movements, markers and sheets under way.
4. **LowStockNotify**: episodes and debounce around unlocked reads of balances that move.
5. **Codes**: codes unique over items and locations, the codes lock, CSV import and
   createItem in two transactions.
6. **Licensing**: the server's side of seats, devices, pairing and its rate limit.
7. **Restock**: suggestion and budget rules as operators against a reference definition;
   **Access**: location visibility.
