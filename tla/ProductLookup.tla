----------------------------- MODULE ProductLookup -----------------------------
\* The lookup panel of the item dialog (src/js/common/product-lookup.js): a barcode is sent
\* to a product database, and what that suggests fills the fields that are empty.
EXTENDS Integers, FiniteSets
CONSTANTS
  Gtins,       \* barcodes with a check digit that fits (GtinCode)
  OtherCodes,  \* what else may stand in the scan field; "" is nothing
  Typed,       \* a text of the user's own
  MaxLookups   \* bounds the lookups

LookupAssumption == /\ "" \in OtherCodes /\ Gtins \cap OtherCodes = {}
                    /\ Typed \notin Gtins /\ MaxLookups \in Nat

VARIABLES
  autofire,    \* the administrator's setting
  open,        \* the dialog is on the page
  scan,        \* the scan field
  name, sku,   \* "", Typed, or the barcode whose suggestion filled the field
  due,         \* the debounce timer is set
  generation, inFlight,
  lookups,     \* lookups under way
  ready,       \* the lookup button takes a press
  status,      \* the status line
  looked       \* the barcode of the newest lookup

lookupVars ==
  <<autofire, open, scan, name, sku, due, generation, inFlight, lookups, ready, status, looked>>
fields == <<autofire, open, name, sku>>

IsGtin == scan \in Gtins
Sources == {"", Typed} \cup Gtins

\* A lookup under way has one of the numbers given so far and asks for a barcode.
TypeOK ==
  /\ {autofire, open, due, inFlight, ready} \subseteq BOOLEAN
  /\ scan \in Gtins \cup OtherCodes /\ {name, sku} \subseteq Sources
  /\ generation \in 0..MaxLookups /\ looked \in Gtins \cup {""}
  /\ \A l \in lookups : l.gen \in 1..generation /\ l.code \in Gtins
  /\ status \in {"scan a barcode", "not a barcode", "searching", "applied", "nothing found",
                 "unavailable"}

LookupInit ==
  /\ autofire \in BOOLEAN /\ open = TRUE
  /\ scan = "" /\ name \in {"", Typed} /\ sku \in {"", Typed}
  /\ due = FALSE /\ generation = 0 /\ inFlight = FALSE /\ lookups = {}
  /\ ready = FALSE /\ status = "scan a barcode" /\ looked = ""

--------------------------------------------------------------------------------
\* syncLinks, of the field as it is and a lookup under way or not.  A barcode leaves the
\* status line alone.
StatusOf(code, other) == IF code \in Gtins THEN other
                         ELSE IF code = "" THEN "scan a barcode" ELSE "not a barcode"
Synced(code, busy) == /\ ready' = (code \in Gtins /\ ~busy)
                      /\ status' = StatusOf(code, status)

Started == /\ generation' = generation + 1
           /\ inFlight' = TRUE /\ ready' = FALSE /\ status' = "searching"
           /\ lookups' = lookups \cup {[gen |-> generation + 1, code |-> scan]}
           /\ looked' = scan
Resting == UNCHANGED <<generation, inFlight, lookups, looked>>

\* runLookup; a dialog that is gone asks nothing.
RunLookup ==
  IF ~IsGtin THEN Resting /\ Synced(scan, inFlight)
  ELSE IF ~open THEN Resting /\ UNCHANGED <<ready, status>>
  ELSE generation < MaxLookups /\ Started

\* A key: links, and the timer when lookups start by themselves.
Scan(code) ==
  /\ open /\ code # scan
  /\ scan' = code /\ due' = (due \/ autofire)
  /\ Synced(code, inFlight) /\ Resting
  /\ UNCHANGED fields

TimerFires == /\ due /\ due' = FALSE
              /\ RunLookup
              /\ UNCHANGED <<fields, scan>>

\* The field is left (change): the lookup starts at once, the timer stays.
Leave == /\ open /\ autofire
         /\ RunLookup
         /\ UNCHANGED <<fields, scan, due>>

Press == /\ open /\ ready
         /\ RunLookup
         /\ UNCHANGED <<fields, scan, due>>

TypeName(text) == /\ open /\ name' = text /\ name # text
                  /\ UNCHANGED <<autofire, open, sku, scan, due, ready, status>> /\ Resting

Close == /\ open /\ open' = FALSE
         /\ UNCHANGED <<autofire, name, sku, scan, due, ready, status>> /\ Resting

--------------------------------------------------------------------------------
\* Answers.
\* Broken variant: only the number is compared.
IsOldResponse(l) == ~open \/ l.gen # generation
IsStaleResponse(l) == ~open \/ l.gen # generation \/ scan # l.code

\* fillEmptyFields
FillEmpty(value, code) == IF value = "" THEN code ELSE value

\* The newest lookup is over, stale or not; an older one only goes.
\* Broken variant: a stale one is only dropped.
OverUnlessStale(l, says) ==
  /\ lookups' = lookups \ {l}
  /\ IF ~IsStaleResponse(l)
     THEN inFlight' = FALSE /\ ready' = IsGtin /\ status' = StatusOf(scan, says)
     ELSE status' = says /\ UNCHANGED <<inFlight, ready>>
  /\ UNCHANGED <<generation, looked, autofire, open, scan, due>>
\* Broken variant: the button is left as it is.
OverUnsynced(l, says) ==
  /\ lookups' = lookups \ {l}
  /\ inFlight' = (inFlight /\ l.gen # generation)
  /\ status' = says
  /\ UNCHANGED <<ready, generation, looked, autofire, open, scan, due>>
Over(l, says) ==
  /\ lookups' = lookups \ {l}
  /\ IF l.gen = generation
     THEN inFlight' = FALSE /\ ready' = IsGtin /\ status' = StatusOf(scan, says)
     ELSE status' = says /\ UNCHANGED <<inFlight, ready>>
  /\ UNCHANGED <<generation, looked, autofire, open, scan, due>>

Stale(l) == /\ l \in lookups /\ IsStaleResponse(l)
            /\ Over(l, status)
            /\ UNCHANGED <<name, sku>>

Found(l) == /\ l \in lookups /\ ~IsStaleResponse(l)
            /\ Over(l, "applied")
            /\ name' = FillEmpty(name, l.code) /\ sku' = FillEmpty(sku, l.code)

NothingFound(l) == /\ l \in lookups /\ ~IsStaleResponse(l)
                   /\ \E says \in {"nothing found", "unavailable"} : Over(l, says)
                   /\ UNCHANGED <<name, sku>>

--------------------------------------------------------------------------------
Answer == \E l \in lookups : Stale(l) \/ Found(l) \/ NothingFound(l)
User == \/ Leave \/ Press \/ Close
        \/ (\E c \in Gtins \cup OtherCodes : Scan(c)) \/ (\E t \in {"", Typed} : TypeName(t))
LookupNext == Answer \/ TimerFires \/ User
LookupSpec == LookupInit /\ [][LookupNext]_lookupVars
\* Requests are answered or fail, and the timer fires.
LookupFairSpec == LookupSpec /\ WF_lookupVars(Answer) /\ WF_lookupVars(TimerFires)

--------------------------------------------------------------------------------
\* Properties.

\* The button takes a press exactly when the field holds a barcode and no lookup is under
\* way, whatever was typed during one and whichever answer came late.
ButtonTells == ready = (IsGtin /\ ~inFlight)

\* What a lookup fills in is for the barcode in the field at that time, never for one that
\* was replaced while the databases were asked ("stale responses (barcode changed, dialog
\* closed) are discarded"), and never over a text ("fill EMPTY fields only").
SuggestionIsForBarcode ==
  [][lookups' # lookups /\ <<name, sku>>' # <<name, sku>> =>
       /\ open /\ {name', sku'} \subseteq {name, sku, scan}
       /\ (name # "" => name' = name) /\ (sku # "" => sku' = sku)]_lookupVars

\* The button comes back after every lookup.
LookupEnds == inFlight ~> ~inFlight
================================================================================
