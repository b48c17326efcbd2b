----------------------------- MODULE ImportDialog -----------------------------
\* The dialog that imports items from CSV (openImportDialog in src/js/app.js): the text is
\* checked by the server while it is typed, and imported as it was checked.
EXTENDS Integers, FiniteSets
CONSTANTS
  Texts,    \* what a file or the box may hold; "" is empty
  NoFile,   \* no file is chosen
  MaxRuns   \* bounds the checks

ImportAssumption == "" \in Texts /\ NoFile \notin Texts /\ MaxRuns \in Nat

VARIABLES
  box, file,  \* the two inputs; the file goes before the box
  typed,      \* dryRunTimer is set
  runs,       \* checks under way
  lastRun,    \* dryRunSeq
  lastDry,    \* the last report that was taken up
  skipErrors, \* the hidden checkbox
  result,     \* what stands below the inputs
  import,     \* the confirm button's handler
  reported    \* every report that was on the screen: its text and whether it had errors

inputs == <<box, file, typed>>
importVars == <<inputs, runs, lastRun, lastDry, skipErrors, result, import, reported>>

ReadSelectedCsv == IF file = NoFile THEN box ELSE file
NoDry == [done |-> FALSE, ok |-> FALSE, errors |-> FALSE, csv |-> ""]
NoImport == [st |-> "idle", csv |-> "", run |-> 0, skip |-> FALSE, seen |-> FALSE]

\* A handler that waits for a check waits for one that was started.
TypeOK ==
  /\ box \in Texts /\ file \in Texts \cup {NoFile} /\ {typed, skipErrors} \subseteq BOOLEAN
  /\ lastRun \in 0..MaxRuns
  /\ \A r \in runs : r.no \in 1..lastRun /\ r.csv \in Texts /\ r.st \in {"reading", "sent"}
  /\ lastDry \in [done: BOOLEAN, ok: BOOLEAN, errors: BOOLEAN, csv: Texts]
  /\ result \in {"nothing", "checking", "hint", "report", "failure"}
  /\ import \in [st: {"idle", "reading", "ensure", "decide", "commit"}, csv: Texts,
                 run: 0..MaxRuns, skip: BOOLEAN,
                 seen: BOOLEAN]  \* the errors of this text stood there when it was confirmed
  /\ import.st = "ensure" => import.run \in 1..lastRun

ImportInit ==
  /\ box = "" /\ file = NoFile /\ typed = FALSE
  /\ runs = {} /\ lastRun = 0 /\ lastDry = NoDry /\ skipErrors = FALSE
  /\ result = "nothing" /\ import = NoImport /\ reported = {}

--------------------------------------------------------------------------------
\* runDryRun, of what the inputs hold at the start; a file takes time to read.
RunDryRun ==
  /\ lastRun < MaxRuns
  /\ lastRun' = lastRun + 1
  /\ runs' = runs \cup {[no |-> lastRun + 1, csv |-> ReadSelectedCsv', st |-> "reading"]}
  /\ result' = "checking"

\* scheduleDryRun
Type(text) ==
  /\ text # box /\ box' = text /\ typed' = TRUE
  /\ UNCHANGED <<file, runs, lastRun, lastDry, skipErrors, result, import, reported>>

TimerFires ==
  /\ typed /\ typed' = FALSE
  /\ UNCHANGED <<box, file>>
  /\ RunDryRun
  /\ UNCHANGED <<lastDry, skipErrors, import, reported>>

\* Broken variant: a file is checked only when the import is confirmed.
ChooseUnchecked(f) ==
  /\ f # file /\ file' = f
  /\ UNCHANGED <<box, typed, runs, lastRun, lastDry, skipErrors, result, import, reported>>
Choose(f) ==
  /\ f # file /\ file' = f
  /\ UNCHANGED <<box, typed>>
  /\ RunDryRun
  /\ UNCHANGED <<lastDry, skipErrors, import, reported>>

--------------------------------------------------------------------------------
\* A check goes on.  The handler that waits for it goes on when it is over.
IsNewest(r) == r.no = lastRun
Over(r) == /\ runs' = runs \ {r}
           /\ import' = IF import.st = "ensure" /\ import.run = r.no
                        THEN [import EXCEPT !.st = "decide"] ELSE import

\* Superseded while it read or while the server worked: nothing is touched.
RunDropped(r) ==
  /\ r \in runs /\ ~IsNewest(r) /\ Over(r)
  /\ UNCHANGED <<inputs, lastRun, lastDry, skipErrors, result, reported>>

RunEmpty(r) ==
  /\ r \in runs /\ IsNewest(r) /\ r.st = "reading" /\ r.csv = "" /\ Over(r)
  /\ lastDry' = NoDry /\ result' = "hint"
  /\ UNCHANGED <<inputs, lastRun, skipErrors, reported>>

RunRead(r) ==
  /\ r \in runs /\ IsNewest(r) /\ r.st = "reading" /\ r.csv # ""
  /\ runs' = (runs \ {r}) \cup {[r EXCEPT !.st = "sent"]}
  /\ UNCHANGED <<inputs, lastRun, lastDry, skipErrors, result, import, reported>>

RunReport(r, ok, errors) ==
  /\ r \in runs /\ IsNewest(r) /\ r.st = "sent" /\ Over(r)
  /\ lastDry' = [done |-> TRUE, ok |-> ok, errors |-> errors, csv |-> r.csv]
  /\ skipErrors' = errors
  /\ result' = "report"
  /\ reported' = reported \cup (IF ok THEN {<<r.csv, errors>>} ELSE {})
  /\ UNCHANGED <<inputs, lastRun>>

\* Broken variant: the failure is told by a toast only.
RunFailsQuietly(r) ==
  /\ r \in runs /\ IsNewest(r) /\ Over(r)
  /\ lastDry' = NoDry
  /\ UNCHANGED <<inputs, lastRun, skipErrors, result, reported>>
RunFails(r) ==
  /\ r \in runs /\ IsNewest(r) /\ Over(r)
  /\ lastDry' = NoDry /\ result' = "failure"
  /\ UNCHANGED <<inputs, lastRun, skipErrors, reported>>

--------------------------------------------------------------------------------
\* The confirm handler; the button is disabled until it is over.  Closing the dialog does
\* not end it.
Confirm ==
  /\ import.st = "idle"
  /\ import' = [NoImport EXCEPT !.st = "reading", !.csv = ReadSelectedCsv,
                                !.seen = <<ReadSelectedCsv, TRUE>> \in reported]
  /\ UNCHANGED <<inputs, runs, lastRun, lastDry, skipErrors, result, reported>>

\* Broken variant: some text was checked.
CheckedSome(csv) == lastDry.done
\* The last report taken up is of this text.
Checked(csv) == lastDry.done /\ lastDry.csv = csv

ConfirmEmpty ==
  /\ import.st = "reading" /\ import.csv = ""
  /\ import' = NoImport
  /\ UNCHANGED <<inputs, runs, lastRun, lastDry, skipErrors, result, reported>>

ConfirmRead ==
  /\ import.st = "reading" /\ import.csv # ""
  /\ IF Checked(import.csv)
     THEN /\ import' = [import EXCEPT !.st = "decide"]
          /\ UNCHANGED <<runs, lastRun, result>>
     ELSE /\ UNCHANGED inputs /\ RunDryRun
          /\ import' = [import EXCEPT !.st = "ensure", !.run = lastRun + 1]
  /\ UNCHANGED <<inputs, lastDry, skipErrors, reported>>

Decide ==
  /\ import.st = "decide"
  /\ import' = IF Checked(import.csv) /\ lastDry.ok
               THEN [import EXCEPT !.st = "commit", !.skip = lastDry.errors \/ skipErrors]
               ELSE NoImport
  /\ UNCHANGED <<inputs, runs, lastRun, lastDry, skipErrors, result, reported>>

\* However it is answered: rows were imported and the dialog closes, or it tells the failure
\* and can be confirmed again.
CommitAnswered ==
  /\ import.st = "commit" /\ import' = NoImport
  /\ UNCHANGED <<inputs, runs, lastRun, lastDry, skipErrors, result, reported>>

--------------------------------------------------------------------------------
Checking == \E r \in runs :
  \/ RunDropped(r) \/ RunEmpty(r) \/ RunRead(r) \/ RunFails(r)
  \/ \E ok, errors \in BOOLEAN : RunReport(r, ok, errors)
Importing == ConfirmEmpty \/ ConfirmRead \/ Decide \/ CommitAnswered
User == \/ Confirm
        \/ (\E t \in Texts : Type(t)) \/ (\E f \in Texts \cup {NoFile} : Choose(f))
ImportNext == Checking \/ Importing \/ TimerFires \/ User

ImportSpec == ImportInit /\ [][ImportNext]_importVars
\* Requests are answered or fail, files are read and timers fire.
ImportFairSpec == /\ ImportSpec /\ WF_importVars(Checking) /\ WF_importVars(Importing)
                  /\ WF_importVars(TimerFires)

--------------------------------------------------------------------------------
\* Properties.

\* What is imported is a text whose report was on the screen, with rows that look fine, and
\* rows are skipped exactly when that report listed errors, however typing, files, slow
\* checks and presses of the button interleave.
ImportIsAsReported == import.st = "commit" => <<import.csv, import.skip>> \in reported

\* Rows are skipped only when their errors were listed before the user confirmed ("confirming
\* after a dry-run that listed errors = consent to skip them").  Not so: a press before the
\* check is answered starts the check itself and imports on its answer.
SkipIsConsented == import.st = "commit" /\ import.skip => import.seen

\* A report on the screen is of what the inputs hold, unless a new check is about to start.
ReportIsOfInputs == result = "report" /\ ~typed => lastDry.csv = ReadSelectedCsv

\* "Checking" comes to an end.
CheckingEnds == result = "checking" ~> result # "checking"
================================================================================
