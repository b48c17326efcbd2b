------------------------------- MODULE WebPages -------------------------------
\* The pages that show and change what the server holds, as boot() of src/js/app.js starts
\* them: one page is loaded, the frame of the server names it, and its script alone runs
\* until the browser leaves.  Every page waits for its start; that of the frame runs.
EXTENDS Integers, Sequences, FiniteSets

CONSTANTS
  MaxSeq, Groups,                             \* movements
  Entries, Texts, Match, MaxLoads, MaxViews,  \* items and locations
  Names, Photos, NoPhoto, DetailCalls,        \* one item or location
  Goods, MaxSheets, MaxTasks, MaxTurns,       \* dashboard
  Values, Refused, Subjects, Cats,            \* settings
  Devices, MaxCodes, MaxRenders,              \* settings: license
  MaxCalls                                    \* both kinds of settings

VARIABLES
  scene,  \* data-iv-page
  \* movements
  seq, reqs, busy, shell, form, timer, ghost, results, overtaken,
  \* items and locations
  kind, stored, writes, lost, views, view, loads, sent, list, pageBusy, selected, labels,
  \* one item or location
  what, entity, calls, panel, shown, picture, edit, waiting, clean,
  \* dashboard
  marked, sheets, tasks, turns, frame, loading, sections, hosts, editor, variance, missing, calm,
  \* settings
  section, config, fields, posts, disabled, pressed, flags, told, missed, apart,
  \* settings: license
  slots, codes, spent, jobs, render, drawn, lists, code, asked, gone, serial

Movements == INSTANCE MovementsPage
List == INSTANCE MasterList
Detail == INSTANCE DetailPage WITH MaxCalls <- DetailCalls
Dash == INSTANCE Dashboard
Settings == INSTANCE SettingsPage WITH stored <- config, form <- fields
License == INSTANCE LicensePage

ASSUME PagesAssumption ==
  /\ Movements!MovementsAssumption /\ List!ListAssumption /\ Detail!DetailAssumption
  /\ Dash!DashboardAssumption /\ Settings!SettingsAssumption /\ License!LicenseAssumption

movementsVars == <<seq, reqs, busy, shell, form, timer, ghost, results, overtaken>>
listVars == <<kind, stored, writes, lost, views, view, loads, sent, list, pageBusy, selected, labels>>
detailVars == <<what, entity, calls, panel, shown, picture, edit, waiting, clean>>
dashVars == <<marked, sheets, tasks, turns, frame, loading, sections, hosts, editor, variance,
              missing, calm>>
settingsVars == <<section, config, fields, posts, disabled, pressed, flags, told, missed, apart>>
licenseVars == <<slots, codes, spent, jobs, render, drawn, lists, code, asked, gone, serial>>
pagesVars == <<scene, movementsVars, listVars, detailVars, dashVars, settingsVars, licenseVars>>

Scenes == {"movements", "list", "detail", "dashboard", "settings", "license"}
PagesTypeOK == /\ scene \in Scenes
          /\ Movements!TypeOK /\ List!TypeOK /\ Detail!TypeOK
          /\ Dash!TypeOK /\ Settings!TypeOK /\ License!TypeOK

\* What a page that is not loaded would start with is of no account.
PagesInit ==
  /\ scene \in Scenes
  /\ Movements!Init /\ List!ListInit /\ Detail!DetailInit
  /\ Dash!DashInit /\ Settings!SettingsInit /\ License!LicenseInit
  /\ scene # "list" => kind = "items" /\ \A e \in DOMAIN stored : stored[e] = "none"
  /\ scene # "detail" => /\ what = "item" /\ entity.active
                        /\ entity.name = CHOOSE n \in Names : TRUE
  /\ scene # "dashboard" => marked = {}
  /\ scene # "settings" => section = "office"

PagesNext ==
  \/ /\ scene = "movements" /\ Movements!Next
     /\ UNCHANGED <<scene, listVars, detailVars, dashVars, settingsVars, licenseVars>>
  \/ /\ scene = "list" /\ List!ListNext
     /\ UNCHANGED <<scene, movementsVars, detailVars, dashVars, settingsVars, licenseVars>>
  \/ /\ scene = "detail" /\ Detail!DetailNext
     /\ UNCHANGED <<scene, movementsVars, listVars, dashVars, settingsVars, licenseVars>>
  \/ /\ scene = "dashboard" /\ Dash!DashNext
     /\ UNCHANGED <<scene, movementsVars, listVars, detailVars, settingsVars, licenseVars>>
  \/ /\ scene = "settings" /\ Settings!SettingsNext
     /\ UNCHANGED <<scene, movementsVars, listVars, detailVars, dashVars, licenseVars>>
  \/ /\ scene = "license" /\ License!LicenseNext
     /\ UNCHANGED <<scene, movementsVars, listVars, detailVars, dashVars, settingsVars>>

\* Every request is answered or fails, and timers fire; the user need do nothing.
PagesSpec ==
  /\ PagesInit /\ [][PagesNext]_pagesVars
  /\ WF_movementsVars(scene = "movements" /\ Movements!Answer)
  /\ WF_movementsVars(scene = "movements" /\ Movements!Timers)
  /\ WF_listVars(scene = "list" /\ List!Loading)
  /\ WF_listVars(scene = "list" /\ List!Writing)
  /\ WF_listVars(scene = "list" /\ List!Timers)
  /\ \A s \in Detail!Slots :
       WF_detailVars(scene = "detail" /\ (Detail!LoadArrives(s) \/ Detail!LoadFails(s)))
  /\ \A t \in Dash!Tasks : WF_dashVars(scene = "dashboard" /\ Dash!Settle(t))
  /\ \A s \in Settings!Slots : WF_settingsVars(scene = "settings" /\ Settings!Settle(s))

--------------------------------------------------------------------------------
\* Properties: each page states its own, and they are asked here of the page that runs.

\* What a page shows once all is answered is what the server holds: the entries the user
\* created or reactivated, the item's fields and photo, the open order sheets, the "ordered"
\* markers, the settings saved, the grants and categories, the scanners, no dead pair code.
QuietIsTrue ==
  /\ List!OwnChangesListed /\ Detail!QuietPageIsTrue
  /\ Dash!OpenSheetsShown /\ Dash!MarkersAreTrue
  /\ Settings!SavedIsStored /\ Settings!SavedIsUnmarked /\ Settings!FlagsAreStored
  /\ Settings!ListsAreTrue
  /\ License!ShownCodeWorks /\ License!ListsAreCurrent

\* What every reachable state is like.
PagesInv == PagesTypeOK /\ QuietIsTrue

\* However slow answers overtake each other, results are those of the newest render and of
\* what the form says: the kind and the dates of movements, the text in a list's box.  Labels
\* are printed for what is ticked, whatever was searched for meanwhile.
NewestIsShown ==
  /\ Movements!NewestIsShown /\ List!NewestList
  /\ [](Movements!KindAndDatesAreTold /\ List!TextIsApplied /\ List!LabelsAreTicked)

\* No save changes what the user left as it was: the edit dialog the fields he did not touch,
\* while he works alone, a list of grants the strict mode it knew, while requests do not
\* overlap.  (What another clerk changes in a field meanwhile is taken back: see
\* OthersFieldsAreKept of DetailPage.)
UntouchedIsKept == Detail!ShownFieldsAreKept /\ Settings!StrictIsChosen

\* What these waits are for comes, however their requests end: the newest results and the
\* newest list are shown, the results of movements, a detail and the dashboard stop being
\* busy, a save's button comes back.  (The mark of two whole pages may stay: see MountBusyEnds
\* of MovementsPage, overtaken, and ListBusyEnds of MasterList, an item list that is empty.)
WaitsEnd ==
  /\ scene = "movements" => Movements!ShownInTheEnd /\ Movements!ResultsBusyEnds
  /\ scene = "list" => List!ListShownInTheEnd
  /\ scene = "detail" => Detail!DetailBusyEnds
  /\ scene = "dashboard" => Dash!DashBusyEnds
  /\ scene = "settings" => Settings!SaveButtonReturns
================================================================================
