------------------------------ MODULE DetailPage ------------------------------
\* The page of one item or one location (renderItemDetail, renderLocationDetail in
\* src/js/app.js) with its edit dialog, its switch between active and inactive, its photo
\* and its favourite mark.  Every answer paints the page: renders are not numbered here.
EXTENDS Integers, FiniteSets
CONSTANTS
  Names,   \* what the fields of the edit dialog may hold
  Photos,  \* files
  NoPhoto, \* no photo
  MaxCalls \* requests that may be under way at once

DetailAssumption == NoPhoto \notin Photos /\ MaxCalls \in Nat \ {0}

VARIABLES
  what,    \* "item" or "location"
  entity,  \* the row on the server
  calls,   \* requests under way
  panel,   \* what the page shows: "blank", "entity" or "error"; "failed" if no row came yet
  shown,   \* the row of the last paint, which its buttons work from
  picture, \* the photo in its box
  edit,    \* the row an open dialog was filled from, or Closed
  waiting, \* aria-busy
  clean    \* no call overlapped another, was lost or met another clerk since the last load

detailVars == <<what, entity, calls, panel, shown, picture, edit, waiting, clean>>

Row == [name: Names, active: BOOLEAN, star: BOOLEAN, photo: Photos \cup {NoPhoto}]
Closed == [name |-> "closed"]
Slots == 1..MaxCalls
Idle == [op |-> "none", st |-> "none"]
\* here: the photo box, or the dialog, that an answer is for is still on the page.
Unread == [name |-> "unread"]
Call(op, put) == [op |-> op, put |-> put, st |-> "sent", here |-> TRUE]
Ops == {"load", "fields", "active", "star", "photo"}

\* A row was painted, so that the action bar has its buttons.
HasRow == panel \in {"entity", "error"}

\* Buttons and boxes belong to a row: nothing is shown of none.
TypeOK ==
  /\ what \in {"item", "location"} /\ entity \in Row
  /\ DOMAIN calls = Slots /\ \A s \in Slots : calls[s].op \in Ops \cup {"none"}
  /\ panel \in {"blank", "entity", "error", "failed"} /\ shown \in Row
  /\ picture \in Photos \cup {NoPhoto} /\ {waiting, clean} \subseteq BOOLEAN
  /\ ~HasRow => edit = Closed
  /\ \A s \in Slots : calls[s].op = "photo" => what = "item"
  /\ \A s \in Slots : calls[s].op = "star" => what = "location"

DetailInit ==
  /\ what \in {"item", "location"}
  /\ \E n \in Names, b \in BOOLEAN :
       entity = [name |-> n, active |-> b, star |-> FALSE, photo |-> NoPhoto]
  /\ calls = [s \in Slots |-> IF s = 1 THEN Call("load", Unread) ELSE Idle]
  /\ panel = "blank" /\ shown = entity /\ picture = NoPhoto /\ edit = Closed
  /\ waiting = (what = "item") /\ clean = TRUE

--------------------------------------------------------------------------------
\* The server.  A save replaces the fields of the form only, a switch the mark only.
Written(c) == CASE c.op = "fields" -> [entity EXCEPT !.name = c.put.name]
                [] c.op = "active" -> [entity EXCEPT !.active = c.put.active]
                [] c.op = "star" -> [entity EXCEPT !.star = c.put.star]
                [] c.op = "photo" -> [entity EXCEPT !.photo = c.put.photo]
                [] c.op = "load" -> entity

Serve(s) ==
  /\ calls[s].op # "none" /\ calls[s].st = "sent"
  /\ entity' = Written(calls[s])
  /\ calls' = [calls EXCEPT ![s].st = "ok",
                           ![s].put = IF calls[s].op \in {"load", "photo"} THEN entity' ELSE Unread]
  /\ UNCHANGED <<what, panel, shown, picture, edit, waiting, clean>>

\* Another clerk saves or switches the same row.
OthersWrite(n, b) ==
  /\ entity' = [entity EXCEPT !.name = n, !.active = b]
  /\ clean' = FALSE
  /\ UNCHANGED <<what, calls, panel, shown, picture, edit, waiting>>

--------------------------------------------------------------------------------
\* Answers.
Others(s) == \E t \in Slots \ {s} : calls[t] # Idle
\* Slot s is over; a paint takes the photo boxes of the last one off the page.
Freed(s) == [t \in Slots |-> IF t = s THEN Idle
                             ELSE IF calls[t].op = "photo" THEN [calls[t] EXCEPT !.here = FALSE]
                             ELSE calls[t]]
Painted(row) == /\ panel' = "entity" /\ shown' = row /\ picture' = row.photo
                /\ waiting' = FALSE

LoadArrives(s) ==
  /\ calls[s].op = "load" /\ calls[s].st = "ok"
  /\ calls' = Freed(s)
  /\ Painted(calls[s].put)
  /\ UNCHANGED <<what, entity, edit, clean>>

\* Broken variant: the error is told and the page goes on waiting.
LoadFailsWaiting(s) ==
  /\ calls[s].op = "load"
  /\ calls' = Freed(s)
  /\ panel' = (IF HasRow THEN "error" ELSE "failed")
  /\ UNCHANGED <<what, entity, shown, picture, edit, waiting, clean>>
\* The error takes the place of the row; the action bar above keeps its buttons.
LoadFails(s) ==
  /\ calls[s].op = "load"
  /\ calls' = Freed(s)
  /\ panel' = (IF HasRow THEN "error" ELSE "failed") /\ waiting' = FALSE
  /\ UNCHANGED <<what, entity, shown, picture, edit, clean>>

\* Broken variant: the dialog closes and that is that.
WriteAcceptedQuietly(s) ==
  /\ calls[s].op \in {"fields", "active", "star"} /\ calls[s].st = "ok"
  /\ calls' = [calls EXCEPT ![s] = Idle]
  /\ edit' = IF calls[s].op = "fields" /\ calls[s].here THEN Closed ELSE edit
  /\ UNCHANGED <<what, entity, panel, shown, picture, waiting, clean>>
\* A save closes its dialog; a save and a switch render the page anew, in the same slot.
WriteAccepted(s) ==
  /\ calls[s].op \in {"fields", "active", "star"} /\ calls[s].st = "ok"
  /\ calls' = [calls EXCEPT ![s] = Call("load", Unread)]
  /\ edit' = IF calls[s].op = "fields" /\ calls[s].here THEN Closed ELSE edit
  /\ waiting' = (what = "item" \/ waiting)
  /\ clean' = ~Others(s)
  /\ UNCHANGED <<what, entity, panel, shown, picture>>

\* renderItemPhoto with the answer paints the box only.
PhotoAccepted(s) ==
  /\ calls[s].op = "photo" /\ calls[s].st = "ok"
  /\ calls' = [calls EXCEPT ![s] = Idle]
  /\ picture' = IF calls[s].here THEN calls[s].put.photo ELSE picture
  /\ UNCHANGED <<what, entity, panel, shown, edit, waiting, clean>>

WriteFails(s) ==
  /\ calls[s].op \in Ops \ {"load"}
  /\ calls' = [calls EXCEPT ![s] = Idle]
  /\ clean' = (clean /\ calls[s].st = "sent")
  /\ UNCHANGED <<what, entity, panel, shown, picture, edit, waiting>>

--------------------------------------------------------------------------------
\* The user.
Send(op, put) ==
  \E s \in Slots : /\ calls[s] = Idle /\ \A t \in Slots : calls[t] = Idle => s <= t
                   /\ calls' = [calls EXCEPT ![s] = Call(op, put)]
                   /\ clean' = (~Others(s) /\ (clean \/ op = "load"))

Retry == /\ panel \in {"error", "failed"} /\ edit = Closed
         /\ Send("load", Unread)
         /\ waiting' = (what = "item" \/ waiting)
         /\ UNCHANGED <<what, entity, panel, shown, picture, edit>>

\* openItemDialog, openLocationDialog: filled from the row of the last paint.
OpenEdit == /\ HasRow /\ edit = Closed
            /\ edit' = shown
            /\ UNCHANGED <<what, entity, calls, panel, shown, picture, waiting, clean>>
\* Also while its save is under way.
CloseEdit == /\ edit # Closed
             /\ edit' = Closed
             /\ calls' = [s \in Slots |-> IF calls[s].op = "fields"
                                          THEN [calls[s] EXCEPT !.here = FALSE] ELSE calls[s]]
             /\ UNCHANGED <<what, entity, panel, shown, picture, waiting, clean>>
\* Its confirm button is disabled until it is answered.
Save(n) == /\ edit # Closed /\ \A s \in Slots : calls[s].op = "fields" => ~calls[s].here
           /\ Send("fields", [edit EXCEPT !.name = n])
           /\ UNCHANGED <<what, entity, panel, shown, picture, edit, waiting>>

\* "Deactivate" or "Reactivate", "Add" or "Remove favourite": label and value of one row.
Switched(row) == [row EXCEPT !.active = ~row.active]

Switch == /\ HasRow /\ edit = Closed
          /\ Send("active", Switched(shown))
          /\ UNCHANGED <<what, entity, panel, shown, picture, edit, waiting>>
Star == /\ what = "location" /\ HasRow /\ edit = Closed
        /\ Send("star", [shown EXCEPT !.star = ~shown.star])
        /\ UNCHANGED <<what, entity, panel, shown, picture, edit, waiting>>

\* Upload, or removal of the photo in the box.
SetPhoto(p) == /\ what = "item" /\ panel = "entity" /\ edit = Closed
               /\ p = NoPhoto => picture # NoPhoto
               /\ Send("photo", [shown EXCEPT !.photo = p])
               /\ UNCHANGED <<what, entity, panel, shown, picture, edit, waiting>>

--------------------------------------------------------------------------------
Network == \E s \in Slots : \/ Serve(s) \/ LoadArrives(s) \/ LoadFails(s) \/ WriteAccepted(s)
                            \/ PhotoAccepted(s) \/ WriteFails(s)
User == \/ Retry \/ OpenEdit \/ CloseEdit \/ Switch \/ Star
        \/ (\E n \in Names : Save(n)) \/ (\E p \in Photos \cup {NoPhoto} : SetPhoto(p))
Clerks == \E n \in Names, b \in BOOLEAN : OthersWrite(n, b)
DetailNext == Network \/ User \/ Clerks

DetailSpec == DetailInit /\ [][DetailNext]_detailVars
DetailFairSpec ==
  DetailSpec /\ \A s \in Slots : WF_detailVars(LoadArrives(s) \/ LoadFails(s))

--------------------------------------------------------------------------------
\* Properties.

\* The server takes a save of the edit dialog.
Saved(s) == calls[s].op = "fields" /\ calls[s].st = "sent" /\ calls'[s].st = "ok"

\* A user who waits for the answers sees on the page what is stored, whatever he saved,
\* switched, marked or uploaded: every accepted write paints what it left.
QuietPageIsTrue ==
  clean /\ panel = "entity" /\ (\A s \in Slots : calls[s] = Idle) =>
    /\ [entity EXCEPT !.photo = shown.photo] = shown
    /\ picture = entity.photo

\* A save of the edit dialog, which sends every field it has, changes nothing if it sends what
\* the page shows: while the user works alone, with one request at a time, the row on the page
\* is the server's, after whichever of his own saves, switches, marks and photos.
ShownFieldsAreKept ==
  [][\A s \in Slots :
       clean /\ panel = "entity" /\ Saved(s) /\ calls[s].put.name = shown.name
         => entity' = entity]_detailVars

\* Not so beside another clerk: a field he changed, and the user left as the page shows it, is
\* taken back with the form (app.js:3463).
OthersFieldsAreKept ==
  [][\A s \in Slots : Saved(s) /\ calls[s].put.name = shown.name => entity' = entity]_detailVars

\* The page stops being busy, however its load ends.
DetailBusyEnds == waiting ~> ~waiting
================================================================================
