----------------------------- MODULE SettingsPage -----------------------------
\* The settings forms (renderSettings in src/js/app.js), one section a page, of one
\* administrator:
\*   office           access, office, notifications: the button is disabled while it saves
\*   policies         scan policies: it is not, nor on the pages below
\*   product-lookup   toggles that this page has in flags of its own too
\*   connections      and a button to retry the pushes of invoices that are pending
\*   quantities       only a button, which turns whole quantities into fractional ones
\*   location-access  grants, and a strict mode that a request of its own tells
\*   restock          amounts, and categories, which two buttons change before they render
\*                    anew
EXTENDS Integers, FiniteSets
CONSTANTS
  Values,    \* what a form may hold
  Refused,   \* of these, what the server refuses
  Subjects,  \* users, groups or scanners that may be granted locations
  Cats,      \* categories
  MaxCalls   \* requests that may be under way at once

NothingYet == "nothing yet"
NotSaved == "not saved"
SettingsAssumption == /\ Values \ Refused # {} /\ Values \cap {NothingYet, NotSaved} = {}
                      /\ MaxCalls \in Nat \ {0}

VARIABLES
  section,   \* the page
  stored,    \* the configuration on the server
  form,      \* what the page shows and holds
  posts,     \* requests under way
  disabled,  \* the save button
  pressed,   \* the other button is disabled: its request is under way
  flags,     \* the toggles of the lookup as the page's other parts know them
  told,      \* the value last said to be saved, NotSaved, or NothingYet
  missed,    \* the answer to a save that took effect was lost
  apart      \* since what is shown was asked for, no request overlapped another

settingsVars == <<section, stored, form, posts, disabled, pressed, flags, told, missed, apart>>

NoSubject == "no subject"
Sections == {"office", "policies", "product-lookup", "connections", "quantities",
             "location-access", "restock"}
HasFields == Sections \ {"quantities", "location-access", "restock"}
HasButton == {"connections", "quantities"}
\* What is marked as refused: a category's amount, or a field that has a place for errors.
Places == {"category", "field"}
\* "todo" is what the other button is for: pushes are pending, quantities are whole.
Config == [value: Values, todo: BOOLEAN, strict: BOOLEAN, grants: SUBSET Subjects,
           cats: SUBSET Cats]
Slots == 1..MaxCalls
Nobody == [op |-> "none", st |-> "none"]
Post(op, put, subject, on) ==
  [op |-> op, st |-> "sent", put |-> put, subject |-> subject, on |-> on,
   sure |-> form.known /\ ~form.moved]
Empty(is, config) == [is |-> is, value |-> config.value, todo |-> config.todo, strict |-> FALSE,
                      known |-> FALSE, moved |-> FALSE, grants |-> {}, cats |-> config.cats,
                      rows |-> config.cats, wrong |-> {}, errors |-> {}]

\* Only a form has fields to save, and only the guarded sections disable their button.
TypeOK ==
  /\ section \in Sections /\ stored \in Config /\ stored.value \notin Refused
  /\ form.is \in {"blank", "form", "error"} /\ form.value \in Values
  /\ {form.wrong, form.errors} \subseteq SUBSET Places
  /\ DOMAIN posts = Slots
  /\ \A s \in Slots : posts[s].op \in {"none", "render", "acl", "save", "put", "press"}
  /\ disabled => section = "office" /\ \E s \in Slots : posts[s].op = "save"
  /\ pressed => section \in HasButton /\ \E s \in Slots : posts[s].op \in {"press", "render"}
  /\ flags \in Values /\ told \in Values \cup {NothingYet, NotSaved}
  /\ {pressed, missed, apart} \subseteq BOOLEAN

Quiet == \A s \in Slots : posts[s] = Nobody
Others(s) == \E t \in Slots \ {s} : posts[t] # Nobody
Free(s) == posts[s] = Nobody /\ \A t \in Slots : t < s => posts[t] # Nobody

SettingsInit ==
  /\ section \in Sections
  /\ stored \in Config /\ stored.value = CHOOSE v \in Values \ Refused : TRUE
  /\ section \notin HasButton => ~stored.todo
  /\ section # "location-access" => ~stored.strict /\ stored.grants = {}
  /\ section # "restock" => stored.cats = {}
  /\ form = Empty("blank", stored)
  /\ posts = [s \in Slots |-> IF s = 1 THEN [op |-> "render", st |-> "sent"] ELSE Nobody]
  /\ disabled = FALSE /\ pressed = FALSE /\ flags = stored.value
  /\ told = NothingYet /\ missed = FALSE /\ apart = TRUE

--------------------------------------------------------------------------------
\* The server: saveOffice and its like, saveRestock, saveLocationAcl, enableFractional.
\* A put replaces the grants of its subject, if it names one, and both switches.
Granted(p) == IF p.subject = NoSubject THEN stored.grants
              ELSE IF p.on THEN stored.grants \cup {p.subject} ELSE stored.grants \ {p.subject}
Written(p) ==
  CASE p.op = "save" /\ section = "restock" -> [stored EXCEPT !.cats = p.put.cats]
    [] p.op = "save" /\ section # "restock" -> [stored EXCEPT !.value = p.put.value]
    [] p.op = "put" -> [stored EXCEPT !.strict = p.put.strict, !.grants = Granted(p)]
    [] p.op = "press" -> [stored EXCEPT !.todo = FALSE]
    [] OTHER -> stored

IsRefused(p) == p.op = "save" /\ section \in HasFields /\ p.put.value \in Refused
\* A retried push may stay pending.
MayStay(p) == p.op = "press" /\ section = "connections"

Serve(s) ==
  /\ posts[s].st = "sent" /\ ~IsRefused(posts[s])
  /\ \/ stored' = Written(posts[s])
     \/ MayStay(posts[s]) /\ UNCHANGED stored
  /\ posts' = [posts EXCEPT ![s] = [op |-> @.op, st |-> "ok", got |-> stored',
                                    said |-> IF @.op = "save" THEN @.put.value ELSE NothingYet,
                                    on |-> @.op = "put" /\ @.on]]
  /\ UNCHANGED <<section, form, disabled, pressed, flags, told, missed, apart>>
Refuse(s) ==
  /\ posts[s].st = "sent" /\ IsRefused(posts[s])
  /\ posts' = [posts EXCEPT ![s] = [op |-> "save", st |-> "refused"]]
  /\ UNCHANGED <<section, stored, form, disabled, pressed, flags, told, missed, apart>>

--------------------------------------------------------------------------------
\* The fields.
Edit(v) ==
  /\ form.is = "form" /\ section \in HasFields /\ v # form.value
  /\ form' = [form EXCEPT !.value = v]
  /\ apart' = (apart /\ (section = "product-lookup" => Quiet))
  /\ UNCHANGED <<section, stored, posts, disabled, pressed, flags, told, missed>>

\* Amounts that are none: of a category that is shown, or of the two fields.
EditAmount(place) ==
  /\ form.is = "form" /\ section = "restock" /\ (place = "category" => form.rows # {})
  /\ form' = [form EXCEPT !.wrong = IF place \in @ THEN @ \ {place} ELSE @ \cup {place}]
  /\ UNCHANGED <<section, stored, posts, disabled, pressed, flags, told, missed, apart>>

MoveStrict ==
  /\ form.is = "form" /\ section = "location-access"
  /\ form' = [form EXCEPT !.strict = ~@, !.moved = TRUE]
  /\ UNCHANGED <<section, stored, posts, disabled, pressed, flags, told, missed, apart>>

\* "Add category" and "Remove" change the list the page holds and render the page anew,
\* from what the server has.
Rerender(s) ==
  /\ Free(s)
  /\ posts' = [posts EXCEPT ![s] = [op |-> "render", st |-> "sent"]]
  /\ apart' = (~Others(s) /\ (section = "product-lookup" => apart))
  /\ UNCHANGED <<section, stored, disabled, pressed, flags, told, missed>>
AddCategory(s, c) ==
  /\ form.is = "form" /\ section = "restock" /\ c \notin form.cats
  /\ form' = [form EXCEPT !.cats = @ \cup {c}]
  /\ Rerender(s)
RemoveCategory(s, c) ==
  /\ form.is = "form" /\ section = "restock" /\ c \in form.rows
  /\ form' = [form EXCEPT !.cats = @ \ {c}]
  /\ Rerender(s)

--------------------------------------------------------------------------------
\* Saving: what was marked is unmarked, and the whole form is sent.
\* clearFieldErrors
\* Broken variant: a save leaves the marks of the last one.
NotCleared == form
Cleared == [form EXCEPT !.errors = {}]
Send(s) ==
  /\ form.is = "form" /\ Free(s)
  /\ form' = Cleared
  /\ posts' = [posts EXCEPT ![s] = Post("save", form, NoSubject, FALSE)]
  /\ apart' = (apart /\ ~Others(s))
  /\ UNCHANGED <<section, stored, pressed, flags, told, missed>>

\* withSaveBusy: access, office, notifications.
\* Broken variant: the button stays enabled while the section saves.
SaveUnguarded(s) == section = "office" /\ Send(s) /\ UNCHANGED disabled
SaveGuarded(s) == section = "office" /\ ~disabled /\ Send(s) /\ disabled' = TRUE
SavePolicies(s) == section = "policies" /\ Send(s) /\ UNCHANGED disabled
SaveConnections(s) == section = "connections" /\ Send(s) /\ UNCHANGED disabled
SaveLookup(s) == section = "product-lookup" /\ Send(s) /\ UNCHANGED disabled
SaveRestock(s) == section = "restock" /\ form.wrong = {} /\ Send(s) /\ UNCHANGED disabled

\* Amounts that are none are not sent.  The row of a category is marked at once, but has no
\* place for errors: applyFieldErrors clears every mark before it sets those of fields.
Applied(places) == [form EXCEPT !.errors = places \ {"category"}]
RefuseAmounts ==
  /\ form.is = "form" /\ section = "restock" /\ form.wrong # {}
  /\ form' = Applied(form.wrong) /\ told' = NotSaved
  /\ apart' = (apart /\ Quiet)
  /\ UNCHANGED <<section, stored, posts, disabled, pressed, flags, missed>>

\* With a subject the save grants, "Clear grants" revokes; both carry the two switches.  Only
\* the save unmarks, and marks, fields.
Put(s, subject, on) ==
  /\ form.is = "form" /\ section = "location-access" /\ Free(s)
  /\ on \/ subject \in form.grants
  /\ posts' = [posts EXCEPT ![s] = Post("put", form, subject, on)]
  /\ apart' = (apart /\ ~Others(s))
  /\ form' = IF on THEN Cleared ELSE form
  /\ UNCHANGED <<section, stored, disabled, pressed, flags, told, missed>>

\* "Retry now" is disabled meanwhile; the other is confirmed in a dialog, which is.
Press(s) ==
  /\ form.is = "form" /\ form.todo /\ ~pressed /\ Free(s)
  /\ posts' = [posts EXCEPT ![s] = [op |-> "press", st |-> "sent"]]
  /\ pressed' = TRUE /\ apart' = (apart /\ ~Others(s))
  /\ UNCHANGED <<section, stored, form, disabled, flags, told, missed>>
RetryPush(s) == section = "connections" /\ Press(s)
EnableFractional(s) == section = "quantities" /\ Press(s)

--------------------------------------------------------------------------------
\* Answers.
Over(s) == posts' = [posts EXCEPT ![s] = Nobody]

\* The form, from the configuration; the grants and the strict mode are asked for next.
Paint(s) ==
  /\ posts[s].op = "render" /\ posts[s].st = "ok"
  /\ form' = Empty("form", posts[s].got) /\ pressed' = FALSE
  /\ posts' = [posts EXCEPT ![s] = IF section = "location-access"
                                   THEN [op |-> "acl", st |-> "sent"] ELSE Nobody]
  /\ UNCHANGED <<section, stored, disabled, flags, told, missed, apart>>

PaintFails(s) ==
  /\ posts[s].op = "render" /\ Over(s)
  /\ form' = [Cleared EXCEPT !.is = "error"] /\ pressed' = FALSE
  /\ UNCHANGED <<section, stored, disabled, flags, told, missed, apart>>

Retry(s) ==
  /\ form.is = "error" /\ Rerender(s)
  /\ UNCHANGED form

\* renderAclAssignments
\* Broken variant: the strict switch is left as it is.
AssignmentsOnly(config) == [form EXCEPT !.grants = config.grants, !.known = TRUE]
Assignments(config) == [form EXCEPT !.grants = config.grants, !.known = TRUE,
                                    !.strict = config.strict, !.moved = FALSE]

\* Broken variant: an answer to a put says that it is saved, and shows nothing.
GrantsSaid(s) ==
  /\ posts[s].op \in {"acl", "put"} /\ posts[s].st = "ok"
  /\ form' = IF form.is = "form" /\ posts[s].op = "acl" THEN Assignments(posts[s].got)
             ELSE form
  /\ Over(s)
  /\ UNCHANGED <<section, stored, disabled, pressed, flags, told, missed, apart>>
GrantsTold(s) ==
  /\ posts[s].op \in {"acl", "put"} /\ posts[s].st = "ok"
  /\ form' = IF form.is = "form" THEN Assignments(posts[s].got) ELSE form
  /\ Over(s)
  /\ UNCHANGED <<section, stored, disabled, pressed, flags, told, missed, apart>>

SaveAccepted(s) ==
  /\ section # "product-lookup"
  /\ posts[s].op = "save" /\ posts[s].st = "ok" /\ Over(s)
  /\ told' = posts[s].said /\ disabled' = FALSE
  /\ UNCHANGED <<section, stored, form, pressed, flags, missed, apart>>

\* The flags are taken from the toggles as they are when the answer comes.
\* Broken variant: the flags are those the page was loaded with.
LookupSavedOnly(s) ==
  /\ section = "product-lookup" /\ posts[s].op = "save" /\ posts[s].st = "ok" /\ Over(s)
  /\ told' = posts[s].said
  /\ UNCHANGED <<section, stored, form, disabled, pressed, flags, missed, apart>>
LookupSaved(s) ==
  /\ section = "product-lookup" /\ posts[s].op = "save" /\ posts[s].st = "ok" /\ Over(s)
  /\ flags' = form.value /\ told' = posts[s].said
  /\ UNCHANGED <<section, stored, form, disabled, pressed, missed, apart>>

\* Pushes were retried: the page renders anew; quantities are fractional: it is loaded anew.
PressAccepted(s) ==
  /\ posts[s].op = "press" /\ posts[s].st = "ok"
  /\ posts' = [posts EXCEPT ![s] = [op |-> "render", st |-> "sent"]]
  /\ apart' = ~Others(s)
  /\ UNCHANGED <<section, stored, form, disabled, pressed, flags, told, missed>>
PressFails(s) ==
  /\ posts[s].op = "press" /\ Over(s) /\ pressed' = FALSE
  /\ missed' = (missed \/ posts[s].st = "ok")
  /\ UNCHANGED <<section, stored, form, disabled, flags, told, apart>>

\* What is marked once a save has failed; the grants that do not load, or are not cleared,
\* are told in a message only.
Revokes(p) == p.op = "put" /\ ~p.on
Marks(p) == CASE p.st = "refused" -> {"field"}
              [] p.op = "acl" \/ Revokes(p) -> form.errors
              [] OTHER -> {}
\* Broken variant: a failed save keeps its button.
SaveFailsDisabled(s) ==
  /\ posts[s].op \in {"save", "put", "acl"} /\ Over(s)
  /\ missed' = (missed \/ posts[s].st = "ok")
  /\ form' = Applied(Marks(posts[s]))
  /\ told' = IF posts[s].op = "save" THEN NotSaved ELSE told
  /\ UNCHANGED <<section, stored, disabled, pressed, flags, apart>>
SaveFails(s) ==
  /\ posts[s].op \in {"save", "put", "acl"} /\ Over(s)
  /\ missed' = (missed \/ posts[s].st = "ok") /\ disabled' = FALSE
  /\ form' = Applied(Marks(posts[s]))
  /\ told' = IF posts[s].op = "save" THEN NotSaved ELSE told
  /\ UNCHANGED <<section, stored, pressed, flags, apart>>

--------------------------------------------------------------------------------
Settle(s) == \/ Serve(s) \/ Refuse(s) \/ Paint(s) \/ PaintFails(s) \/ GrantsTold(s)
             \/ SaveAccepted(s) \/ LookupSaved(s) \/ SaveFails(s)
             \/ PressAccepted(s) \/ PressFails(s)
Save(s) == \/ SaveGuarded(s) \/ SavePolicies(s) \/ SaveConnections(s)
           \/ SaveLookup(s) \/ SaveRestock(s)
Admin(s) == \/ Save(s) \/ RetryPush(s) \/ EnableFractional(s) \/ Retry(s)
            \/ (\E c \in Cats : AddCategory(s, c) \/ RemoveCategory(s, c))
            \/ (\E u \in Subjects \cup {NoSubject}, on \in BOOLEAN : Put(s, u, on))
SettingsNext == \/ (\E s \in Slots : Settle(s) \/ Admin(s))
                \/ MoveStrict \/ RefuseAmounts
                \/ (\E v \in Values : Edit(v)) \/ (\E place \in Places : EditAmount(place))

SettingsSpec == SettingsInit /\ [][SettingsNext]_settingsVars
\* Every request is answered or fails.
SettingsFairSpec == /\ SettingsSpec
                    /\ \A s \in Slots : WF_settingsVars(Settle(s))

--------------------------------------------------------------------------------
\* Properties.

\* Of a section that disables its button while it saves, the server holds what the page
\* said last was saved: two saves of one page cannot overtake each other.
SavedIsStored ==
  section = "office" /\ Quiet /\ ~missed /\ told \in Values => stored.value = told

\* What was said to be saved has no field marked as refused, unless saves overlapped.
SavedIsUnmarked == told \in Values /\ Quiet /\ apart => form.errors = {}

\* The page's flags of the lookup are the server's, unless requests overlapped, a toggle
\* was moved while a save was under way, or an answer was lost.
FlagsAreStored ==
  section = "product-lookup" /\ Quiet /\ apart /\ ~missed => flags = stored.value

\* However a save or a retry ends, its button can be pressed again.
SaveButtonReturns == (disabled ~> ~disabled) /\ (pressed ~> ~pressed)

\* The grants, the categories and what the other button is for are shown as the server has
\* them, unless requests overlapped or an answer was lost: a grant saved or cleared is shown
\* from the answer, and a page is rendered anew where a button was pressed.
ListsAreTrue ==
  form.is = "form" /\ Quiet /\ apart /\ ~missed =>
    /\ section = "location-access" /\ form.known => form.grants = stored.grants
    /\ section = "restock" => form.rows = stored.cats
    /\ section \in HasButton => form.todo = stored.todo

\* Saving or clearing grants carries the strict mode along.  It changes it only if the
\* switch was moved, or the page did not know its state when the button was pressed, or
\* requests overlapped.
StrictIsChosen ==
  [][apart /\ stored'.strict # stored.strict =>
       \E s \in Slots : posts[s].op = "put" /\ posts[s].st = "sent"
                         /\ ~posts[s].sure]_settingsVars

\* Not so: the amounts that kept the restock settings from being saved are marked.  Those of
\* the categories are not.
WrongIsMarked == [][told' = NotSaved /\ told # NotSaved /\ form.wrong # {}
                      => form'.errors = form.wrong]_settingsVars
================================================================================
