------------------------------ MODULE KeyboardPad ------------------------------
\* The room made below a focused field while the on-screen keyboard is open
\* (src/js/common/keep-focused-visible.js): the field's page or dialog body, its host, gets
\* a bottom padding, and its own padding is kept in an attribute until it is given back.
\* How far the page scrolls is left out.
EXTENDS Integers
CONSTANTS
  Fields,      \* inputs of the page and of a dialog
  Typing,      \* those that open the keyboard
  InDialog,    \* those of the dialog
  Heights      \* of an open keyboard

Hosts == {"page", "dialog"}
NoField == "no field"
PadAssumption == /\ Typing \subseteq Fields /\ InDialog \subseteq Fields
                 /\ NoField \notin Fields /\ Heights \subseteq Nat \ {0}

VARIABLES
  keyboard,   \* its height, 0 when it is closed
  heard,      \* the resize event of the last change was handled
  focus,      \* the focused field, or NoField
  padding,    \* of each host in its style; 0 is none
  kept,       \* the attribute of each host: the padding it had, or NoAttribute
  paddedHost, \* the host that is padded, or NoHost
  retries,    \* reveals still to be tried
  blurTimer,  \* the timer of a focusout: "off", "on", or "void" after another event
  mistaken    \* history: hosts a keyboard's height was kept for, in place of their own padding

padVars == <<keyboard, heard, focus, padding, kept, paddedHost, retries, blurTimer,
             mistaken>>

NoAttribute == -1
NoHost == "no host"
Host(f) == IF f \in InDialog THEN "dialog" ELSE "page"

TypeOK ==
  /\ keyboard \in Heights \cup {0} /\ heard \in BOOLEAN /\ focus \in Fields \cup {NoField}
  /\ padding \in [Hosts -> Heights \cup {0}]
  /\ kept \in [Hosts -> Heights \cup {0, NoAttribute}]
  /\ paddedHost \in Hosts \cup {NoHost}
  /\ retries \in 0..2 /\ blurTimer \in {"off", "on", "void"} /\ mistaken \subseteq Hosts

PadInit ==
  /\ keyboard = 0 /\ heard = TRUE /\ focus = NoField
  /\ padding = [h \in Hosts |-> 0] /\ kept = [h \in Hosts |-> NoAttribute] /\ paddedHost = NoHost
  /\ retries = 0 /\ blurTimer = "off" /\ mistaken = {}

--------------------------------------------------------------------------------
\* ensureKeyboardScrollRoom
\* Broken variant: the attribute is removed, the padding stays.
GiveBackNothing(h) == kept' = [kept EXCEPT ![h] = NoAttribute] /\ UNCHANGED padding
GiveBack(h) == /\ padding' = IF kept[h] = NoAttribute THEN padding
                             ELSE [padding EXCEPT ![h] = kept[h]]
               /\ kept' = [kept EXCEPT ![h] = NoAttribute]
\* Broken variant: the last host is forgotten and not restored.
NoRoomForgetting == paddedHost' = NoHost /\ UNCHANGED <<padding, kept, mistaken>>
\* Height 0: the last host, or the page, gets its own padding back.
NoRoom == /\ GiveBack(IF paddedHost = NoHost THEN "page" ELSE paddedHost)
          /\ paddedHost' = NoHost /\ UNCHANGED mistaken

\* The host's padding is kept unless the attribute says one already: none, kept as "", counts
\* as not kept.
Keeps(h) == kept[h] \in {NoAttribute, 0}
\* Broken variant: a host padded before is left so.
RoomWithoutRestoring(f) ==
  LET h == Host(f)
  IN /\ padding' = [padding EXCEPT ![h] = keyboard]
     /\ kept' = [kept EXCEPT ![h] = IF Keeps(h) THEN padding[h] ELSE @]
     /\ paddedHost' = h
     /\ mistaken' = IF kept[h] = 0 THEN mistaken \cup {h} ELSE mistaken
\* A host padded before for a field elsewhere is restored first.
Room(f) ==
  LET h == Host(f)
      restored == {g \in Hosts \ {h} : g = paddedHost /\ kept[g] # NoAttribute}
  IN /\ padding' = [g \in Hosts |-> IF g = h THEN keyboard
                                    ELSE IF g \in restored THEN kept[g] ELSE padding[g]]
     /\ kept' = [g \in Hosts |-> IF g \in restored THEN NoAttribute
                                 ELSE IF g = h /\ Keeps(h) THEN padding[h] ELSE kept[g]]
     /\ paddedHost' = h
     /\ mistaken' = IF kept[h] = 0 THEN mistaken \cup {h} ELSE mistaken

\* revealActive, for the field with the focus.
Reveal(f) == IF f \in Typing /\ keyboard > 0 THEN Room(f)
             ELSE UNCHANGED <<padding, kept, paddedHost, mistaken>>

\* scheduleReveal: at once and, with the keyboard open, again after a while (RETRY_MS).
Schedule(f) ==
  /\ blurTimer' = "off"
  /\ IF keyboard = 0 THEN NoRoom /\ retries' = 0 ELSE Reveal(f) /\ retries' = 2

--------------------------------------------------------------------------------
\* Events.
\* The keyboard opens, grows or closes; the resize event comes later.
KeyboardMoves(height) ==
  /\ height # keyboard /\ keyboard' = height /\ heard' = FALSE
  /\ UNCHANGED <<focus, padding, kept, paddedHost, retries, blurTimer, mistaken>>
ResizeEvent ==
  /\ ~heard /\ heard' = TRUE
  /\ Schedule(focus)
  /\ UNCHANGED <<keyboard, focus>>

\* focusout of the field before stops the timers and starts one; focusin outdates it.
\* Broken variant: a field is revealed when the keyboard opens, not when it gets the focus.
FocusUnrevealed(f) ==
  /\ f # focus /\ focus' = f
  /\ retries' = 0 /\ UNCHANGED <<padding, kept, paddedHost, mistaken>>
  /\ blurTimer' = IF focus = NoField THEN blurTimer
                  ELSE IF f \in Typing THEN "void" ELSE "on"
  /\ UNCHANGED <<keyboard, heard>>
Focus(f) ==
  /\ f # focus /\ focus' = f
  /\ IF f \in Typing /\ keyboard > 0 THEN Schedule(f)
     ELSE /\ blurTimer' = IF f \in Typing /\ (focus # NoField \/ blurTimer = "on") THEN "void"
                          ELSE IF focus # NoField THEN "on" ELSE blurTimer
          /\ retries' = IF f \in Typing \/ focus # NoField THEN 0 ELSE retries
          /\ UNCHANGED <<padding, kept, paddedHost, mistaken>>
  /\ UNCHANGED <<keyboard, heard>>
Blur ==
  /\ focus # NoField /\ focus' = NoField
  /\ blurTimer' = "on" /\ retries' = 0
  /\ UNCHANGED <<keyboard, heard, padding, kept, paddedHost, mistaken>>

BlurTimer ==
  /\ blurTimer # "off" /\ blurTimer' = "off"
  /\ IF blurTimer = "on" /\ focus = NoField THEN NoRoom
     ELSE UNCHANGED <<padding, kept, paddedHost, mistaken>>
  /\ UNCHANGED <<keyboard, heard, focus, retries>>

RetryTimer ==
  /\ retries > 0 /\ retries' = retries - 1
  /\ Reveal(focus)
  /\ UNCHANGED <<keyboard, heard, focus, blurTimer>>

\* dialog() takes the room back when it closes; the next dialog is a new host.
CloseDialog ==
  /\ focus \in InDialog /\ focus' = NoField
  /\ padding' = [h \in Hosts |-> IF h = "dialog" THEN 0
                                 ELSE IF paddedHost = h /\ kept[h] # NoAttribute THEN kept[h]
                                 ELSE padding[h]]
  /\ kept' = [kept EXCEPT !["dialog"] = NoAttribute,
                          !["page"] = IF paddedHost = "page" THEN NoAttribute ELSE @]
  /\ paddedHost' = NoHost
  /\ mistaken' = mistaken \ {"dialog"}
  /\ UNCHANGED <<keyboard, heard, retries, blurTimer>>

PadNext ==
  \/ (\E height \in Heights \cup {0} : KeyboardMoves(height)) \/ ResizeEvent
  \/ (\E f \in Fields : Focus(f)) \/ Blur \/ BlurTimer \/ RetryTimer \/ CloseDialog
PadSpec == PadInit /\ [][PadNext]_padVars

--------------------------------------------------------------------------------
\* Properties.

\* Once the page has heard that the keyboard is closed, nothing is left to be given back: no
\* host is taken for padded and no padding is kept, whatever timer was still to fire.
NothingToGiveBack ==
  heard /\ keyboard = 0 => paddedHost = NoHost /\ \A h \in Hosts : kept[h] = NoAttribute

\* Then every host has its own padding again, none, unless a second reveal noted the
\* keyboard's height in its place: wherever the focus went and whichever host was padded
\* after it.
OwnPaddingIsGivenBack ==
  heard /\ keyboard = 0 => \A h \in Hosts \ mistaken : padding[h] = 0

\* At most one host has its padding kept: the one that the next restoring is for.
OneHostIsPadded == \A h \in Hosts : kept[h] # NoAttribute => h = paddedHost

\* A field that is typed into has the height of the keyboard below it.
FieldHasRoom ==
  heard /\ keyboard > 0 /\ focus \in Typing =>
    paddedHost = Host(focus) /\ padding[Host(focus)] = keyboard

\* "Keyboard dismissed / desktop: never leave sticky IME padding behind."
\* (keep-focused-visible.js:626)  It is refuted: the second reveal of a host takes the "" that
\* says it had no padding for nothing noted, and notes the keyboard's height (line 456).
NoStickyPadding == heard /\ keyboard = 0 => \A h \in Hosts : padding[h] = 0
================================================================================
