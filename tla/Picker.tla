-------------------------------- MODULE Picker --------------------------------
\* The search fields with chips of the settings (src/js/app.js): createIdPicker asks the
\* directory for users or groups, createLocalOptionPicker searches a list it was given.
EXTENDS Integers, Sequences, FiniteSets, SequencesExt
CONSTANTS
  Ids,        \* users, groups or options
  Texts,      \* what may be typed; "" is nothing, Short is one character
  Short,
  Finds,      \* [Texts -> SUBSET Ids]
  MaxAsks     \* bounds the searches under way

VARIABLES
  source,   \* "directory" or "local"
  multi,    \* picking adds a chip instead of replacing the one
  chips,    \* what is chosen
  word,     \* the text in the field
  alarm,    \* the text the timer will search for, or NoAlarm
  asks,     \* texts the directory is being asked for
  options,  \* the list below the field
  focus,    \* "input", "options" or "away"
  blurred   \* the timer that follows a blur of the field

pickerVars == <<source, multi, chips, word, alarm, asks, options, focus, blurred>>

NoAlarm == "no alarm"
PickerAssumption == /\ {"", Short} \subseteq Texts /\ NoAlarm \notin Texts
                    /\ Finds \in [Texts -> SUBSET Ids]
Shut == [is |-> "shut", text |-> "", ids |-> {}]
Message(is) == [is |-> is, text |-> "", ids |-> {}]
Options(text, ids) == IF ids = {} THEN Message("no match")
                      ELSE [is |-> "options", text |-> text, ids |-> ids]
Chosen == ToSet(chips)

\* A picker for one has at most one chip, and only the directory is waited for.
TypeOK ==
  /\ source \in {"directory", "local"} /\ multi \in BOOLEAN
  /\ Chosen \subseteq Ids /\ (~multi => Len(chips) <= 1)
  /\ word \in Texts /\ alarm \in Texts \cup {NoAlarm}
  /\ source = "local" => alarm = NoAlarm /\ asks = {}
  /\ options.is \in {"shut", "options", "no match", "too short", "searching", "failed"}
  /\ focus \in {"input", "options", "away"} /\ blurred \in BOOLEAN

PickerInit ==
  /\ source \in {"directory", "local"} /\ multi \in BOOLEAN
  /\ chips = <<>> /\ word = "" /\ alarm = NoAlarm /\ asks = {}
  /\ options = Shut /\ focus = "away" /\ blurred = FALSE

--------------------------------------------------------------------------------
\* The field.
\* filterOptions: what is chosen is not offered again.
FilterOptions(text) == Finds[text] \ Chosen

Type(text) ==
  /\ focus = "input" /\ text # word
  /\ word' = text
  /\ IF source = "local"
     THEN /\ options' = IF text = "" THEN Shut ELSE Options(text, FilterOptions(text))
          /\ UNCHANGED alarm
     ELSE /\ alarm' = IF text \in {"", Short} THEN NoAlarm ELSE text
          /\ options' = CASE text = "" -> Shut [] text = Short -> Message("too short")
                          [] OTHER -> options
  /\ UNCHANGED <<source, multi, chips, asks, focus, blurred>>

\* A short local list opens when the field is entered.
Enter ==
  /\ focus = "away" /\ focus' = "input"
  /\ options' = IF source = "local" THEN Options(word, FilterOptions(word)) ELSE options
  /\ UNCHANGED <<source, multi, chips, word, alarm, asks, blurred>>

ArrowDown ==
  /\ focus = "input" /\ options.is = "options"
  /\ focus' = "options" /\ blurred' = TRUE
  /\ UNCHANGED <<source, multi, chips, word, alarm, asks, options>>

LeaveField ==
  /\ focus # "away" /\ focus' = "away"
  /\ blurred' = (blurred \/ focus = "input")
  /\ UNCHANGED <<source, multi, chips, word, alarm, asks, options>>

\* Broken variant: the list stays.
BlurTimerOnly ==
  /\ blurred /\ blurred' = FALSE
  /\ UNCHANGED <<source, multi, chips, word, alarm, asks, options, focus>>
\* The list outlives a blur that went into it.
BlurTimer ==
  /\ blurred /\ blurred' = FALSE
  /\ options' = IF focus = "options" THEN options ELSE Shut
  /\ UNCHANGED <<source, multi, chips, word, alarm, asks, focus>>

--------------------------------------------------------------------------------
\* Chips.
\* Broken variant: a second pick is a second chip.
AddedTwice(id) == Append(chips, id)
Added(id) == IF id \in Chosen THEN chips ELSE Append(chips, id)

\* A click, which leaves the field, or Enter.  The timer goes on, and a local list opens
\* again as the field is entered.
Pick(id) ==
  /\ options.is = "options" /\ id \in options.ids
  /\ chips' = IF multi THEN Added(id) ELSE <<id>>
  /\ word' = "" /\ focus' = "input" /\ blurred' = (blurred \/ focus = "input")
  /\ options' = IF source = "local" THEN Options("", Finds[""] \ ToSet(chips')) ELSE Shut
  /\ UNCHANGED <<source, multi, alarm, asks>>

\* The chips that are not of this id stay; nothing is chosen twice (ChosenOnce), so one goes.
RemoveChip(id) ==
  /\ \E i \in DOMAIN chips : chips[i] = id /\ chips' = RemoveAt(chips, i)
  /\ UNCHANGED <<source, multi, word, alarm, asks, options, focus, blurred>>

--------------------------------------------------------------------------------
\* runSearch
TimerFires ==
  /\ alarm # NoAlarm /\ Cardinality(asks) < MaxAsks
  /\ asks' = asks \cup {alarm} /\ alarm' = NoAlarm
  /\ options' = Message("searching")
  /\ UNCHANGED <<source, multi, chips, word, focus, blurred>>

\* Broken variant: every answer is shown.
StillAnyText(text) == TRUE
StillTheText(text) == word = text

Answered(text) ==
  /\ text \in asks /\ asks' = asks \ {text}
  /\ \E answer \in {Options(text, Finds[text]), Message("failed")} :
       options' = IF StillTheText(text) THEN answer ELSE options
  /\ UNCHANGED <<source, multi, chips, word, alarm, focus, blurred>>

--------------------------------------------------------------------------------
Timers == TimerFires \/ BlurTimer
User == \/ Enter \/ ArrowDown \/ LeaveField
        \/ (\E t \in Texts : Type(t)) \/ (\E id \in Ids : Pick(id) \/ RemoveChip(id))
PickerNext == Timers \/ User \/ \E t \in asks : Answered(t)
PickerSpec == PickerInit /\ [][PickerNext]_pickerVars
PickerFairSpec == /\ PickerSpec /\ WF_pickerVars(Timers)
                  /\ WF_pickerVars(\E t \in asks : Answered(t))

--------------------------------------------------------------------------------
\* Properties.

\* Whoever is offered was found for the text in the field, unless that text is still to be
\* searched for: an answer to an earlier text is not shown.
OfferedAreFound == options.is = "options" /\ alarm = NoAlarm => options.text = word

\* A user or location is chosen once, and no local picker offers what is chosen.
ChosenOnce ==
  /\ Len(chips) = Cardinality(Chosen)
  /\ source = "local" => options.ids \cap Chosen = {}

\* The list of a field that was left is shut by its timer.  (A search still under way shows
\* its answer in it again: runSearch does not ask where the focus is.)
LeftListShuts == focus = "away" /\ blurred ~> focus # "away" \/ options = Shut
================================================================================
