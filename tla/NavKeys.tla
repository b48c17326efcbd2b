-------------------------------- MODULE NavKeys --------------------------------
\* The keys that move through the navigation and the settings' submenu
\* (src/js/common/navigation.js, templates/common/navigation.php).  The links are all those
\* of the navigation, the hidden ones of the submenu and of the help menu too; a hidden link
\* does not take the focus.
EXTENDS Integers, Sequences, SequencesExt

CONSTANTS
  Links,    \* the number of links of the navigation
  Parent,   \* the place of the settings' button among them
  Submenu,  \* the places of the settings' sections
  HelpMenu  \* the places of the links of the help popover
LinksAssumption == /\ Links \in Nat \ {0} /\ Parent \in 1..Links
                   /\ Submenu \subseteq 1..Links /\ Submenu # {}   \* navigation.php:135
                   /\ HelpMenu \subseteq 1..Links /\ HelpMenu # {}
                   /\ Parent \notin Submenu \cup HelpMenu

VARIABLES
  at,         \* the focused link, 0 before the first
  expanded,   \* the submenu is shown
  helping,    \* the help menu is shown
  onSettings, \* the page is one of the settings
  leaving     \* the browser is leaving for another page
keyVars == <<at, expanded, helping, onSettings, leaving>>

TypeOK == at \in 0..Links /\ {expanded, helping, onSettings, leaving} \subseteq BOOLEAN

\* The submenu is open on the pages of the settings.
KeysInit == /\ at = 0 /\ helping = FALSE /\ leaving = FALSE
            /\ onSettings \in BOOLEAN /\ expanded = onSettings

Shown == {l \in 1..Links : (l \in Submenu => expanded) /\ (l \in HelpMenu => helping)}

\* setupKeyboardNavigation: the link a key asks for.
Keys == {"ArrowDown", "ArrowUp", "Home", "End"}
\* Broken variant: ArrowUp asks for the link it is pressed on.
TargetStill(key, l) ==
  CASE key = "ArrowDown" -> IF l = Links THEN 1 ELSE l + 1
    [] key = "ArrowUp" -> IF l = 1 THEN Links ELSE l
    [] key = "Home" -> 1
    [] key = "End" -> Links
Target(key, l) ==
  CASE key = "ArrowDown" -> IF l = Links THEN 1 ELSE l + 1
    [] key = "ArrowUp" -> IF l = 1 THEN Links ELSE l - 1
    [] key = "Home" -> 1
    [] key = "End" -> Links
Press(key) ==
  /\ at # 0 /\ at' = (IF Target(key, at) \in Shown THEN Target(key, at) ELSE at)
  /\ UNCHANGED <<expanded, helping, onSettings, leaving>>

\* Tab, or a click.
FocusLink(l) == l \in Shown /\ at' = l /\ UNCHANGED <<expanded, helping, onSettings, leaving>>

\* setupSubmenuToggles: from elsewhere, opening the submenu opens its first page.
\* Broken variant: it only opens the submenu.
ToggleSubmenuOnly ==
  /\ expanded' = ~expanded /\ at' = Parent
  /\ UNCHANGED <<helping, onSettings, leaving>>
ToggleSubmenu ==
  /\ expanded' = ~expanded /\ at' = Parent
  /\ leaving' = (leaving \/ (~expanded /\ ~onSettings /\ Submenu # {}))
  /\ UNCHANGED <<helping, onSettings>>
ToggleHelp ==
  /\ helping' = ~helping /\ at' = IF helping THEN 0 ELSE CHOOSE l \in HelpMenu : TRUE
  /\ UNCHANGED <<expanded, onSettings, leaving>>
\* The next page: the first of the settings.
Arrive ==
  /\ leaving /\ leaving' = FALSE /\ onSettings' = TRUE /\ expanded' = TRUE
  /\ helping' = FALSE /\ at' = 0

KeysNext == \/ (\E key \in Keys : Press(key)) \/ (\E l \in 1..Links : FocusLink(l))
            \/ ToggleSubmenu \/ ToggleHelp \/ Arrive
KeysSpec == KeysInit /\ [][KeysNext]_keyVars

--------------------------------------------------------------------------------
\* Properties.

\* The arrow keys stop at a hidden submenu, but the others lead round it: every shown link is
\* reached from every other.
Reached(k) == FoldLeft(LAMBDA S, i : S \cup ({Target(key, l) : key \in Keys, l \in S} \cap Shown),
                       {k}, [i \in 1..Links |-> i])
EveryLinkIsReached == \A k \in Shown : Reached(k) = Shown

\* Outside the settings the submenu is never left open without its page being opened: "land
\* on the first settings section ... instead of leaving an empty expand" (navigation.js:57).
NoEmptyExpand == expanded => onSettings \/ leaving
================================================================================
