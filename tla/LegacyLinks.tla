------------------------------ MODULE LegacyLinks ------------------------------
\* Links from the time of one settings page: the old page sends the browser to the first
\* section (PageController::settings), and the script there sends it on to the section that
\* owns the anchor (src/js/settings-legacy-redirect.js).  The two tables of anchors are kept
\* by hand on both sides.
EXTENDS Naturals
CONSTANTS
  Sections,        \* with a page of their own
  DefaultSection,
  Anchors,         \* fragments of a link; NoAnchor is none
  NoAnchor,
  Owner            \* the section of an anchor, for the known ones
LegacyAssumption ==
  /\ {"old page", "elsewhere"} \cap Sections = {}
  /\ DefaultSection \in Sections /\ NoAnchor \in Anchors
  /\ DOMAIN Owner \subseteq Anchors \ {NoAnchor} /\ \A a \in DOMAIN Owner : Owner[a] \in Sections

VARIABLES
  place,     \* the section whose page is open, "old page", or "elsewhere"
  anchor,    \* the fragment of the address
  link,      \* the address the user asked for
  readAnchor \* the script has run on this page

legacyVars == <<place, anchor, link, readAnchor>>
Places == Sections \cup {"old page", "elsewhere"}
TypeOK == /\ place \in Places /\ anchor \in Anchors /\ readAnchor \in BOOLEAN
          /\ link \in Places \X Anchors
LegacyInit == /\ place = "elsewhere" /\ anchor = NoAnchor /\ link = <<"elsewhere", NoAnchor>>
              /\ readAnchor = TRUE

\* The user follows a link or a bookmark; a page whose script has not run yet is left.
Follow(p, a) ==
  /\ place' = p /\ anchor' = a /\ link' = <<p, a>>
  /\ readAnchor' = (p = "elsewhere")

\* PageController::settings: 303 to the first section; the browser keeps the fragment.
OldPage ==
  /\ place = "old page" /\ place' = DefaultSection
  /\ UNCHANGED <<anchor, link, readAnchor>>

\* resolve: the section to go to, or none.
\* Broken variant: the section that is open is not compared.
TargetAnywhere(s, a) == IF a \in DOMAIN Owner THEN {Owner[a]} ELSE {}
Target(s, a) == IF a \in DOMAIN Owner THEN {Owner[a]} \ {s} ELSE {}

\* run: once for each page.
\* Broken variant: the fragment is not added to the new address.
RunWithoutFragment ==
  /\ place \in Sections /\ ~readAnchor
  /\ IF Target(place, anchor) = {} THEN readAnchor' = TRUE /\ UNCHANGED <<place, anchor>>
     ELSE /\ place' \in Target(place, anchor) /\ UNCHANGED readAnchor
          /\ anchor' = NoAnchor
  /\ UNCHANGED link
Run ==
  /\ place \in Sections /\ ~readAnchor
  /\ IF Target(place, anchor) = {} THEN readAnchor' = TRUE /\ UNCHANGED place
     ELSE place' \in Target(place, anchor) /\ UNCHANGED readAnchor
  /\ UNCHANGED <<anchor, link>>

LegacyNext == OldPage \/ Run \/ \E p \in Places, a \in Anchors : Follow(p, a)
LegacySpec == LegacyInit /\ [][LegacyNext]_legacyVars
LegacyFairSpec == LegacySpec /\ WF_legacyVars(OldPage \/ Run)

\* A link ends where its anchor lives, else on the section asked for, with its fragment.
LinkIsKept ==
  readAnchor /\ link[1] # "elsewhere" =>
    /\ anchor = link[2]
    /\ place = IF anchor \in DOMAIN Owner THEN Owner[anchor]
               ELSE IF link[1] = "old page" THEN DefaultSection ELSE link[1]

\* No link is sent round in circles: the browser comes to rest or the user leaves.
LinksSettle == []<>readAnchor \/ []<><<\E p \in Places, a \in Anchors : Follow(p, a)>>_legacyVars
================================================================================
