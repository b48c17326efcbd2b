------------------------------- MODULE ShellNav -------------------------------
\* The frame of every page: the navigation that is a drawer on narrow screens
\* (src/js/common/mobile-nav.js), the help popover at its foot (src/js/common/app-feedback.js)
\* and the dialog over the page (src/js/app.js), which share the focus, the Escape key and
\* the inert attribute.  The Menu button lies in the page, the popover in the navigation.
EXTENDS Naturals

VARIABLES
  wide,       \* the screen is wide (DESKTOP_MQ)
  turned,     \* it has changed and the change event is still to come
  drawer,     \* the navigation is open (ivc-nav--open)
  portal,     \* it hangs below body, out of the page's frame
  shellInert, \* the frame of the page is inert
  navHidden,  \* the navigation is aria-hidden
  traps,      \* keydown handlers of open drawers
  popover,    \* the help menu is shown
  dialogBox,  \* "none", "waiting" for what it shows, a "booking" form on its way, or "open"
  chromeInert,\* navigation and page are inert for the dialog; the Menu button is not
  focus       \* where the focus is; on body it is lost

shellVars == <<wide, turned, drawer, portal, shellInert, navHidden, traps, popover, dialogBox,
               chromeInert, focus>>

TypeOK ==
  /\ {wide, turned, drawer, portal, shellInert, navHidden, popover, chromeInert} \subseteq BOOLEAN
  /\ traps \in 0..1 /\ dialogBox \in {"none", "waiting", "booking", "open"}
  /\ focus \in {"page", "toggle", "nav", "trigger", "menu", "dialog", "body"}

ShellInit ==
  /\ wide \in BOOLEAN /\ navHidden = ~wide /\ turned = FALSE
  /\ drawer = FALSE /\ portal = FALSE /\ shellInert = FALSE /\ traps = 0
  /\ popover = FALSE /\ dialogBox = "none" /\ chromeInert = FALSE /\ focus = "body"

\* A click lands where neither an overlay nor an inert attribute is in its way.
PageIsReached == ~shellInert /\ ~chromeInert
NavIsReached == (wide \/ drawer) /\ ~chromeInert

--------------------------------------------------------------------------------
\* setOpen.  A navigation that is inert for a booking form takes no focus.
OpenDrawer ==
  /\ drawer' = TRUE /\ portal' = TRUE /\ shellInert' = TRUE /\ navHidden' = FALSE
  /\ traps' = traps + 1 /\ focus' = IF chromeInert THEN "body" ELSE "nav"
\* Broken variant: a drawer that closes on a wide screen leaves the page inert.
CloseDrawerInert == /\ drawer' = FALSE /\ portal' = FALSE /\ shellInert' = (shellInert /\ wide)
                    /\ navHidden' = ~wide /\ traps' = 0
CloseDrawer == /\ drawer' = FALSE /\ portal' = FALSE /\ shellInert' = FALSE
               /\ navHidden' = ~wide /\ traps' = 0
\* A navigation that is moved back into the page loses the focus it holds.
Moved(f) == IF portal /\ f \in {"nav", "trigger", "menu"} THEN "body" ELSE f

\* The Menu button, which wide screens do not show and an open drawer covers.
Toggle ==
  /\ ~wide /\ ~shellInert /\ dialogBox # "open" /\ ~drawer
  /\ OpenDrawer
  /\ UNCHANGED <<wide, turned, popover, dialogBox, chromeInert>>

\* The backdrop; a click outside the popover closes it, too.
Backdrop ==
  /\ drawer /\ ~wide /\ dialogBox # "open"
  /\ CloseDrawer /\ popover' = FALSE /\ focus' = "toggle"
  /\ UNCHANGED <<wide, turned, dialogBox, chromeInert>>

\* A link of the help menu opens the mail program: the drawer closes, the popover does not.
HelpLink ==
  /\ popover /\ NavIsReached
  /\ CloseDrawer /\ focus' = Moved("menu")
  /\ UNCHANGED <<wide, turned, popover, dialogBox, chromeInert>>

Resize ==
  /\ wide' = ~wide /\ turned' = TRUE
  /\ focus' = IF focus = "toggle" THEN "body" ELSE focus
  /\ UNCHANGED <<drawer, portal, shellInert, navHidden, traps, popover, dialogBox, chromeInert>>

\* onViewportChange.
\* Broken variant: only the navigation's aria-hidden follows the screen.
ViewportIgnored ==
  /\ turned /\ turned' = FALSE /\ navHidden' = (~wide /\ ~drawer)
  /\ UNCHANGED <<wide, drawer, portal, shellInert, traps, focus, popover, dialogBox, chromeInert>>
Viewport ==
  /\ turned /\ turned' = FALSE
  /\ IF wide THEN CloseDrawer /\ focus' = Moved(focus)
     ELSE /\ navHidden' = ~drawer
          /\ UNCHANGED <<drawer, portal, shellInert, traps, focus>>
  /\ UNCHANGED <<wide, popover, dialogBox, chromeInert>>

--------------------------------------------------------------------------------
\* The help popover's trigger, and a click into the page, which closes the popover.
Trigger ==
  /\ NavIsReached
  /\ popover' = ~popover /\ focus' = IF popover THEN "trigger" ELSE "menu"
  /\ UNCHANGED <<wide, turned, drawer, portal, shellInert, navHidden, traps, dialogBox, chromeInert>>
ClickPage ==
  /\ PageIsReached /\ popover' = FALSE /\ focus' = "page"
  /\ UNCHANGED <<wide, turned, drawer, portal, shellInert, navHidden, traps, dialogBox, chromeInert>>

\* A button whose dialog waits for what it shows is disabled; a booking form
\* (openMovementDialog) makes the page inert at once.  The drawer may be opened meanwhile.
AskDialog ==
  /\ PageIsReached /\ dialogBox = "none"
  /\ dialogBox' \in {"waiting", "booking"} /\ chromeInert' = (dialogBox' = "booking")
  /\ popover' = FALSE /\ focus' = "body"
  /\ UNCHANGED <<wide, turned, drawer, portal, shellInert, navHidden, traps>>
ShowDialog ==
  /\ dialogBox \in {"waiting", "booking"}
  /\ dialogBox' = "open" /\ chromeInert' = TRUE /\ focus' = "dialog"
  /\ UNCHANGED <<wide, turned, drawer, portal, shellInert, navHidden, traps, popover>>
\* Broken variant: the failure is told and the page stays as it is.
DialogFailsInert ==
  /\ dialogBox \in {"waiting", "booking"} /\ dialogBox' = "none"
  /\ UNCHANGED <<wide, turned, drawer, portal, shellInert, navHidden, traps, popover, chromeInert,
                 focus>>
DialogFails ==
  /\ dialogBox \in {"waiting", "booking"} /\ dialogBox' = "none" /\ chromeInert' = FALSE
  /\ UNCHANGED <<wide, turned, drawer, portal, shellInert, navHidden, traps, popover, focus>>
\* close(): the focus goes back to the button, if that can take it.
CloseDialog ==
  /\ dialogBox = "open" /\ dialogBox' = "none" /\ chromeInert' = FALSE
  /\ focus' = IF shellInert THEN "body" ELSE "page"
  /\ UNCHANGED <<wide, turned, drawer, portal, shellInert, navHidden, traps, popover>>

\* One Escape reaches all three handlers, in the order they were installed: the popover's,
\* the drawer's, the dialog's.
\* Broken variant: the focus is sent to the page before the page is freed.
EscapeUnordered ==
  /\ popover \/ drawer \/ dialogBox = "open"
  /\ popover' = FALSE
  /\ (IF drawer THEN CloseDrawer ELSE UNCHANGED <<drawer, portal, shellInert, navHidden, traps>>)
  /\ dialogBox' = (IF dialogBox = "open" THEN "none" ELSE dialogBox)
  /\ chromeInert' = (dialogBox = "booking")
  /\ focus' = IF drawer THEN Moved(focus)
              ELSE IF dialogBox = "open" THEN IF PageIsReached THEN "page" ELSE "body"
              ELSE IF popover THEN "trigger" ELSE focus
  /\ UNCHANGED <<wide, turned>>
Escape ==
  /\ popover \/ drawer \/ dialogBox = "open"
  /\ popover' = FALSE
  /\ (IF drawer THEN CloseDrawer ELSE UNCHANGED <<drawer, portal, shellInert, navHidden, traps>>)
  /\ dialogBox' = (IF dialogBox = "open" THEN "none" ELSE dialogBox)
  /\ chromeInert' = (dialogBox = "booking")
  /\ focus' = IF dialogBox = "open" THEN "page"
              ELSE IF drawer THEN IF wide THEN Moved(focus) ELSE "toggle"
              ELSE "trigger"
  /\ UNCHANGED <<wide, turned>>

ShellNext ==
  \/ Toggle \/ Backdrop \/ HelpLink \/ Resize \/ Viewport \/ Trigger \/ ClickPage
  \/ AskDialog \/ ShowDialog \/ DialogFails \/ CloseDialog \/ Escape
ShellSpec == ShellInit /\ [][ShellNext]_shellVars

--------------------------------------------------------------------------------
\* Properties.

\* Once a change of the screen has been told, an open drawer is modal and only on a narrow
\* screen: out of the frame, the page inert, one Tab handler; a closed one leaves none of it.
DrawerIsModal ==
  ~turned => /\ drawer => ~wide
             /\ shellInert = drawer /\ portal = drawer /\ (traps = 1) = drawer
             /\ navHidden = (~wide /\ ~drawer)

\* The drawer and the dialog mark the page inert each on their own: with neither open it is
\* free, except for a booking form on its way; that form, on its way or open, locks it.
PageIsFree == /\ ~drawer /\ dialogBox \in {"none", "waiting"} => PageIsReached
              /\ dialogBox \in {"booking", "open"} => chromeInert

\* Escape leaves nothing open and the focus where the user can see it; except for a popover
\* left open in a closed drawer (HelpLink) and between a change of the screen and its event.
OnScreen(f) == CASE f \in {"nav", "trigger", "menu"} -> wide \/ drawer
                 [] f = "toggle" -> ~wide
                 [] OTHER -> f = "page"
EscapeKeepsFocus ==
  [][Escape /\ ~turned /\ (popover => wide \/ drawer) =>
       ~popover' /\ ~drawer' /\ dialogBox' # "open" /\ OnScreen(focus)']_shellVars
================================================================================
