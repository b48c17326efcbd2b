-------------------------------- MODULE Toasts --------------------------------
\* Short messages (toast() of src/js/app.js) and the report link that the feedback script
\* adds to those of errors when it sees them appear (src/js/common/app-feedback.js).  A
\* message is shown once: announced again, its timer starts anew.
EXTENDS Naturals
CONSTANTS
  Messages,   \* kinds and texts
  Errors      \* those of errors
ToastAssumption == Errors \subseteq Messages

VARIABLES
  toasts,   \* the nodes of a message that are shown
  since,    \* time since the message was last announced, up to its time of display
  timers,   \* the timers of a message: the time each has left
  seen,     \* nodes the observer has still to look at
  links     \* the report links of the message
toastVars == <<toasts, since, timers, seen, links>>

Ttl(m) == IF m \in Errors THEN 2 ELSE 1

TypeOK ==
  /\ toasts \in [Messages -> 0..2] /\ links \in [Messages -> 0..2] /\ seen \in [Messages -> 0..2]
  /\ \A m \in Messages : since[m] \in 0..Ttl(m) /\ timers[m] \subseteq 0..Ttl(m)

ToastInit ==
  /\ toasts = [m \in Messages |-> 0] /\ since = [m \in Messages |-> 0]
  /\ timers = [m \in Messages |-> {}] /\ seen = toasts /\ links = toasts

\* toast().
\* Broken variant: the timer of the first announcement keeps running.
ToastKeepingTimer(m) ==
  /\ timers' = [timers EXCEPT ![m] = @ \cup {Ttl(m)}] /\ since' = [since EXCEPT ![m] = 0]
  /\ IF toasts[m] > 0 THEN UNCHANGED <<toasts, seen>>
     ELSE toasts' = [toasts EXCEPT ![m] = 1] /\ seen' = [seen EXCEPT ![m] = @ + 1]
  /\ UNCHANGED links
\* Broken variant: every call adds a node.
ToastStacked(m) ==
  /\ toasts[m] < 2
  /\ timers' = [timers EXCEPT ![m] = {Ttl(m)}] /\ since' = [since EXCEPT ![m] = 0]
  /\ toasts' = [toasts EXCEPT ![m] = @ + 1] /\ seen' = [seen EXCEPT ![m] = 1]
  /\ UNCHANGED links
Toast(m) ==
  /\ timers' = [timers EXCEPT ![m] = {Ttl(m)}] /\ since' = [since EXCEPT ![m] = 0]
  /\ IF toasts[m] > 0 THEN UNCHANGED <<toasts, seen>>
     ELSE toasts' = [toasts EXCEPT ![m] = 1] /\ seen' = [seen EXCEPT ![m] = 1]
  /\ UNCHANGED links

\* A timer removes the node and forgets the message; the next call adds a new one.
Remove(m) ==
  /\ 0 \in timers[m] /\ timers' = [timers EXCEPT ![m] = @ \ {0}]
  /\ toasts' = [toasts EXCEPT ![m] = 0] /\ links' = [links EXCEPT ![m] = 0]
  /\ UNCHANGED <<since, seen>>

\* attachReportLink: once for each node; the observer's records come after the node is in
\* the page, and at the latest before any timer.
\* Broken variant: the selector misses this app's errors.
ObserveNothing(m) ==
  /\ seen[m] > 0 /\ seen' = [seen EXCEPT ![m] = 0] /\ UNCHANGED <<toasts, since, timers, links>>
Observe(m) ==
  /\ seen[m] > 0 /\ seen' = [seen EXCEPT ![m] = 0]
  /\ links' = [links EXCEPT ![m] = IF m \in Errors /\ toasts[m] > 0 THEN 1 ELSE @]
  /\ UNCHANGED <<toasts, since, timers>>

\* Time passes when nothing is due.
Tick ==
  /\ \A m \in Messages : 0 \notin timers[m] /\ seen[m] = 0
  /\ timers' = [m \in Messages |-> {t - 1 : t \in timers[m]}]
  /\ since' = [m \in Messages |-> IF since[m] < Ttl(m) THEN since[m] + 1 ELSE since[m]]
  /\ UNCHANGED <<toasts, seen, links>>

ToastNext == (\E m \in Messages : Toast(m) \/ Remove(m) \/ Observe(m)) \/ Tick
ToastSpec == ToastInit /\ [][ToastNext]_toastVars

\* "identical kind+text toasts must not stack" (app.js:298): a message has one node.
OneToastPerMessage == \A m \in Messages : toasts[m] <= 1

\* A toast goes only after its full time, counted from the last call that announced it.
ToastsStay ==
  [][\A m \in Messages : toasts[m] > 0 /\ toasts'[m] = 0 => since[m] = Ttl(m)]_toastVars

\* When time passes every shown error has its report link, and never two.
LinkedOnce == \A m \in Messages : links[m] = IF m \in Errors /\ seen[m] = 0 THEN toasts[m] ELSE 0
================================================================================
