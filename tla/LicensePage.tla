------------------------------ MODULE LicensePage ------------------------------
\* The scanner slots and mobile seats of the licence section (renderSettings in
\* src/js/app.js, LicenseService on the server).  A pairing code is shown once, below the
\* lists, by the render it was asked for in.
EXTENDS Integers, FiniteSets
CONSTANTS
  Devices,   \* slots the licence allows
  MaxCodes,  \* bounds the codes generated
  MaxCalls,  \* requests that may be under way at once
  MaxRenders \* bounds the renders of the section

LicenseAssumption == Devices \subseteq Nat \ {0} /\ {MaxCodes, MaxCalls, MaxRenders} \subseteq Nat \ {0}

VARIABLES
  slots,     \* on the server, of each device: [is, code]; code 0 is none that pairs
  codes,     \* how many codes were generated
  spent,     \* codes a scanner has paired with, or whose day is over
  jobs,      \* requests under way
  render,    \* the render on the page, 0 before the first
  drawn,     \* renders asked for
  lists,     \* the slots the page shows
  code,      \* the code the page shows
  asked,     \* the open confirmation: its device, and the render it was opened in
  gone,      \* the answer to a change that took effect, or to a refresh, was lost
  serial     \* since the last render was asked for no request overlapped another, and none
             \* was confirmed that an earlier render had asked about

licenseVars == <<slots, codes, spent, jobs, render, drawn, lists, code, asked,
                 gone, serial>>

Nobody == 0
NotAsked == [device |-> Nobody, view |-> 0]
NoDevice == [is |-> "none", code |-> 0]
\* A request of render v about device d.  own: the dialog that waits for it is open.
Job(op, v, d) == [op |-> op, view |-> v, device |-> d, st |-> "sent",
                  own |-> op \in {"regenerate", "deactivate"}]
NoJob == [op |-> "none", st |-> "none", own |-> FALSE]
Jobs == 1..MaxCalls
Still == \A j \in Jobs : jobs[j] = NoJob
Others(j) == \E k \in Jobs \ {j} : jobs[k] # NoJob
FreeJob(j) == jobs[j] = NoJob /\ \A k \in Jobs : k < j => jobs[k] # NoJob
Put(j, job) == jobs' = [jobs EXCEPT ![j] = job]

\* A code belongs to one slot, and only an active slot has one.
TypeOK ==
  /\ \A d \in Devices : slots[d].is \in {"none", "pending", "paired", "expired", "inactive"}
  /\ \A d \in Devices : (slots[d].is = "pending") <=> slots[d].code \in 1..codes
  /\ \A d, e \in Devices : slots[d].code = slots[e].code /\ slots[d].code # 0 => d = e
  /\ codes \in 0..MaxCodes /\ spent \subseteq 1..codes
  /\ render \in 0..drawn /\ drawn \in 1..MaxRenders
  /\ asked = NotAsked => \A j \in Jobs : ~jobs[j].own
  /\ asked \in {NotAsked} \cup [device: Devices, view: 1..drawn]
  /\ code \in 0..codes /\ {gone, serial} \subseteq BOOLEAN
  /\ \A j \in Jobs : jobs[j].op \in {"none", "render", "lists", "create", "regenerate",
                                     "deactivate", "seat"}

LicenseInit ==
  /\ slots = [d \in Devices |-> NoDevice] /\ codes = 0 /\ spent = {}
  /\ jobs = [j \in Jobs |-> IF j = 1 THEN Job("render", 1, Nobody) ELSE NoJob]
  /\ render = 0 /\ drawn = 1 /\ code = 0 /\ asked = NotAsked
  /\ lists = [is |-> "none", of |-> slots]
  /\ gone = FALSE /\ serial = TRUE

--------------------------------------------------------------------------------
\* The server: createDevice, regeneratePairCode, deactivateDevice.
\* Bound: codes are generated up to MaxCodes.
NewCode(d) ==
  /\ codes < MaxCodes /\ codes' = codes + 1
  /\ slots' = [slots EXCEPT ![d] = [is |-> "pending", code |-> codes + 1]]

Free(d) == slots[d].is = "none" /\ \A e \in Devices : e < d => slots[e].is # "none"
Answer(j, got) == Put(j, [op |-> jobs[j].op, view |-> jobs[j].view, st |-> "ok",
                          own |-> jobs[j].own, got |-> got])
ServeCreate(j) ==
  /\ jobs[j].op = "create" /\ jobs[j].st = "sent"
  /\ \E d \in Devices : Free(d) /\ NewCode(d) /\ Answer(j, codes + 1)
  /\ UNCHANGED <<spent, render, drawn, lists, code, asked, gone, serial>>

\* An active slot's: the code before no longer pairs, and a paired scanner has to pair again.
ServeRegenerate(j) ==
  /\ jobs[j].op = "regenerate" /\ jobs[j].st = "sent"
  /\ slots[jobs[j].device].is \in {"pending", "paired", "expired"}
  /\ NewCode(jobs[j].device)
  /\ Answer(j, codes + 1)
  /\ UNCHANGED <<spent, render, drawn, lists, code, asked, gone, serial>>

ServeDeactivate(j) ==
  /\ jobs[j].op = "deactivate" /\ jobs[j].st = "sent"
  /\ slots' = [slots EXCEPT ![jobs[j].device] = [is |-> "inactive", code |-> 0]]
  /\ Answer(j, jobs[j].device)
  /\ UNCHANGED <<codes, spent, render, drawn, lists, code, asked, gone, serial>>

\* assignSeat, removeSeat, apply: what they change is not shown here.
ServeSeat(j) ==
  /\ jobs[j].op = "seat" /\ jobs[j].st = "sent"
  /\ Answer(j, Nobody)
  /\ UNCHANGED <<slots, codes, spent, render, drawn, lists, code, asked, gone, serial>>

ServeLists(j) ==
  /\ jobs[j].op \in {"render", "lists"} /\ jobs[j].st = "sent"
  /\ Answer(j, slots)
  /\ UNCHANGED <<slots, codes, spent, render, drawn, lists, code, asked, gone, serial>>

\* A scanner pairs with the code of its slot (pair of DevicePairingService), within a day of
\* its making: then the code is refused, and the slot is said to be expired.
Spend(d, is) ==
  /\ slots[d].is = "pending"
  /\ slots' = [slots EXCEPT ![d] = [is |-> is, code |-> 0]]
  /\ spent' = spent \cup {slots[d].code}
  /\ UNCHANGED <<codes, jobs, render, drawn, lists, code, asked, gone, serial>>
Pair(d) == Spend(d, "paired")
Expire(d) == Spend(d, "expired")

--------------------------------------------------------------------------------
\* The buttons.  "Create device slot" and the seats are not disabled while they wait.
Press(j, job) ==
  /\ render # 0 /\ asked = NotAsked /\ FreeJob(j) /\ Put(j, job)
  /\ serial' = (serial /\ Still)
  /\ UNCHANGED <<slots, codes, spent, render, drawn, lists, code, asked, gone>>
Create(j) == Press(j, Job("create", render, Nobody))
\* Assigning a seat, removing one and applying a key end in a new render alike.
Seat(j) == Press(j, Job("seat", render, Nobody))

\* Regenerate and Deactivate ask first, in a dialog that is open until the answer.  It may
\* outlive the render that opened it, and what it brings back is for the panels of that one.
Ask(d) ==
  /\ asked = NotAsked /\ lists.is = "shown" /\ lists.of[d].is \in {"pending", "paired", "expired"}
  /\ asked' = [device |-> d, view |-> render]
  /\ UNCHANGED <<slots, codes, spent, jobs, render, drawn, lists, code, gone, serial>>
Answering == \E j \in Jobs : jobs[j].own
Confirm(j, op) ==
  /\ asked # NotAsked /\ ~Answering /\ FreeJob(j)
  /\ Put(j, Job(op, asked.view, asked.device))
  /\ serial' = (serial /\ Still /\ asked.view = render)
  /\ UNCHANGED <<slots, codes, spent, render, drawn, lists, code, asked, gone>>

--------------------------------------------------------------------------------
\* Answers.
\* renderSettings: the page is cleared when its answer comes; the lists are asked for next.
\* Broken variant: the panel with the code is kept from the render before.
PaintKeepingCode(j) ==
  /\ jobs[j].op = "render" /\ jobs[j].st = "ok"
  /\ render' = jobs[j].view /\ lists' = [lists EXCEPT !.is = "none"] /\ code' = code
  /\ Put(j, Job("lists", jobs[j].view, Nobody))
  /\ UNCHANGED <<slots, codes, spent, drawn, asked, gone, serial>>
Paint(j) ==
  /\ jobs[j].op = "render" /\ jobs[j].st = "ok"
  /\ render' = jobs[j].view /\ lists' = [lists EXCEPT !.is = "none"] /\ code' = 0
  /\ Put(j, Job("lists", jobs[j].view, Nobody))
  /\ UNCHANGED <<slots, codes, spent, drawn, asked, gone, serial>>

\* refreshSeatsAndDevices fills the lists of its own render.
ListsArrive(j) ==
  /\ jobs[j].op = "lists" /\ jobs[j].st = "ok"
  /\ lists' = IF jobs[j].view = render THEN [is |-> "shown", of |-> jobs[j].got] ELSE lists
  /\ asked' = IF jobs[j].own THEN NotAsked ELSE asked
  /\ Put(j, NoJob)
  /\ UNCHANGED <<slots, codes, spent, render, drawn, code, gone, serial>>

\* showPairCodeOnce, and the lists anew; the confirmation waits for them too.
CodeArrives(j) ==
  /\ jobs[j].op \in {"create", "regenerate"} /\ jobs[j].st = "ok"
  /\ code' = IF jobs[j].view = render THEN jobs[j].got ELSE code
  /\ Put(j, [Job("lists", jobs[j].view, Nobody) EXCEPT !.own = jobs[j].own])
  /\ UNCHANGED <<slots, codes, spent, render, drawn, lists, asked, gone, serial>>

\* Broken variant: the device is deactivated and the page left as it is.
RenderAnewForSeats(j) ==
  /\ jobs[j].op \in {"deactivate", "seat"} /\ jobs[j].st = "ok" /\ drawn < MaxRenders
  /\ asked' = IF jobs[j].own THEN NotAsked ELSE asked
  /\ drawn' = drawn + 1
  /\ Put(j, IF jobs[j].op = "seat" THEN Job("render", drawn + 1, Nobody) ELSE NoJob)
  /\ serial' = ~Others(j)
  /\ UNCHANGED <<slots, codes, spent, render, lists, code, gone>>
\* Bound: as far as renders may be drawn.
RenderAnew(j) ==
  /\ jobs[j].op \in {"deactivate", "seat"} /\ jobs[j].st = "ok" /\ drawn < MaxRenders
  /\ asked' = IF jobs[j].own THEN NotAsked ELSE asked
  /\ drawn' = drawn + 1
  /\ Put(j, Job("render", drawn + 1, Nobody))
  /\ serial' = ~Others(j)
  /\ UNCHANGED <<slots, codes, spent, render, lists, code, gone>>

\* A message: a confirmation stays open with it; a render that fails leaves an error with
\* a button that renders anew.
Fails(j) ==
  /\ jobs[j] # NoJob /\ jobs[j].op # "render" /\ Put(j, NoJob)
  /\ gone' = (gone \/ jobs[j].st = "ok" \/ jobs[j].op = "lists")
  /\ UNCHANGED <<slots, codes, spent, render, drawn, lists, code, asked, serial>>
RenderFails(j) ==
  /\ jobs[j].op = "render"
  /\ render' = 0 /\ code' = 0 /\ lists' = [lists EXCEPT !.is = "none"]
  /\ Put(j, NoJob)
  /\ UNCHANGED <<slots, codes, spent, drawn, asked, gone, serial>>
Retry(j) ==
  /\ render = 0 /\ Still /\ FreeJob(j) /\ drawn < MaxRenders /\ drawn' = drawn + 1
  /\ Put(j, Job("render", drawn + 1, Nobody)) /\ serial' = TRUE
  /\ UNCHANGED <<slots, codes, spent, render, lists, code, asked, gone>>

\* Also while its request is under way: what comes back then finds no dialog to close.
CloseDialog ==
  /\ asked # NotAsked /\ asked' = NotAsked
  /\ jobs' = [j \in Jobs |-> [jobs[j] EXCEPT !.own = FALSE]]
  /\ UNCHANGED <<slots, codes, spent, render, drawn, lists, code, gone, serial>>

--------------------------------------------------------------------------------
Backend(j) == \/ ServeCreate(j) \/ ServeRegenerate(j) \/ ServeDeactivate(j) \/ ServeSeat(j)
              \/ ServeLists(j)
Settle(j) == \/ Paint(j) \/ ListsArrive(j) \/ CodeArrives(j) \/ RenderAnew(j)
             \/ Fails(j) \/ RenderFails(j)
Admin == \/ CloseDialog \/ (\E d \in Devices : Ask(d))
         \/ \E j \in Jobs : \/ Create(j) \/ Seat(j) \/ Retry(j)
                            \/ Confirm(j, "regenerate") \/ Confirm(j, "deactivate")
LicenseNext == \/ (\E j \in Jobs : Backend(j) \/ Settle(j)) \/ Admin
               \/ (\E d \in Devices : Pair(d) \/ Expire(d))
LicenseSpec == LicenseInit /\ [][LicenseNext]_licenseVars

--------------------------------------------------------------------------------
\* Properties.

Answered == Still /\ serial /\ ~gone

\* The code on the page pairs, or has paired, the scanner it was made for, or its day is over:
\* whatever was regenerated or deactivated meanwhile, no code that this took back is left to be
\* typed into a scanner.
ShownCodeWorks ==
  Answered /\ code # 0 => code \in spent \/ \E d \in Devices : slots[d].code = code

\* Once all is answered the list shows the slots as the server has them, but for those whose
\* code has been used, or has expired, since.
ListsAreCurrent ==
  Answered /\ lists.is = "shown" =>
    \A d \in Devices : \/ lists.of[d].is = slots[d].is
                       \/ lists.of[d].is = "pending" /\ slots[d].is \in {"paired", "expired"}
================================================================================
