---------------------------- MODULE StocktakeStart ----------------------------
\* How a stocktake is started (src/js/app.js): the list of stocktakes with its button
\* (renderStocktakeList, openNewCampaignDialog), the page that asks for a location
\* (renderStocktakeNewPage, createLocationChooser), and the two requests that create the
\* campaign and start counting (createAndStartStocktake).
EXTENDS Integers, FiniteSets
CONSTANTS
  Terms,      \* what may be typed into the chooser's search; "" is nothing
  MaxPosts,   \* bounds the campaigns that are asked for
  MaxSearch   \* bounds the searches

StartAssumption == "" \in Terms /\ MaxPosts \in Nat /\ MaxSearch \in Nat

VARIABLES
  at,        \* the page: "list" or "new"; "left" once the count screen is called up
  places,    \* how many active locations there are: none, one or more
  panel,     \* "loading", "rows", "chooser", "no location" or "error"
  opening,   \* stocktakeOpenBusy: the button's masters are under way
  creating,  \* stocktakeCreating
  posts,     \* requests that create or start a campaign
  sentPosts, \* how many creations were sent
  created,   \* campaigns on the server that this page asked for
  lostPosts, \* creations whose answer was lost
  chooser    \* busy, its box, the timer, searchSeq, searches under way and the list shown

startVars == <<at, places, panel, opening, creating, posts, sentPosts, created, lostPosts,
               chooser>>
office == <<at, places>>
making == <<creating, posts, sentPosts, created, lostPosts>>

NoChooser == [busy |-> FALSE, box |-> "", due |-> FALSE, seq |-> 0, searches |-> {},
              shown |-> 0, term |-> ""]

\* Only a chooser that is on the page has a life of its own.
TypeOK ==
  /\ at \in {"list", "new", "left"} /\ places \in {"none", "one", "more"}
  /\ panel \in {"loading", "rows", "chooser", "no location", "error"}
  /\ {opening, creating, chooser.busy, chooser.due} \subseteq BOOLEAN
  /\ \A p \in posts : p.no \in 1..sentPosts /\ p.op \in {"create", "start"}
  /\ sentPosts \in 0..MaxPosts /\ created \in 0..MaxPosts /\ lostPosts \in 0..MaxPosts
  /\ chooser.box \in Terms /\ chooser.seq \in 0..MaxSearch
  /\ \A s \in chooser.searches : s.seq \in 1..chooser.seq /\ s.term # ""
  /\ panel # "chooser" => chooser = NoChooser

StartInit ==
  /\ at \in {"list", "new"} /\ places \in {"none", "one", "more"}
  /\ panel = "loading" /\ opening = FALSE /\ creating = FALSE
  /\ posts = {} /\ sentPosts = 0 /\ created = 0 /\ lostPosts = 0
  /\ chooser = NoChooser

--------------------------------------------------------------------------------
\* createAndStartStocktake
\* Broken variant: nobody is told that a campaign is being created.
SendUnmarked ==
  /\ sentPosts < MaxPosts
  /\ sentPosts' = sentPosts + 1
  /\ posts' = posts \cup {[no |-> sentPosts + 1, op |-> "create", served |-> FALSE]}
  /\ UNCHANGED <<creating, created, lostPosts>>
Send ==
  /\ sentPosts < MaxPosts
  /\ creating' = TRUE
  /\ sentPosts' = sentPosts + 1
  /\ posts' = posts \cup {[no |-> sentPosts + 1, op |-> "create", served |-> FALSE]}
  /\ UNCHANGED <<created, lostPosts>>

ServePost(p) ==
  /\ p \in posts /\ ~p.served
  /\ posts' = (posts \ {p}) \cup {[p EXCEPT !.served = TRUE]}
  /\ created' = IF p.op = "create" THEN created + 1 ELSE created
  /\ UNCHANGED <<office, panel, opening, creating, sentPosts, lostPosts, chooser>>

\* The campaign is there: it is started at once.
Created(p) ==
  /\ p \in posts /\ p.op = "create" /\ p.served
  /\ posts' = (posts \ {p}) \cup {[p EXCEPT !.op = "start", !.served = FALSE]}
  /\ UNCHANGED <<office, panel, opening, creating, sentPosts, created, lostPosts, chooser>>

\* Started or not, the count screen is called up.
Started(p) ==
  /\ p \in posts /\ p.op = "start"
  /\ at' = "left" /\ posts' = posts \ {p}
  /\ UNCHANGED <<places, panel, opening, creating, sentPosts, created, lostPosts, chooser>>

\* Broken variants: the flag is kept, or the rows go on taking no tap.
CreateFailsMarked(p) ==
  /\ p \in posts /\ p.op = "create"
  /\ posts' = posts \ {p}
  /\ lostPosts' = IF p.served THEN lostPosts + 1 ELSE lostPosts
  /\ chooser' = [chooser EXCEPT !.busy = FALSE]
  /\ UNCHANGED <<office, panel, opening, creating, sentPosts, created>>
CreateFailsBusy(p) ==
  /\ p \in posts /\ p.op = "create"
  /\ posts' = posts \ {p}
  /\ creating' = FALSE
  /\ lostPosts' = IF p.served THEN lostPosts + 1 ELSE lostPosts
  /\ UNCHANGED <<office, panel, opening, sentPosts, created, chooser>>
\* On the page for one location the chooser is painted after all.
CreateFails(p) ==
  /\ p \in posts /\ p.op = "create"
  /\ posts' = posts \ {p}
  /\ creating' = FALSE
  /\ lostPosts' = IF p.served THEN lostPosts + 1 ELSE lostPosts
  /\ chooser' = [chooser EXCEPT !.busy = FALSE]
  /\ panel' = IF at = "new" THEN "chooser" ELSE panel
  /\ UNCHANGED <<office, opening, sentPosts, created>>

--------------------------------------------------------------------------------
\* The list, and its button.
ListLoads == /\ at = "list" /\ panel = "loading"
             /\ panel' \in {"rows", "error"}
             /\ UNCHANGED <<office, opening, making, chooser>>

\* "New stocktake": the button itself is disabled as well, if it had the focus.
PressNew == /\ at = "list" /\ ~creating /\ ~opening
            /\ opening' = TRUE
            /\ UNCHANGED <<office, panel, making, chooser>>

\* With one location the chooser is skipped.
MastersAnswered ==
  /\ at = "list" /\ opening /\ opening' = FALSE
  /\ IF places = "one" /\ ~creating THEN Send ELSE UNCHANGED making
  /\ at' = IF places = "more" THEN "new" ELSE at
  /\ panel' = IF places = "more" THEN "loading" ELSE panel
  /\ UNCHANGED <<places, chooser>>

MastersFail == /\ at = "list" /\ opening /\ opening' = FALSE
               /\ UNCHANGED <<office, panel, making, chooser>>

--------------------------------------------------------------------------------
\* renderStocktakeNewPage
NewLoads ==
  /\ at = "new" /\ panel = "loading" /\ ~creating
  /\ IF places = "one" THEN Send /\ UNCHANGED panel
     ELSE panel' = (IF places = "more" THEN "chooser" ELSE "no location") /\ UNCHANGED making
  /\ UNCHANGED <<office, opening, chooser>>

NewFails == /\ at = "new" /\ panel = "loading" /\ ~creating
            /\ panel' = "error"
            /\ UNCHANGED <<office, opening, making, chooser>>

Retry == /\ at # "left" /\ panel = "error"
         /\ panel' = "loading"
         /\ UNCHANGED <<office, opening, making, chooser>>

OnChooser == at = "new" /\ panel = "chooser"

\* A tap on a row: no second tap until the creation has failed.
Pick == /\ OnChooser /\ ~chooser.busy
        /\ IF creating THEN UNCHANGED <<making, chooser>>
                       ELSE Send /\ chooser' = [chooser EXCEPT !.busy = TRUE]
        /\ UNCHANGED <<office, panel, opening>>

--------------------------------------------------------------------------------
\* The chooser's search, disabled while it is busy; timers and answers are not.
Search == UNCHANGED <<office, panel, opening, making>>

TypeTerm(t) == /\ OnChooser /\ ~chooser.busy /\ t # chooser.box
               /\ chooser' = [chooser EXCEPT !.box = t, !.due = TRUE]
               /\ Search

\* renderFromApi.  Without a term the list is made from the masters, and an answer under
\* way is not called off.
TermApplied ==
  /\ OnChooser /\ chooser.due
  /\ IF chooser.box = ""
     THEN chooser' = [chooser EXCEPT !.due = FALSE, !.term = ""]
     ELSE /\ chooser.seq < MaxSearch
          /\ chooser' = [chooser EXCEPT !.due = FALSE, !.seq = @ + 1,
               !.searches = @ \cup {[seq |-> chooser.seq + 1, term |-> chooser.box]}]
  /\ Search

\* Broken variant: the number is not looked at.
IsAnySearch(s) == TRUE
IsNewestSearch(s) == s.seq = chooser.seq

SearchDropped(s) == /\ OnChooser /\ s \in chooser.searches /\ ~IsNewestSearch(s)
                    /\ chooser' = [chooser EXCEPT !.searches = @ \ {s}]
                    /\ Search

SearchAnswered(s) ==
  /\ OnChooser /\ s \in chooser.searches /\ IsNewestSearch(s)
  /\ chooser' = [chooser EXCEPT !.searches = @ \ {s}, !.shown = s.seq, !.term = s.term]
  /\ Search

\* The masters are searched for what the box holds by then.
SearchFails(s) ==
  /\ OnChooser /\ s \in chooser.searches /\ IsNewestSearch(s)
  /\ chooser' = [chooser EXCEPT !.searches = @ \ {s}, !.shown = s.seq, !.term = chooser.box]
  /\ Search

--------------------------------------------------------------------------------
Posting == \E p \in posts : ServePost(p) \/ Created(p) \/ Started(p) \/ CreateFails(p)
Loading == ListLoads \/ NewLoads \/ NewFails
Masters == MastersAnswered \/ MastersFail
Searching == \E s \in chooser.searches : SearchDropped(s) \/ SearchAnswered(s) \/ SearchFails(s)
User == PressNew \/ Retry \/ Pick \/ (\E t \in Terms : TypeTerm(t))
StartNext ==
  /\ at # "left"
  /\ Posting \/ Loading \/ Masters \/ Searching \/ TermApplied \/ User

StartSpec == StartInit /\ [][StartNext]_startVars
\* Requests are answered or fail, and the timer fires.
StartFairSpec ==
  /\ StartSpec
  /\ WF_startVars(at # "left" /\ Posting) /\ WF_startVars(at # "left" /\ Masters)
  /\ WF_startVars(at # "left" /\ Searching)

--------------------------------------------------------------------------------
\* Properties.

\* One visit makes one campaign, however often button and rows are tapped while requests
\* are under way ("kill double-tap races"); one more for every answer that was lost.
OneCampaign == created + Cardinality({p \in posts : p.op = "create" /\ ~p.served})
                 <= 1 + lostPosts

\* A creation leads to the count screen or to a page that can try again; also when the
\* campaign was created and could not be started.
CreationEnds == creating ~> (at = "left" \/ ~creating)

\* The rows take no taps only while a creation is under way.
ChooserIsFree == chooser.busy /\ at # "left" => creating

\* The rows found are those of the newest search.
LatestSearch == INSTANCE LatestAnswer WITH asked <- chooser.seq, shown <- chooser.shown
NewestSearch == LatestSearch!Spec

\* ... and of the text in the box: once it is applied and its search is over, in whatever
\* order the searches before it were answered, failed or outlived it.
TypedIsFound ==
  chooser.box # "" /\ ~chooser.due /\ (\A s \in chooser.searches : s.seq # chooser.seq) =>
    chooser.term = chooser.box

\* So it should be for an emptied box, too, which shows every location.  Not so: emptying it
\* does not call off the search under way, whose answer replaces the list (app.js:6511).
TermIsShown == chooser.searches = {} /\ ~chooser.due => chooser.term = chooser.box
================================================================================
