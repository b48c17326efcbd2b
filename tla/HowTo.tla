--------------------------------- MODULE HowTo ---------------------------------
\* The cards that tell how a page is used, and hide when asked to (stocktakeHowToCard,
\* pageHowToCard and accessQuickstartCard in src/js/app.js).  What was hidden is kept by the
\* browser, which several users may share, under a key of the user and the card; without its
\* storage the cards stay.  What a card offers depends on the role the page was loaded with.
EXTENDS Naturals, FiniteSets
CONSTANTS
  Users,      \* of one browser
  Pages,      \* pages that are visited
  MaxHidden   \* cards that are hidden

Settings == {"settings-office", "settings-notifications", "settings-quantities",
             "settings-location-access", "settings-connections", "settings-policies",
             "settings-product-lookup", "settings-license", "settings-support",
             "settings-restock", "settings-access"}
HowToAssumption ==
  Pages \subseteq {"dashboard", "items", "locations", "movements", "item-detail",
                   "location-detail", "stocktake", "stocktake-detail", "stocktake-new"}
                    \cup Settings

VARIABLES
  role,        \* of each user, at the server
  blocked,     \* the browser's storage is
  remembered,  \* its keys: users and cards
  tip,         \* the page in the browser: by whom, loaded for an office user, card shown
  hidden       \* cards users have hidden: by whom, where, loaded for an office user
tipVars == <<role, blocked, remembered, tip, hidden>>

Office(u) == role[u] # "field"
NoTip == [who |-> "nobody", page |-> "none", office |-> FALSE, shown |-> FALSE]
TypeOK ==
  /\ role \in [Users -> {"field", "office", "admin"}] /\ blocked \in BOOLEAN
  /\ \A key \in remembered : key[1] \in Users
  /\ \A h \in hidden : h \in Users \X Pages \X BOOLEAN
  /\ tip = NoTip \/ <<tip.who, tip.page>> \in Users \X Pages

HowToInit ==
  /\ role \in [Users -> {"field", "office", "admin"}] /\ blocked \in BOOLEAN
  /\ remembered = {} /\ tip = NoTip /\ hidden = {}

--------------------------------------------------------------------------------
\* The cards: the key each is hidden under, and what its buttons start.
Card(key, offers) == [key |-> key, offers |-> offers]

\* Broken variant: one key for what both roles are taught.
OneDashboardCard(office) ==
  Card("dashboard", IF office THEN {"receive", "issue"} ELSE {"issue"})
DashboardCard(office) ==
  IF office THEN Card("dashboard", {"receive", "issue"}) ELSE Card("dashboard_field", {"issue"})

\* Broken variant: a button to receive stock, whoever reads the card.
ListCardForOffice(page, office) ==
  Card(page, CASE page = "items" -> {"item-new"} [] page = "locations" -> {"location-new"}
               [] OTHER -> {"receive"})
ListCard(page, office) ==
  Card(page, CASE page = "items" -> IF office THEN {"item-new"} ELSE {}
               [] page = "locations" -> IF office THEN {"location-new"} ELSE {}
               [] OTHER -> IF office THEN {"receive"} ELSE {"issue"})
DetailCard(page, office) ==
  Card(page, CASE office -> {"receive"} [] page = "item-detail" -> {"issue"} [] OTHER -> {})

StocktakeCard(page, office) ==
  CASE page = "stocktake-new" -> Card("stocktake_create", {})
    [] page = "stocktake-detail" -> Card("stocktake_detail", {})
    [] page = "stocktake" /\ office -> Card("stocktake_list", {"stocktake-new"})
    [] OTHER -> Card("stocktake_count", {})

\* accessQuickstartCard
AccessTip == Card("settings-access", {})
\* No card, where the page has none.
NoCard == Card("none", {})
SettingsCard(page) ==
  CASE page = "settings-access" -> AccessTip
    [] page = "settings-restock" -> NoCard
    [] OTHER -> Card(page, {})

CardOf(page, office) ==
  CASE page = "dashboard" -> DashboardCard(office)
    [] page \in {"items", "locations", "movements"} -> ListCard(page, office)
    [] page \in {"item-detail", "location-detail"} -> DetailCard(page, office)
    [] page \in Settings -> SettingsCard(page)
    [] OTHER -> StocktakeCard(page, office)

--------------------------------------------------------------------------------
\* wireDismissibleHint
\* Broken variant: the key does not name the user.
HiddenForAll(u, card) == ~blocked /\ \E v \in Users : <<v, card.key>> \in remembered
IsHidden(u, card) == ~blocked /\ <<u, card.key>> \in remembered

Loaded(u, page, office) ==
  LET card == CardOf(page, office)
  IN [who |-> u, page |-> page, office |-> office,
      shown |-> card # NoCard /\ ~IsHidden(u, card)]

\* A page starts a stocktake only for office users; settings are for administrators.
MayOpen(u, page) ==
  /\ page = "stocktake-new" => Office(u)
  /\ page \in Settings => role[u] = "admin"

Visit(u, page) ==
  /\ MayOpen(u, page) /\ tip' = Loaded(u, page, Office(u))
  /\ UNCHANGED <<role, blocked, remembered, hidden>>

\* After a booking or a save the page renders its card anew, as what it was loaded for.
Rerender ==
  /\ tip # NoTip /\ tip' = Loaded(tip.who, tip.page, tip.office)
  /\ UNCHANGED <<role, blocked, remembered, hidden>>

\* Broken variant: the card hides, and is not kept.
HideForNow ==
  /\ tip.shown /\ Cardinality(hidden) < MaxHidden
  /\ tip' = [tip EXCEPT !.shown = FALSE]
  /\ hidden' = hidden \cup {<<tip.who, tip.page, tip.office>>}
  /\ UNCHANGED <<role, blocked, remembered>>
Hide ==
  /\ tip.shown /\ Cardinality(hidden) < MaxHidden
  /\ tip' = [tip EXCEPT !.shown = FALSE]
  /\ hidden' = hidden \cup {<<tip.who, tip.page, tip.office>>}
  /\ remembered' = IF blocked THEN remembered
                   ELSE remembered \cup {<<tip.who, CardOf(tip.page, tip.office).key>>}
  /\ UNCHANGED <<role, blocked>>

\* ConfigController: the rights of a user are changed while a page of his is open.
ChangeRole(u, r) ==
  /\ r # role[u] /\ role' = [role EXCEPT ![u] = r]
  /\ UNCHANGED <<blocked, remembered, tip, hidden>>

HowToNext ==
  \/ Rerender \/ Hide
  \/ \E u \in Users : \/ (\E page \in Pages : Visit(u, page))
                      \/ (\E r \in {"field", "office", "admin"} : ChangeRole(u, r))
HowToSpec == HowToInit /\ [][HowToNext]_tipVars

--------------------------------------------------------------------------------
\* Properties.

\* A card that a user has hidden stays hidden for that user, unless the browser keeps
\* nothing; none is hidden from a user who did not hide it, on that page; and where the roles
\* are taught different tasks, whoever changes the role is taught the other one.
TipsAreRemembered ==
  tip # NoTip /\ CardOf(tip.page, tip.office) # NoCard =>
    /\ tip.shown => blocked \/ <<tip.who, tip.page, tip.office>> \notin hidden
    /\ ~tip.shown => \E office \in BOOLEAN :
         /\ <<tip.who, tip.page, office>> \in hidden
         /\ tip.page \in {"dashboard", "stocktake"} => office = tip.office

\* The server's rule: receiving and new masters and stocktakes are for office users
\* (AccessControl::requireOffice); anyone may issue.
Allowed(u) == IF Office(u) THEN {"receive", "issue", "item-new", "location-new", "stocktake-new"}
              ELSE {"issue"}
\* A card offers what the server lets its reader do, unless his role changed since the page
\* was loaded.
OfferedIsAllowed ==
  tip.shown /\ tip.office = Office(tip.who)
    => CardOf(tip.page, tip.office).offers \subseteq Allowed(tip.who)
================================================================================
