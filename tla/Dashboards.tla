----------------------------- MODULE Dashboards -----------------------------
(***************************************************************************)
(* The dashboards of the page, files/graph.js: the list of dashboards,     *)
(* loading, saving and deleting one, the address (location.hash) and the   *)
(* login, against the settings the server keeps for the page.              *)
(*                                                                         *)
(* Each action is one handler of the page or one request served by the     *)
(* daemon (GetSettingsWorker, SetSettingsWorker).  Requests go over        *)
(* several connections: they are served and answered in any order, so      *)
(* that the ones under way are a bag.  The content of a dashboard is the   *)
(* number of the save that made it.                                        *)
(***************************************************************************)
EXTENDS Naturals, FiniteSets, Bags, BagsExt

CONSTANTS
    Names,      \* names of dashboards
    None,
    Bookmark,   \* an address that holds the graphs themselves
    Stored,     \* what the server may hold at first, by scope and name
    Hashes,     \* the names the address may have at first
    MaxOps,     \* bound: what the user does
    MaxUnderWay,\* bound: requests under way when the user acts
    MaxFailures \* bound: requests that get no answer, and saves refused

Scopes == {"global", "user"}

ASSUME DashboardsAssumption ==
    /\ Stored \subseteq [Scopes -> [Names -> {0, 1}]]
    /\ None \notin Names /\ Bookmark \notin Names /\ None # Bookmark
    /\ Hashes \subseteq Names \cup {None, Bookmark}
    /\ MaxOps \in Nat /\ MaxUnderWay \in Nat /\ MaxFailures \in Nat

VARIABLES
    server,     \* the settings: the content of each dashboard, 0 for none
    account,    \* the server knows the user
    page,       \* globals of the page
    loads,      \* load_dashboard() under way
    saves,      \* saveSettings() under way
    listings,   \* requests of DashboardList.reload() under way
    list,       \* DashboardList
    fetch,      \* users.fetch()
    ops, losses, refusals,
    mixed,      \* loads of two dashboards overlapped
    raced,      \* names of which a request was overtaken by a save
    twice       \* two reloads of the list overlapped

ghosts == <<mixed, raced, twice>>
vars == <<server, account, page, loads, saves, listings, list, fetch, ops, losses, refusals, ghosts>>

(* hash: the dashboard in location.hash; events: hashchange events to      *)
(* come; shown: what the grid shows, content 0 after an edit; current:     *)
(* currentDashboard; cookie: the login cookie; known: the user is in the   *)
(* collection of users; user: theUserName is set; slides: slideUp()        *)
(* animations whose callback will set it; told: dashboards the user was    *)
(* told could not be loaded; unsaved: ones of which a dialog said that the *)
(* save or the deletion failed.  The progress bar is in Dialogs.           *)
PageStates ==
    [hash : Names \cup {None, Bookmark}, events : Nat,
     shown : [scope : Scopes, name : Names \cup {Bookmark}, content : Nat] \cup {None},
     current : Names \cup {None},
     cookie : BOOLEAN, known : BOOLEAN, user : BOOLEAN, slides : Nat,
     told : SUBSET Names, unsaved : SUBSET Names]

(* items: how often each dashboard is in the list; byName: the list that   *)
(* the item in itemsByName is of, None if it was removed or never there;   *)
(* marked: the items with the class "current".                             *)
NoItems ==
    [items |-> [scope \in Scopes |-> [name \in Names |-> 0]],
     byName |-> [name \in Names |-> None], marked |-> {}]

(* A request that is not served yet has got None; the status of a save is  *)
(* that of its answer.                                                     *)
Loads == [name : Names, scope : Scopes, rest : BOOLEAN, got : Nat \cup {None}]
Saves == [name : Names \cup {None}, content : Nat, got : {None, "success", "error"}]
Listings == [scope : Scopes, got : SUBSET Names \cup {None}]

Fresh(cookie, hash) ==
    [hash |-> hash, events |-> 0, shown |-> None, current |-> None,
     cookie |-> cookie, known |-> FALSE, user |-> FALSE, slides |-> 0,
     told |-> {}, unsaved |-> {}]

Init ==
    /\ server \in Stored
    /\ account \in BOOLEAN
    /\ \E cookie \in BOOLEAN, hash \in Hashes :
        /\ cookie => account
        /\ page = Fresh(cookie, hash)
    /\ loads = EmptyBag /\ saves = EmptyBag /\ listings = EmptyBag
    /\ list = NoItems
    /\ fetch = "sent"
    /\ ops = 0 /\ losses = 0 /\ refusals = 0
    /\ mixed = FALSE /\ raced = {} /\ twice = FALSE

-----------------------------------------------------------------------------
(* Pieces of handlers *)

Named(requests) == {request.name : request \in BagToSet(requests)}

(* A request is served, or answered and followed by another. *)
Replace(requests, old, new) == BagAdd(BagRemove(requests, old), new)

(* Sets the loads and saves, and notes if two dashboards are loaded. *)
Requests(ls, ss) ==
    /\ loads' = ls
    /\ saves' = ss
    /\ mixed' = (mixed \/ Cardinality(Named(ls)) > 1)

(* Slip: an event even if the address stays the same. *)
MutantSetHash(p, name) == [p EXCEPT !.hash = name, !.events = @ + 1]

(* Assigning location.hash: an event if it changes. *)
SetHash(p, name) == [p EXCEPT !.hash = name, !.events = IF p.hash = name THEN @ ELSE @ + 1]

(* The dialog says that this dashboard did not load. *)
failed(p, name) == [p EXCEPT !.told = @ \cup {name}]

(* The dialog of saveSettings() says that the server refused. *)
refused(p, name) == [p EXCEPT !.unsaved = @ \cup ({name} \cap Names)]

(* load_dashboard() with its first context. *)
Load(name, scope, rest) == [name |-> name, scope |-> scope, rest |-> rest, got |-> None]

(* gotohash() and load_hash(): load_state() is done at once, and           *)
(* load_dashboard() has the contexts global and the user's.                *)
gotohash(p) ==
    /\ page' = IF p.hash = Bookmark
               THEN [p EXCEPT !.shown = [scope |-> "user", name |-> Bookmark, content |-> 0]]
               ELSE p
    /\ Requests(IF p.hash \in Names THEN BagAdd(loads, Load(p.hash, "global", p.user)) ELSE loads, saves)

(* Slip: the old items stay. *)
MutantReloadList(p) ==
    /\ UNCHANGED list
    /\ listings' = BagAdd(listings, [scope |-> IF p.user THEN "user" ELSE "global", got |-> None])
    /\ twice' = (twice \/ listings # EmptyBag)

(* DashboardList.reload(): without a user the list is the global one. *)
ReloadList(p) ==
    /\ list' = NoItems
    /\ listings' = BagAdd(listings, [scope |-> IF p.user THEN "user" ELSE "global", got |-> None])
    /\ twice' = (twice \/ listings # EmptyBag)

updateCurrentDashboard(l, current) ==
    IF current = None \/ l.byName[current] = None THEN [l EXCEPT !.marked = {}]
    ELSE [l EXCEPT !.marked = {[scope |-> l.byName[current], name |-> current]}]

(* Slip: the address is not set. *)
MutantOpenDashboard(p, load) ==
    [p EXCEPT
        !.shown = [scope |-> load.scope, name |-> load.name, content |-> load.got],
        !.current = load.name, !.told = @ \ {load.name}, !.unsaved = @ \ {load.name}]

openDashboard(p, load) ==
    [SetHash(p, load.name) EXCEPT
        !.shown = [scope |-> load.scope, name |-> load.name, content |-> load.got],
        !.current = load.name, !.told = @ \ {load.name}, !.unsaved = @ \ {load.name}]

(* The page is loaded again, without a hash: requests under way are cut    *)
(* off, and the server has served some of them.                            *)
PageReload(cookie) ==
    /\ page' = Fresh(cookie, None)
    /\ loads' = EmptyBag /\ saves' = EmptyBag /\ listings' = EmptyBag
    /\ list' = NoItems
    /\ fetch' = "sent"
    /\ mixed' = FALSE /\ raced' = {} /\ twice' = FALSE

-----------------------------------------------------------------------------
(* What the user does *)

ClickDashboard(scope, name) ==
    /\ list.items[scope][name] > 0
    /\ Requests(BagAdd(loads, Load(name, scope, FALSE)), saves)
    /\ UNCHANGED <<server, account, page, listings, list, fetch, twice, raced>>

(* save_dashboard_named(): the address changes while the POST is under     *)
(* way.                                                                    *)
SaveDashboard(name) ==
    /\ page.user
    /\ LET content == ops + 2
       IN  /\ page' = [SetHash(page, name) EXCEPT
                          !.shown = [scope |-> "user", name |-> name, content |-> content]]
           /\ Requests(loads, BagAdd(saves, [name |-> name, content |-> content, got |-> None]))
    /\ UNCHANGED <<server, account, listings, list, fetch, twice, raced>>

(* The remove button, also of an item of the global list, deletes the      *)
(* user's dashboard of that name.                                          *)
DeleteDashboard(scope, name) ==
    /\ page.user
    /\ list.items[scope][name] > 0
    /\ Requests(loads, BagAdd(saves, [name |-> name, content |-> 0, got |-> None]))
    /\ UNCHANGED <<server, account, page, listings, list, fetch, twice, raced>>

(* The user follows a bookmark or goes back. *)
EditHash(name) ==
    /\ page.hash # name
    /\ page' = SetHash(page, name)
    /\ UNCHANGED <<server, account, loads, saves, listings, list, fetch, ghosts>>

(* packup_state_as_hash() *)
CreateBookmark ==
    /\ page' = SetHash(page, Bookmark)
    /\ UNCHANGED <<server, account, loads, saves, listings, list, fetch, ghosts>>

(* The user changes the graphs. *)
EditGraphs ==
    /\ page.shown # None
    /\ page.shown.content # 0
    /\ page' = [page EXCEPT !.shown.content = 0]
    /\ UNCHANGED <<server, account, loads, saves, listings, list, fetch, ghosts>>

(* SettingsModel.login(), offered once the users are there: a user who is  *)
(* not among them is created.  The save without a name stands for the two  *)
(* POSTs of createUserAndLogin().                                          *)
Login ==
    /\ fetch = "done"
    /\ ~ page.user
    /\ page' = [page EXCEPT !.known = TRUE, !.cookie = TRUE, !.slides = @ + 1]
    /\ saves' = IF page.known THEN saves
                ELSE BagAdd(saves, [name |-> None, content |-> 0, got |-> None])
    /\ UNCHANGED <<server, account, loads, listings, list, fetch, ghosts>>

Logout ==
    /\ page.user
    /\ PageReload(FALSE)
    /\ UNCHANGED <<server, account>>

-----------------------------------------------------------------------------
(* Events of the page *)

HashChange ==
    /\ page.events > 0
    /\ gotohash([page EXCEPT !.events = @ - 1])
    /\ UNCHANGED <<server, account, listings, list, fetch, losses, twice, raced>>

(* The callback of slideUp() in showViewsWhenSomebodyIsLoggedIn(). *)
SomebodyIsLoggedIn(p) ==
    LET q == [p EXCEPT !.user = p.cookie /\ p.known]
    IN  ReloadList(q) /\ gotohash(q)

SlideDone ==
    /\ page.slides > 0
    /\ SomebodyIsLoggedIn([page EXCEPT !.slides = @ - 1])
    /\ UNCHANGED <<server, account, fetch, losses, raced>>

(* The answer of users.fetch(): "reset" shows the views of somebody (the   *)
(* login view is hidden already, so that slideUp() calls back at once) or  *)
(* of nobody.                                                              *)
UsersAnswer ==
    /\ fetch \in {"yes", "no"}
    /\ fetch' = "done"
    /\ LET p == [page EXCEPT !.known = (fetch = "yes")]
       IN  IF p.known /\ p.cookie
           THEN SomebodyIsLoggedIn(p)
           ELSE gotohash(p) /\ UNCHANGED <<listings, list, twice>>
    /\ UNCHANGED <<server, account, losses, raced>>

(* Without an answer, or any user, there is no "reset" and no login view. *)
UsersLost ==
    /\ fetch \notin {"done", "failed"}
    /\ losses + refusals < MaxFailures
    /\ losses' = losses + 1
    /\ fetch' = "failed"
    /\ UNCHANGED <<server, account, page, loads, saves, listings, list, ghosts>>

-----------------------------------------------------------------------------
(* Answers to the page *)

(* An answer that a save under way is about to make old is noted. *)
LoadAnswer(load) ==
    LET rest == BagRemove(loads, load)
    IN  /\ load.got # None
        /\ IF load.got # 0
           THEN page' = openDashboard(page, load) /\ Requests(rest, saves)
           ELSE IF load.rest
           THEN page' = page /\ Requests(Replace(loads, load, Load(load.name, "user", FALSE)), saves)
           ELSE page' = failed(page, load.name) /\ Requests(rest, saves)
        /\ list' = IF load.got # 0 THEN updateCurrentDashboard(list, load.name) ELSE list
        /\ raced' = raced \cup {name \in {load.name} :
                        load.scope = "user" /\ \E save \in BagToSet(saves) : save.name = name /\ save.got = None}
        /\ UNCHANGED <<server, account, listings, fetch, losses, twice>>

(* No answer: responseText is empty and the status 0, which passes for     *)
(* success; openDashboard() finds no dashboard in it and throws.           *)
LoadLost(load) ==
    /\ losses + refusals < MaxFailures
    /\ losses' = losses + 1
    /\ page' = failed(page, load.name)
    /\ Requests(BagRemove(loads, load), saves)
    /\ UNCHANGED <<server, account, listings, list, fetch, twice, raced>>

(* Slip: the deletion of the current dashboard leaves it on the screen. *)
MutantSaveAnswer(save) ==
    LET p == IF save.got = "error" THEN refused(page, save.name) ELSE page
    IN  /\ save.got # None
        /\ page' = p
        /\ Requests(loads, BagRemove(saves, save))
        /\ IF save.name = None THEN UNCHANGED <<listings, list, twice>> ELSE ReloadList(p)
        /\ UNCHANGED <<server, account, fetch, losses, raced>>

(* The callback runs after the dialog, too, as if the server had saved. *)
SaveAnswer(save) ==
    LET p == IF save.got = "error" THEN refused(page, save.name) ELSE page
    IN  /\ save.got # None
        /\ IF save.name = None
           THEN page' = p /\ Requests(loads, BagRemove(saves, save)) /\ UNCHANGED <<listings, list, fetch, twice, raced>>
           ELSE IF save.content = 0 /\ save.name = page.current
           THEN PageReload(page.cookie)
           ELSE page' = p /\ Requests(loads, BagRemove(saves, save)) /\ ReloadList(p) /\ UNCHANGED <<fetch, raced>>
        /\ UNCHANGED <<server, account, losses>>

(* No answer: the parse of the empty text throws, and the list is not      *)
(* loaded again.                                                           *)
SaveLost(save) ==
    /\ losses + refusals < MaxFailures
    /\ losses' = losses + 1
    /\ Requests(loads, BagRemove(saves, save))
    /\ UNCHANGED <<server, account, page, listings, list, fetch, twice, raced>>

(* on_userDashboards(): the items are added, and after the user's those of *)
(* the global list are asked for.                                          *)
on_userDashboards(listing, names) ==
    LET scope == listing.scope
        nu == [list EXCEPT
                  !.items[scope] = [name \in Names |-> @[name] + IF name \in names THEN 1 ELSE 0],
                  !.byName = [name \in Names |-> IF name \in names THEN scope ELSE @[name]]]
    IN  /\ list' = updateCurrentDashboard(nu, page.current)
        /\ listings' = IF scope = "global" THEN BagRemove(listings, listing)
                       ELSE Replace(listings, listing, [scope |-> "global", got |-> None])
        /\ UNCHANGED <<server, account, page, loads, saves, fetch, ghosts>>

ListAnswer(listing) ==
    /\ listing.got # None
    /\ on_userDashboards(listing, listing.got)
    /\ UNCHANGED losses

(* No answer passes for an empty one. *)
ListLost(listing) ==
    /\ losses + refusals < MaxFailures
    /\ losses' = losses + 1
    /\ on_userDashboards(listing, {})

-----------------------------------------------------------------------------
(* The server *)

(* GetSettingsWorker: 404 when nothing matches. *)
ServeLoad(load) ==
    /\ load.got = None
    /\ loads' = Replace(loads, load, [load EXCEPT !.got = server[load.scope][load.name]])
    /\ UNCHANGED <<server, account, page, saves, listings, list, fetch, losses, ghosts>>

ServeListing(listing) ==
    /\ listing.got = None
    /\ listings' = Replace(listings, listing,
                         [listing EXCEPT !.got = {name \in Names : server[listing.scope][name] # 0}])
    /\ UNCHANGED <<server, account, page, loads, saves, list, fetch, losses, ghosts>>

ServeUsers ==
    /\ fetch = "sent"
    /\ fetch' = IF account THEN "yes" ELSE "no"
    /\ UNCHANGED <<server, account, page, loads, saves, listings, list, losses, ghosts>>

(* SetSettingsWorker writes: an empty value deletes.  Noted are a load     *)
(* that was served before, and an earlier save or a deletion that is not   *)
(* served yet.                                                             *)
Write(save) ==
    /\ saves' = Replace(saves, save, [save EXCEPT !.got = "success"])
    /\ IF save.name = None
       THEN account' = TRUE /\ UNCHANGED server
       ELSE server' = [server EXCEPT !["user"][save.name] = save.content] /\ UNCHANGED account
    /\ raced' = raced \cup {name \in {save.name} :
                    \/ \E load \in BagToSet(loads) : load.name = name /\ load.scope = "user" /\ load.got # None
                    \/ \E other \in BagToSet(saves) :
                           other.name = name /\ other.got = None /\ other.content < save.content}
    /\ UNCHANGED refusals

(* It has no settings to write to (404), or finds fault with the request   *)
(* (400).  Of the two POSTs for a new user one may have been accepted.     *)
Refuse(save) ==
    /\ losses + refusals < MaxFailures
    /\ refusals' = refusals + 1
    /\ saves' = Replace(saves, save, [save EXCEPT !.got = "error"])
    /\ account' \in {account, account \/ save.name = None}
    /\ UNCHANGED <<server, raced>>

ServeSave(save) ==
    /\ save.got = None
    /\ Write(save) \/ Refuse(save)
    /\ UNCHANGED <<page, loads, listings, list, fetch, losses, mixed, twice>>

-----------------------------------------------------------------------------

UserNext ==
    /\ page.events = 0
    /\ ops < MaxOps
    /\ BagCardinality(loads) + BagCardinality(saves) + BagCardinality(listings) <= MaxUnderWay
    /\ ops' = ops + 1
    /\ UNCHANGED <<losses, refusals>>
    /\ \/ \E name \in Names :
            \/ \E scope \in Scopes : ClickDashboard(scope, name) \/ DeleteDashboard(scope, name)
            \/ SaveDashboard(name)
            \/ EditHash(name)
       \/ CreateBookmark
       \/ EditGraphs
       \/ Login
       \/ Logout

(* A hashchange event is in the browser's queue from the start: answers    *)
(* that have arrived may be handled before it, but the user and the server *)
(* are slower.                                                             *)
ServerNext ==
    /\ page.events = 0
    /\ UNCHANGED ops
    /\ \/ ServeUsers /\ UNCHANGED refusals
       \/ \E load \in BagToSet(loads) : ServeLoad(load) /\ UNCHANGED refusals
       \/ \E save \in BagToSet(saves) : ServeSave(save)
       \/ \E listing \in BagToSet(listings) : ServeListing(listing) /\ UNCHANGED refusals

PageNext ==
    /\ UNCHANGED <<ops, refusals>>
    /\ \/ HashChange \/ SlideDone \/ UsersAnswer \/ UsersLost
       \/ \E load \in BagToSet(loads) : LoadAnswer(load) \/ LoadLost(load)
       \/ \E save \in BagToSet(saves) : SaveAnswer(save) \/ SaveLost(save)
       \/ \E listing \in BagToSet(listings) : ListAnswer(listing) \/ ListLost(listing)

Next == UserNext \/ ServerNext \/ PageNext

Spec == Init /\ [][Next]_vars

FairSpec == Spec /\ WF_vars(ServerNext \/ PageNext)

-----------------------------------------------------------------------------
(* Properties *)

TypeOK ==
    /\ server \in [Scopes -> [Names -> Nat]]
    /\ account \in BOOLEAN
    /\ page \in PageStates
    /\ IsABag(loads) /\ BagToSet(loads) \subseteq Loads
    /\ IsABag(saves) /\ BagToSet(saves) \subseteq Saves
    /\ IsABag(listings) /\ BagToSet(listings) \subseteq Listings
    /\ fetch \in {"sent", "yes", "no", "done", "failed"}

(* Nothing is under way. *)
Quiet ==
    /\ page.events = 0 /\ page.slides = 0
    /\ loads = EmptyBag /\ saves = EmptyBag /\ listings = EmptyBag
    /\ fetch \in {"done", "failed"}

(* However loads, saves, bookmarks and the login interleave: once nothing  *)
(* is under way, the dashboard in the address (what a copied link or a     *)
(* reload of the page would open) is the one on the screen, unless the     *)
(* user was told that it could not be loaded.                              *)
HashMatchesShown ==
    Quiet /\ fetch = "done" /\ page.hash \notin page.told \cup {None} =>
        page.shown # None /\ page.shown.name = page.hash

(* The dashboard on the screen, if the user has not edited it, is what the *)
(* server holds, also after the load that saving it starts by itself while *)
(* the POST is under way: what was saved is not lost, and what was deleted *)
(* does not stay.  Excepted are a dashboard whose save overtook a load or  *)
(* an earlier save of it (raced); one of which a dialog said that it could *)
(* not be loaded, saved or deleted; and the loss of an answer.             *)
ShownIsStored ==
    Quiet /\ losses = 0 /\ page.shown # None =>
        \/ page.shown.content = 0
        \/ page.shown.name \in raced \cup page.told \cup page.unsaved
        \/ page.shown.content = server[page.shown.scope][page.shown.name]

(* Once nothing is under way, the item that is marked in the list of       *)
(* somebody logged in is that of the dashboard on the screen, and only     *)
(* that, whichever of the dashboard and the list came first.  Of two items *)
(* with one name it is the one of everybody's dashboard, added last; a     *)
(* bookmark has none, nor one the user was told of.                        *)
CurrentMarked ==
    /\ Quiet /\ page.user /\ ~ twice /\ losses = 0
    /\ page.shown # None /\ page.shown.name \notin page.told \cup {Bookmark}
    => list.marked = LET name == page.shown.name
                         scopes == {scope \in Scopes : list.items[scope][name] > 0}
                     IN  CASE scopes = {}          -> {}
                           [] "global" \in scopes -> {[scope |-> "global", name |-> name]}
                           [] OTHER               -> {[scope |-> "user", name |-> name]}

(* Once nothing is under way, the list of somebody logged in has every     *)
(* dashboard of the server once and nothing else, after any saves and      *)
(* deletions, with the one on the screen marked, unless two reloads of the *)
(* list overlapped or one got no answer.                                   *)
ListExact ==
    /\ Quiet /\ page.user /\ ~ twice /\ losses = 0 =>
          \A scope \in Scopes, name \in Names :
              list.items[scope][name] = IF server[scope][name] = 0 THEN 0 ELSE 1
    /\ CurrentMarked

(* The page comes to rest: opening a dashboard sets the address, which     *)
(* opens the dashboard again, and that ends, unless loads of two           *)
(* dashboards overlapped; then each may go on setting the address of the   *)
(* other's.                                                                *)
Settles == ~ Quiet ~> (Quiet \/ mixed)

=============================================================================
