------------------------------ MODULE Accounts ------------------------------
(***************************************************************************)
(* Who is logged in on the page, files/graph.js: SettingsModel with its    *)
(* collection of users, UserControlsView and the views it shows, and the   *)
(* login cookie (files/jquery-cookie-1.4.1.js).                            *)
(*                                                                         *)
(* p.cookie is the name in the cookie, and p.userName is theUserName.      *)
(***************************************************************************)
EXTENDS Dialogs

CONSTANTS
    UserNames,  \* names the user may log in with
    KeyName,    \* what UsersModel.parse() makes of the key of a name
    CookieName  \* what split(':') leaves of a name in the cookie

ASSUME AccountsAssumption ==
    /\ KeyName \in [UserNames -> UserNames] /\ CookieName \in [UserNames -> UserNames]
    /\ None \notin UserNames

Plain(name) == KeyName[name] = name /\ CookieName[name] = name

(* $.cookie('login', ...) and $.removeCookie('login') *)
setCookie(p, name) == [p EXCEPT !.cookie = name]
removeCookie(p) == [p EXCEPT !.cookie = None]

getLoggedInUser(p) ==
    IF p.cookie # None /\ findWhere(p, CookieName[p.cookie]) THEN CookieName[p.cookie] ELSE None

(* UsersModel.parse() of the settings "users". *)
parse(text) == [i \in DOMAIN text |-> KeyName[text[i]]]

(* The success() of fetch(), then that of SettingsModel.initialize(). *)
fetched(p, arg) ==
    Do(p, <<Call("reset", parse(arg.got.text)), Trigger("settings", "reset"), Trigger("users", "sync")>>)

login(p, name) ==
    IF findWhere(p, name) THEN Do(setCookie(p, name), <<Trigger("settings", "logged_in")>>)
    ELSE dialog(p, "user", name)

createUserAndLogin(p, name) ==
    Do(p, <<Call("create", name), Call("login", name),
            Call("saveSettings", [scope |-> name, data |-> None])>>)

logout(p) == Do(removeCookie(p), <<Trigger("settings", "logged_out")>>)

-----------------------------------------------------------------------------
(* The views *)

showViewsWhenNobodyIsLoggedIn(p) ==
    Do(p, <<slideUp("logout", <<slideDown("login")>>), Call("gotohash", None)>>)

showViewsWhenSomebodyIsLoggedIn(p) ==
    Do(p, <<slideUp("login", <<Call("slideDownMenu", "logout"), Call("somebody", None)>>)>>)

(* The rest of the callback; theDashboards.reload() is in Dashboards. *)
somebody(p) ==
    Do([p EXCEPT !.userName = getLoggedInUser(p), !.disabled = FALSE], <<Call("gotohash", None)>>)

(* The listener of "reset" *)
onReset(p) ==
    IF getLoggedInUser(p) = None THEN showViewsWhenNobodyIsLoggedIn(p)
    ELSE showViewsWhenSomebodyIsLoggedIn(p)

(* The listener of "logged_out": the page is loaded again. *)
onLoggedOut(p) == [p EXCEPT !.unload = TRUE]

(* What UserControlsView listens to. *)
ListenToModel(p) ==
    listenTo(listenTo(listenTo(p, "settings", "reset", "onReset"),
                      "settings", "logged_in", "showViewsWhenSomebodyIsLoggedIn"),
             "settings", "logged_out", "onLoggedOut")

=============================================================================
