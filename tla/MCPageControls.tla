--------------------------- MODULE MCPageControls ---------------------------
EXTENDS PageControls

(* ann:b is read back from the cookie as ann, and ann.c from the server. *)
MCKeyName == [name \in UserNames |-> IF name = "ann.c" THEN "ann" ELSE name]
MCCookieName == [name \in UserNames |-> IF name = "ann:b" THEN "ann" ELSE name]

MCElems == {"bar", "login", "logout"}

MCMarkers == <<10, 20>>

(* Dashboards that were saved before: with a size of the menu at the       *)
(* second marker, and zoomed with a size of its own.                       *)
MCDashboards ==
    {[size |-> "large", auto |-> TRUE, interval |-> 20, slider |-> 2, dropdown |-> "large",
      seen |-> [size |-> "large", auto |-> TRUE, span |-> 20, marker |-> 2]],
     [size |-> "custom", auto |-> FALSE, interval |-> 5, slider |-> 1, dropdown |-> "small",
      seen |-> [size |-> "custom", auto |-> FALSE, span |-> 5, marker |-> 1]]}

Start(users, d, cookie, hash, count, kinds) ==
    [users |-> users, dashboards |-> [scope \in Scopes |-> IF scope = "global" THEN d ELSE None],
     cookie |-> cookie, hash |-> hash, acts |-> count, session |-> kinds]

MCStarts ==
    {Start(users, None, cookie, None, IF cookie = None THEN 3 ELSE 4, {"Login", "Answers", "logout"}) :
        users \in {{}, {"ann"}}, cookie \in {None, "ann"}}
        \cup {Start({"ann"}, None, None, None, 4,
                    {"Answers", "Close", "chart_size", "advanced_tools", "small", "custom", "daterange", "refresh"})}
        \cup {Start({"ann"}, None, None, None, 5, {"Fields"})}
        \cup {Start({"ann"}, None, None, None, 3, {"tabtop_counters", "tabtop_dashboards", "hide_lefttab"})}
        \cup {Start({"ann"}, d, "ann", None, 3,
                    {"Dashboards", "Answers", "save_dashboard", "auto_refresh"}) : d \in MCDashboards}
        \cup {Start({"ann"}, None, None, None, 7,
                    {"Answers", "Close", "Xref", "advanced_tools", "xref_change", "regexp_change", "regexp_add"})}
        \cup {Start({"ann"}, d, None, "dashboard", 4, {"Drags", "hide_lefttab"}) : d \in MCDashboards}

Text(year, month, day) == [year |-> year, month |-> month, day |-> day]

Typed(from, to, samples) == [from |-> from, to |-> to, samples |-> samples]

(* Today is January 30, 2020.  From one year to the next with a number of  *)
(* samples, no interval, no date, no number, and in a February.            *)
MCRanges ==
    {Typed(Text(2019, 12, 25), Text(2020, 1, 3), 9), Typed(Text(2020, 1, 3), Text(2020, 1, 3), 0),
     Typed(None, Text(2020, 1, 3), 0), Typed(Text(2020, 1, 2), Text(2020, 1, 3), None),
     Typed(Text(2019, 2, 10), Text(2019, 12, 25), 0)}

(* Agents without a category, with one, and two that share one. *)
MCAgents == <<<<>>, <<4>>, <<1, 2>>, <<3, 2>>>>
MCCounters == {<<"cpu", 1>>, <<"cpu", 2>>}

MCZooms == {[start |-> 379, stop |-> 384]}

=============================================================================
