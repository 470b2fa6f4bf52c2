---------------------------- MODULE MCGraphPage -----------------------------
EXTENDS GraphPage, TLC

MCDashboards == {[graphs |-> <<<<"a", "b">>>>, interval |-> 2, slider |-> 2, auto |-> FALSE]}

MCManualDates == {[start |-> 1, stop |-> 3]}

MCMarkers == <<2, 3>>

=============================================================================
