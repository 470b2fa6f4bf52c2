----------------------------- MODULE MCGraphData -----------------------------
EXTENDS GraphData

MCGrids == {[start |-> 1, stop |-> 4, interval |-> 1], [start |-> 1, stop |-> 4, interval |-> 2]}

MCOneGrid == {[start |-> 1, stop |-> 4, interval |-> 1]}

=============================================================================
