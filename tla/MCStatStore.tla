----------------------------- MODULE MCStatStore -----------------------------
(* Small instances of StatStore: names are numbers, the odd and the even   *)
(* ones in two shards.                                                     *)
EXTENDS StatStore

MCOneKey == {1}
MCKeys == {1, 2}
MCShardOf == [k \in MCKeys |-> k]
MCOneShardOf == [k \in MCOneKey |-> k]
MCDeleters == {"d1", "d2"}
MCOneDeleter == {"d1"}

=============================================================================
