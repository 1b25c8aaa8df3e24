--------------------------- MODULE MCEventProducer ---------------------------
(***************************************************************************)
(* Small instances of EventProducer for TLC: two kinds of notifications,   *)
(* one that translates to an event and one that is rejected.               *)
(***************************************************************************)
EXTENDS EventProducerProperties, TLC

CONSTANT i1

ClusterUpdated ==
  [json |-> "ok", table |-> "clusters", op |-> "u", before |-> "nil", after |-> i1]

\* What Debezium writes after a deletion.
Tombstone ==
  [json |-> "bad", table |-> "clusters", op |-> "d", before |-> "nil", after |-> "nil"]

MCIds == {i1}
MCTables == {"clusters", "versions", "accounts"}
MCOps == {"c", "u", "d", "r"}
UpdateOrTombstone == {ClusterUpdated, Tombstone}
OnlyUpdates == {ClusterUpdated}

Symmetry == Permutations(Producers) \cup Permutations(OutPartitions)
=============================================================================
