----------------------------- MODULE Assignment -----------------------------
(***************************************************************************)
(* Which brokers hold a partition (core/metadata_manager.go): the leaders  *)
(* of a topic's partitions go round the n brokers from a random first one, *)
(* and the replicas of a partition are the rf brokers after its leader.    *)
(***************************************************************************)
EXTENDS Integers, FiniteSets

LeaderOf(n, first, i) == (first + i) % n

ReplicasOf(n, leader, rf) == [j \in 1..rf |-> (leader + j) % n]

\* The entry of partition i in the metadata of a topic.
PartitionMetadata(n, rf, first, i) ==
    [leader   |-> LeaderOf(n, first, i),
     replicas |-> ReplicasOf(n, LeaderOf(n, first, i), rf)]

ResponsibleFor(b, pm) ==
    pm.leader = b \/ \E j \in DOMAIN pm.replicas : pm.replicas[j] = b

\* The leader and the r replicas of a partition are r + 1 of m brokers.
Apart(pm, m, r) ==
    /\ pm.leader \in 0..(m - 1)
    /\ \A j \in 1..r : pm.replicas[j] \in (0..(m - 1)) \ {pm.leader}
    /\ \A j, k \in 1..r : j # k => pm.replicas[j] # pm.replicas[k]
=============================================================================
