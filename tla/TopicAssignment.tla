-------------------------- MODULE TopicAssignment --------------------------
(***************************************************************************)
(* The loop of createAndAssign: the metadata of one topic, a partition at  *)
(* a time, for any number of brokers and any replication factor that       *)
(* metadataManager.Init lets through.                                      *)
(***************************************************************************)
EXTENDS Assignment, Sequences

CONSTANTS
    MaxBrokers,    \* bound: largest number of brokers
    MaxPartitions  \* bound: largest numPartitions

VARIABLES
    n,      \* numBrokers
    rf,     \* replicationFactor
    first,  \* leaderBrokerID, the random first leader
    parts   \* topicMetadata.PartitionMetadata

vars == <<n, rf, first, parts>>

Init ==
    /\ n \in 1..MaxBrokers
    /\ rf \in 0..(n - 1)
    /\ first \in 0..(n - 1)
    /\ parts = <<>>

AddPartition ==
    /\ Len(parts) < MaxPartitions
    /\ parts' = Append(parts, PartitionMetadata(n, rf, first, Len(parts)))
    /\ UNCHANGED <<n, rf, first>>

Next == AddPartition

Spec == Init /\ [][Next]_vars

----------------------------------------------------------------------------
(* Properties.                                                             *)

Brokers == 0..(n - 1)

Holders(pm) == {b \in Brokers : ResponsibleFor(b, pm)}

\* Every copy of a partition is on a broker of its own: the leader and the
\* replicas exist, no broker is named twice, and the leader is not a replica.
CopiesApart == \A i \in DOMAIN parts : Apart(parts[i], n, rf)

\* The brokers that PartitionsResponsibleFor tells to create a partition are
\* the leader and replicationFactor others, as the comment on Init has it.
HeldByLeaderAndReplicas == \A i \in DOMAIN parts : Cardinality(Holders(parts[i])) = rf + 1

Led(b) == Cardinality({i \in DOMAIN parts : parts[i].leader = b})

\* Round robin: no broker leads two partitions more than another.
LeadersBalanced == \A b, c \in Brokers : Led(b) <= Led(c) + 1

\* The reading of REPLICATION_CONCEPTS.md and of the example in the comment on
\* PartitionsResponsibleFor, where the leader is one of the replicationFactor
\* copies of a partition.
HeldByReplicationFactor ==
    rf > 0 => \A i \in DOMAIN parts : Cardinality(Holders(parts[i])) = rf
=============================================================================
