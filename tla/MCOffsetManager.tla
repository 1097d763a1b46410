-------------------------- MODULE MCOffsetManager --------------------------
EXTENDS OffsetManager, TLC

CONSTANTS c1, c2, k1, k2

\* Every consumer group member has its partition to itself.
OwnKey == (c1 :> k1) @@ (c2 :> k2)

\* Two members of a group consume the same partition: nothing assigns
\* partitions to members.
SharedKey == (c1 :> k1) @@ (c2 :> k1)
=============================================================================
