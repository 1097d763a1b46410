----------------------------- MODULE MCConsumer -----------------------------
EXTENDS Consumer

\* Each partition on a broker of its own.
EachItsOwn == [p \in Partitions |-> p]

\* The first partition has two messages from the start, the other gets one.
TwoAndNone == [p \in Partitions |-> IF p = 0 THEN 2 ELSE 0]

TwoAndOne == [p \in Partitions |-> IF p = 0 THEN 2 ELSE 1]
=============================================================================
