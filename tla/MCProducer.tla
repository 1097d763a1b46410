----------------------------- MODULE MCProducer -----------------------------
EXTENDS Producer, TLC

CONSTANTS k1, k2

\* One key for each partition, and each partition on a broker of its own.
TwoHashes == (k1 :> 4) @@ (k2 :> 7)

EachItsOwn == [p \in Partitions |-> p]

\* The producer reaches both brokers, the admin client the second one.
ThreeLinks == {<<Producer, 0>>, <<Producer, 1>>, <<Admin, 0>>}
=============================================================================
