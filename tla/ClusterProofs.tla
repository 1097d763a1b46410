---------------------------- MODULE ClusterProofs ----------------------------
(***************************************************************************)
(* Machine-checked proofs about Cluster, for any number of brokers, topics,*)
(* partitions, requests and crashes, and with disk and network operations  *)
(* that fail.                                                              *)
(***************************************************************************)
EXTENDS Cluster, FiniteSetTheorems, WellFoundedInduction, TLAPS

----------------------------------------------------------------------------
(* Types.                                                                  *)

Served == (SUBSET Partitions) \cup {Absent}
Known == Metadata \cup {NoMeta}

\* The CreateTopic requests that a handler can be working on, by their stage.
AtInit == [pc : {"init"}, topic : Topics, nth : 1..MaxRequests]
AtMkdir == [pc : {"mkdir"}, topic : Topics]
AtParts == [pc : {"parts"}, topic : Topics, mine : SUBSET Partitions, left : SUBSET Partitions]
AtBcast == [pc : {"bcast", "await"}, topic : Topics, mine : SUBSET Partitions,
            meta : Metadata, peers : SUBSET Brokers]
Stage == {Idle} \cup AtInit \cup AtMkdir \cup AtParts \cup AtBcast

InsertCall == [from : Handlers \cup {Gone}, to : Brokers, topic : Topics, meta : Metadata,
               pc : {"update", "persist", "mkdir", "parts"}, isNew : BOOLEAN,
               mine : SUBSET Partitions, left : SUBSET Partitions]

\* TypeOK with the shape of the requests; a request is handled by a process that
\* runs, and finds the metadata that it stored, or newer.
TypeInv ==
    /\ up \in [Brokers -> BOOLEAN]
    /\ topics \in [Brokers -> [Topics -> Served]]
    /\ dirs \in [Brokers -> [Topics -> Served]]
    /\ meta \in [Brokers -> [Topics -> Known]]
    /\ metaLog \in [Brokers -> [Topics -> Known]]
    /\ closed \in [Brokers -> SUBSET Brokers]
    /\ creating \in [Handlers -> Stage]
    /\ shared \subseteq Handlers
    /\ inserts \subseteq InsertCall
    /\ skipped \in [Brokers -> SUBSET Topics]
    /\ starting \subseteq Brokers
    /\ \A c \in created : c.at \in Brokers /\ c.topic \in Topics /\ c.parts \subseteq Partitions
    /\ requests \in [Topics -> 0..MaxRequests]
    /\ \A h \in Handlers :
          /\ creating[h].pc # "idle" => up[On(h)]
          /\ creating[h].pc \in {"mkdir", "parts"} => meta[On(h)][creating[h].topic] # NoMeta

\* A handler past NewTopic's first step is the only one that ever got there for
\* its topic on its broker: the directory was not there before, and stays.
Owns(h) == creating[h].pc \in {"parts", "bcast", "await"}

Made(h) == IF creating[h].pc = "parts" THEN creating[h].mine \ creating[h].left
           ELSE creating[h].mine

\* The second half of AckedTopicSurvives.
AckedServed ==
    \A c \in created : up[c.at] /\ c.topic \notin skipped[c.at] =>
        topics[c.at][c.topic] # Absent /\ c.parts \subseteq topics[c.at][c.topic]

OwnerInv ==
    /\ \A h \in Handlers : Owns(h) =>
          /\ dirs[On(h)][creating[h].topic] # Absent
          /\ Made(h) \subseteq dirs[On(h)][creating[h].topic]
          /\ \A c \in created : c.at = On(h) => c.topic # creating[h].topic
          /\ \A g \in Handlers :
                g # h /\ Owns(g) /\ On(g) = On(h) => creating[g].topic # creating[h].topic
          /\ \A i \in inserts :
                i.pc = "parts" /\ i.to = On(h) => i.topic # creating[h].topic
    /\ \A i \in inserts : i.pc = "parts" =>
          /\ dirs[i.to][i.topic] # Absent
          /\ i.mine \ i.left \subseteq dirs[i.to][i.topic]
          /\ \A c \in created : c.at = i.to => c.topic # i.topic
          /\ \A j \in inserts : j.pc = "parts" /\ j.to = i.to /\ j.topic = i.topic => j = i
    /\ \A c \in created :
          /\ dirs[c.at][c.topic] # Absent
          /\ c.parts \subseteq dirs[c.at][c.topic]
    /\ AckedServed

\* What a handler works on has the shape of its stage.
LEMMA CreatingShape ==
  ASSUME TypeInv, NEW h \in Handlers
  PROVE  /\ On(h) \in Brokers
         /\ creating[h].pc \in {"idle", "init", "mkdir", "parts", "bcast", "await"}
         /\ creating[h].pc = "init" => creating[h] \in AtInit
         /\ creating[h].pc = "mkdir" => creating[h] \in AtMkdir
         /\ creating[h].pc = "parts" => creating[h] \in AtParts
         /\ creating[h].pc \in {"bcast", "await"} => creating[h] \in AtBcast
         /\ creating[h].pc # "idle" => creating[h].topic \in Topics
  <1>1. On(h) \in Brokers
    BY DEF Handlers, On
  <1>2. \/ creating[h] = Idle \/ creating[h] \in AtInit \/ creating[h] \in AtMkdir
        \/ creating[h] \in AtParts \/ creating[h] \in AtBcast
    BY DEF TypeInv, Stage
  <1>3. CASE creating[h] = Idle
    BY <1>1, <1>3 DEF Idle
  <1>4. CASE creating[h] \in AtMkdir
    BY <1>1, <1>4 DEF AtMkdir
  <1>5. CASE creating[h] \in AtParts
    BY <1>1, <1>5 DEF AtParts
  <1>6. CASE creating[h] \in AtBcast
    BY <1>1, <1>6 DEF AtBcast
  <1>7. CASE creating[h] \in AtInit
    BY <1>1, <1>7 DEF AtInit
  <1> QED  BY <1>2, <1>3, <1>4, <1>5, <1>6, <1>7

\* Metadata is metadata of some broker, and a set of partitions is never Absent.
LEMMA Distinguished ==
  /\ NoMeta \notin Metadata
  /\ Absent \notin SUBSET Partitions
  /\ -1 \notin Partitions
  <1>1. -1 \notin Partitions /\ -1 \notin Brokers
    BY ClusterAssumption DEF Partitions, Brokers
  <1>2. NoMeta.by = -1
    BY DEF NoMeta
  <1>3. \A m \in Metadata : m.by \in Brokers
    BY DEF Metadata
  <1> QED  BY <1>1, <1>2, <1>3 DEF Absent

\* The partition that is created next is one of those left.
LEMMA MinIn ==
  ASSUME NEW S, S \subseteq Partitions, S # {}
  PROVE  Min(S) \in S
  <1> DEFINE R == OpToRel(<, Nat)
  <1>1. IsWellFoundedOn(R, Nat)
    BY NatLessThanWellFounded
  <1>2. S \subseteq Nat
    BY ClusterAssumption DEF Partitions
  <1>3. PICK x \in S : \A y \in S : <<y, x>> \notin R
    <2> HIDE DEF R
    <2> QED  BY <1>1, <1>2, WFMin
  <1>4. \A y \in S : x <= y
    <2> TAKE y \in S
    <2>1. ~(y < x) /\ x \in Nat /\ y \in Nat
      BY <1>2, <1>3 DEF OpToRel
    <2> HIDE DEF R
    <2> QED  BY <2>1
  <1> HIDE DEF R
  <1> QED  BY <1>4 DEF Min

\* The partitions a broker is told to create are partitions.
LEMMA ResponsibleType ==
  \A b, m : PartitionsResponsibleFor(b, m) \in SUBSET Partitions
  BY DEF PartitionsResponsibleFor

\* One entry of a table of tables is replaced.
LEMMA EntryReplaced ==
  ASSUME NEW A, NEW B, NEW S, NEW f \in [A -> [B -> S]], NEW a \in A, NEW b \in B, NEW v \in S
  PROVE  [f EXCEPT ![a][b] = v] \in [A -> [B -> S]]
  OBVIOUS

\* persistToLog writes the entry or nothing.
LEMMA PersistType ==
  ASSUME TypeInv, NEW b \in Brokers, NEW t \in Topics, NEW m \in Metadata,
         PersistToLog(b, t, m)
  PROVE  metaLog' \in [Brokers -> [Topics -> Known]]
  <1>1. m \in Known
    BY DEF Known
  <1>2. metaLog \in [Brokers -> [Topics -> Known]]
    BY DEF TypeInv
  <1>3. CASE metaLog' = [metaLog EXCEPT ![b][t] = m]
    BY <1>1, <1>2, <1>3
  <1> QED  BY <1>2, <1>3 DEF PersistToLog

\* A handler that works on a request belongs to a broker that runs, and once
\* metadataManager.Init is done the broker knows the topic.
Sound(h) ==
    /\ creating[h].pc # "idle" => up[On(h)]
    /\ creating[h].pc \in {"mkdir", "parts"} => meta[On(h)][creating[h].topic] # NoMeta

\* CreateTopic's checks.
LEMMA CreateTopicType ==
  ASSUME TypeInv, NEW h \in Handlers, NEW t \in Topics, CreateTopic(h, t)
  PROVE  TypeInv'
  <1> DEFINE r == [pc |-> "init", topic |-> t, nth |-> requests[t] + 1]
  <1>1. requests[t] \in Nat /\ requests[t] < MaxRequests /\ MaxRequests \in Nat
    BY ClusterAssumption DEF CreateTopic, TypeInv
  <1>2. r \in AtInit /\ r \in Stage /\ r.pc = "init"
    BY <1>1 DEF AtInit, Stage
  <1>3. creating' = [creating EXCEPT ![h] = r] /\ up[On(h)] /\ requests' = [requests EXCEPT ![t] = @ + 1]
        /\ UNCHANGED <<up, topics, meta, metaLog, dirs, closed, inserts, starting, created, skipped, shared, crashes>>
    BY DEF CreateTopic
  <1> HIDE DEF r
  <1>4. creating' \in [Handlers -> Stage]
    BY <1>2, <1>3 DEF TypeInv
  <1>5. requests' \in [Topics -> 0..MaxRequests]
    BY <1>1, <1>3 DEF TypeInv
  <1>6. \A g \in Handlers : Sound(g)'
    <2> TAKE g \in Handlers
    <2>1. CASE g = h
      <3>1. creating'[g] = r  BY <1>3, <2>1 DEF TypeInv
      <3> QED  BY <1>2, <1>3, <2>1, <3>1 DEF Sound
    <2>2. CASE g # h
      <3>1. creating'[g] = creating[g]  BY <1>3, <2>2 DEF TypeInv
      <3> QED  BY <1>3, <3>1 DEF TypeInv, Sound
    <2> QED  BY <2>1, <2>2
  <1> QED  BY <1>3, <1>4, <1>5, <1>6 DEF TypeInv, Sound

\* metadataManager.Init.
LEMMA InitMetadataType ==
  ASSUME TypeInv, NEW h \in Handlers, InitMetadata(h)
  PROVE  TypeInv'
  <1> DEFINE t == creating[h].topic
  <1>1. On(h) \in Brokers /\ creating[h].pc = "init" /\ creating[h] \in AtInit /\ t \in Topics
    BY CreatingShape DEF InitMetadata
  <1>2. PICK first \in Brokers :
          LET m == [by |-> On(h), nth |-> creating[h].nth, first |-> first]
          IN  meta' = [meta EXCEPT ![On(h)][t] = m] /\ PersistToLog(On(h), t, m)
    BY DEF InitMetadata
  <1> DEFINE m == [by |-> On(h), nth |-> creating[h].nth, first |-> first]
             r == [pc |-> "mkdir", topic |-> t]
  <1>3. creating[h].nth \in 1..MaxRequests
    BY <1>1 DEF AtInit
  <1>4. m \in Metadata /\ m # NoMeta
    BY <1>1, <1>3, Distinguished DEF Metadata
  <1>5. r \in AtMkdir /\ r \in Stage
    BY <1>1 DEF AtMkdir, Stage
  <1>6. meta' = [meta EXCEPT ![On(h)][t] = m] /\ PersistToLog(On(h), t, m)
    BY <1>2
  <1>7. creating' = [creating EXCEPT ![h] = r] /\ up[On(h)]
        /\ UNCHANGED <<up, topics, dirs, closed, inserts, starting, created, requests, skipped, shared, crashes>>
    BY <1>1 DEF InitMetadata, TypeInv
  <1>8. r.pc = "mkdir" /\ r.topic = t
    OBVIOUS
  <1> HIDE DEF m, r, t
  <1>9. metaLog' \in [Brokers -> [Topics -> Known]]
    BY <1>1, <1>4, <1>6, PersistType
  <1>10. meta' \in [Brokers -> [Topics -> Known]]
    BY <1>1, <1>4, <1>6 DEF TypeInv, Known
  <1>11. creating' \in [Handlers -> Stage]
    BY <1>5, <1>7 DEF TypeInv
  <1>12. \A g \in Handlers : Sound(g)'
    <2> TAKE g \in Handlers
    <2>1. CASE g = h
      <3>1. creating'[g] = r  BY <1>7, <2>1 DEF TypeInv
      <3>2. meta'[On(h)][t] = m  BY <1>1, <1>6 DEF TypeInv
      <3> QED  BY <1>4, <1>7, <1>8, <2>1, <3>1, <3>2 DEF Sound
    <2>2. CASE g # h
      <3>1. creating'[g] = creating[g]  BY <1>7, <2>2 DEF TypeInv
      <3>2. On(g) \in Brokers /\ (creating[g].pc # "idle" => creating[g].topic \in Topics)
        BY CreatingShape
      <3> QED  BY <1>1, <1>4, <1>6, <1>7, <3>1, <3>2 DEF TypeInv, Sound
    <2> QED  BY <2>1, <2>2
  <1> QED  BY <1>7, <1>9, <1>10, <1>11, <1>12 DEF TypeInv, Sound

\* A handler goes on to a stage that fits what the broker knows.
LEMMA HandlerMoves ==
  ASSUME TypeInv, NEW h \in Handlers, NEW r \in Stage,
         creating' = [creating EXCEPT ![h] = r],
         r.pc # "idle" => creating[h].pc # "idle",
         r.pc \in {"mkdir", "parts"} =>
            r.topic = creating[h].topic /\ creating[h].pc \in {"mkdir", "parts"},
         up' = up, meta' = meta
  PROVE  /\ creating' \in [Handlers -> Stage]
         /\ \A g \in Handlers :
               /\ creating'[g].pc # "idle" => up'[On(g)]
               /\ creating'[g].pc \in {"mkdir", "parts"} => meta'[On(g)][creating'[g].topic] # NoMeta
  <1>1. creating' \in [Handlers -> Stage]
    BY DEF TypeInv
  <1>2. ASSUME NEW g \in Handlers
        PROVE  /\ creating'[g].pc # "idle" => up'[On(g)]
               /\ creating'[g].pc \in {"mkdir", "parts"} => meta'[On(g)][creating'[g].topic] # NoMeta
    <2>1. CASE g = h
      <3>1. creating'[g] = r  BY <2>1 DEF TypeInv
      <3> QED  BY <2>1, <3>1 DEF TypeInv
    <2>2. CASE g # h
      <3>1. creating'[g] = creating[g]  BY <2>2 DEF TypeInv
      <3> QED  BY <3>1 DEF TypeInv
    <2> QED  BY <2>1, <2>2
  <1> QED  BY <1>1, <1>2

\* The stages of CreateTopic after the checks.
LEMMA CreateStepType ==
  ASSUME TypeInv, OwnerInv, NEW h \in Handlers, CreateStep(h)
  PROVE  TypeInv'
  <1> DEFINE c == creating[h]
             b == On(h)
  <1>0. /\ b \in Brokers /\ Idle \in Stage /\ Idle.pc = "idle"
        /\ AtParts \subseteq Stage /\ AtBcast \subseteq Stage
    BY CreatingShape DEF Idle, Stage
  <1>1. CASE CreateDir(h)
    <2> DEFINE mine == PartitionsResponsibleFor(b, meta[b][c.topic])
               r == [pc |-> "parts", topic |-> c.topic, mine |-> mine, left |-> mine]
    <2>1. c.pc = "mkdir" /\ c.topic \in Topics
      BY <1>1, CreatingShape DEF CreateDir
    <2>2. r \in AtParts /\ r.pc = "parts" /\ r.topic = c.topic
      BY <2>1, ResponsibleType DEF AtParts
    <2>3. \/ dirs' = [dirs EXCEPT ![b][c.topic] = {}] /\ creating' = [creating EXCEPT ![h] = r]
          \/ dirs' = dirs /\ creating' = [creating EXCEPT ![h] = Idle]
      BY <1>1 DEF CreateDir
    <2>4. UNCHANGED <<up, topics, meta, metaLog, closed, inserts, starting, created, requests, skipped, shared, crashes>>
      BY <1>1 DEF CreateDir
    <2> HIDE DEF r, mine, c, b
    <2>5. dirs' \in [Brokers -> [Topics -> Served]]
      <3>1. {} \in Served  BY DEF Served
      <3>2. dirs \in [Brokers -> [Topics -> Served]]  BY DEF TypeInv
      <3>3. CASE dirs' = [dirs EXCEPT ![b][c.topic] = {}]
        BY <1>0, <2>1, <3>1, <3>2, <3>3, EntryReplaced
      <3> QED  BY <2>3, <3>2, <3>3
    <2>6. CASE creating' = [creating EXCEPT ![h] = r]
      BY <1>0, <2>1, <2>2, <2>4, <2>5, <2>6, HandlerMoves DEF TypeInv, c
    <2>7. CASE creating' = [creating EXCEPT ![h] = Idle]
      BY <1>0, <2>4, <2>5, <2>7, HandlerMoves DEF TypeInv
    <2> QED  BY <2>3, <2>6, <2>7
  <1>2. CASE CreatePartition(h)
    <2> DEFINE p == Min(c.left)
               r == [c EXCEPT !.left = @ \ {p}]
    <2>1. c.pc = "parts" /\ c \in AtParts /\ c.left # {} /\ c.topic \in Topics
      BY <1>2, CreatingShape DEF CreatePartition
    <2>2. p \in Partitions
      <3>1. c.left \subseteq Partitions  BY <2>1 DEF AtParts
      <3> QED  BY <2>1, <3>1, MinIn
    <2>3. /\ r \in AtParts /\ r.pc = "parts" /\ r.topic = c.topic
          /\ dirs[b][c.topic] \in SUBSET Partitions
      <3>1. dirs[b][c.topic] # Absent
        BY <2>1 DEF OwnerInv, Owns
      <3>2. dirs[b][c.topic] \in Served
        <4> HIDE DEF b, c
        <4> QED  BY <1>0, <2>1 DEF TypeInv
      <3> QED  BY <2>1, <3>1, <3>2 DEF AtParts, Served
    <2>4. \/ /\ dirs' = [dirs EXCEPT ![b][c.topic] = @ \cup {p}]
             /\ creating' = [creating EXCEPT ![h] = r]
          \/ /\ dirs' \in {dirs, [dirs EXCEPT ![b][c.topic] = @ \cup {p}]}
             /\ creating' = [creating EXCEPT ![h] = Idle]
      BY <1>2 DEF CreatePartition, PartitionFails
    <2>5. UNCHANGED <<up, topics, meta, metaLog, closed, inserts, starting, created, requests, skipped, shared, crashes>>
      BY <1>2 DEF CreatePartition
    <2> HIDE DEF r, p, c, b
    <2>6. dirs' \in [Brokers -> [Topics -> Served]]
      <3>1. dirs[b][c.topic] \cup {p} \in Served
        BY <2>2, <2>3 DEF Served
      <3>2. dirs \in [Brokers -> [Topics -> Served]]  BY DEF TypeInv
      <3>3. CASE dirs' = [dirs EXCEPT ![b][c.topic] = @ \cup {p}]
        BY <1>0, <2>1, <3>1, <3>2, <3>3, EntryReplaced
      <3> QED  BY <2>4, <3>2, <3>3
    <2>7. CASE creating' = [creating EXCEPT ![h] = r]
      BY <1>0, <2>1, <2>3, <2>5, <2>6, <2>7, HandlerMoves DEF TypeInv, c
    <2>8. CASE creating' = [creating EXCEPT ![h] = Idle]
      BY <1>0, <2>5, <2>6, <2>8, HandlerMoves DEF TypeInv
    <2> QED  BY <2>4, <2>7, <2>8
  <1>3. CASE BroadcastMetadata(h)
    <2> DEFINE r == [pc |-> "bcast", topic |-> c.topic, mine |-> c.mine,
                     meta |-> meta[b][c.topic], peers |-> Brokers \ {b}]
    <2>1. c.pc = "parts" /\ c \in AtParts /\ c.topic \in Topics
      BY <1>3, CreatingShape DEF BroadcastMetadata
    <2>2. meta[b][c.topic] \in Metadata
      <3>1. meta[b][c.topic] # NoMeta  BY <2>1 DEF TypeInv
      <3>2. meta[b][c.topic] \in Known
        <4> HIDE DEF b, c
        <4> QED  BY <1>0, <2>1 DEF TypeInv
      <3> QED  BY <3>1, <3>2 DEF Known
    <2>3. r \in AtBcast /\ r.pc = "bcast"
      BY <2>1, <2>2 DEF AtBcast, AtParts
    <2>4. creating' = [creating EXCEPT ![h] = r]
      BY <1>3 DEF BroadcastMetadata
    <2>5. UNCHANGED <<up, topics, meta, metaLog, dirs, closed, inserts, starting, created, requests, skipped, crashes>>
      BY <1>3 DEF BroadcastMetadata
    <2>6. shared' \subseteq Handlers
      BY <1>3 DEF BroadcastMetadata, Broadcasting, TypeInv
    <2> HIDE DEF r, c, b
    <2> QED  BY <1>0, <2>1, <2>3, <2>4, <2>5, <2>6, HandlerMoves DEF TypeInv, c
  <1>4. ASSUME NEW p \in Brokers, Broadcast(h, p) PROVE TypeInv'
    <2> DEFINE r == [c EXCEPT !.pc = "await", !.peers = @ \ {p}]
               i == [from |-> h, to |-> p, topic |-> c.topic, meta |-> c.meta,
                     pc |-> "update", isNew |-> FALSE, mine |-> {}, left |-> {}]
    <2>1. c.pc = "bcast" /\ c \in AtBcast
      BY <1>4, CreatingShape DEF Broadcast
    <2>2. r \in AtBcast /\ r.pc = "await" /\ i \in InsertCall
      BY <2>1 DEF AtBcast, InsertCall
    <2>3. creating' = [creating EXCEPT ![h] = r] /\ inserts' = inserts \cup {i}
      BY <1>4 DEF Broadcast, TypeInv
    <2>4. /\ closed' \in {closed, [closed EXCEPT ![b] = @ \cup {p}]}
          /\ UNCHANGED <<up, topics, meta, metaLog, dirs, starting, created, requests, skipped, shared, crashes>>
      BY <1>4 DEF Broadcast
    <2> HIDE DEF r, c, b, i
    <2>5. closed' \in [Brokers -> SUBSET Brokers] /\ inserts' \subseteq InsertCall
      <3>1. [closed EXCEPT ![b] = @ \cup {p}] \in [Brokers -> SUBSET Brokers]
        BY <1>0 DEF TypeInv
      <3>2. closed \in [Brokers -> SUBSET Brokers] /\ inserts \subseteq InsertCall
        BY DEF TypeInv
      <3> QED  BY <2>2, <2>3, <2>4, <3>1, <3>2
    <2> QED  BY <1>0, <2>1, <2>2, <2>3, <2>4, <2>5, HandlerMoves DEF TypeInv, c
  <1>5. ASSUME NEW p \in Brokers, BroadcastFails(h, p) PROVE TypeInv'
    <2> DEFINE r == [c EXCEPT !.peers = @ \ {p}]
    <2>1. c.pc = "bcast" /\ c \in AtBcast
      BY <1>5, CreatingShape DEF BroadcastFails
    <2>2. r \in AtBcast /\ r.pc = "bcast"
      BY <2>1 DEF AtBcast
    <2>3. /\ creating' = [creating EXCEPT ![h] = r]
          /\ UNCHANGED <<up, topics, meta, metaLog, dirs, closed, inserts, starting, created,
                         requests, skipped, shared, crashes>>
      BY <1>5 DEF BroadcastFails
    <2> HIDE DEF r, c, b
    <2> QED  BY <1>0, <2>1, <2>2, <2>3, HandlerMoves DEF TypeInv, c
  <1>6. CASE BroadcastReturns(h)
    <2> DEFINE r == [c EXCEPT !.pc = "bcast"]
    <2>1. c.pc = "await" /\ c \in AtBcast
      BY <1>6, CreatingShape DEF BroadcastReturns
    <2>2. r \in AtBcast /\ r.pc = "bcast"
      BY <2>1 DEF AtBcast
    <2>3. /\ creating' = [creating EXCEPT ![h] = r]
          /\ UNCHANGED <<up, topics, meta, metaLog, dirs, closed, inserts, starting, created,
                         requests, skipped, shared, crashes>>
      BY <1>6 DEF BroadcastReturns
    <2> HIDE DEF r, c, b
    <2> QED  BY <1>0, <2>1, <2>2, <2>3, HandlerMoves DEF TypeInv, c
  <1>8. CASE BroadcastCut(h)
    <2> DEFINE r == [c EXCEPT !.pc = "bcast"]
    <2>1. c.pc = "await" /\ c \in AtBcast
      BY <1>8, CreatingShape DEF BroadcastCut
    <2>2. r \in AtBcast /\ r.pc = "bcast"
      BY <2>1 DEF AtBcast
    <2>3. /\ creating' = [creating EXCEPT ![h] = r]
          /\ UNCHANGED <<up, topics, meta, metaLog, dirs, closed, starting, created,
                         requests, skipped, shared, crashes>>
      BY <1>8 DEF BroadcastCut
    <2>4. inserts' \subseteq InsertCall
      <3>1. \A i \in inserts : i \in InsertCall /\ [i EXCEPT !.from = Gone] \in InsertCall
        <4> TAKE i \in inserts
        <4>1. i \in InsertCall  BY DEF TypeInv
        <4> QED  BY <4>1 DEF InsertCall
      <3>2. PICK lost : inserts' = {IF i.from = h THEN [i EXCEPT !.from = Gone] ELSE i :
                                       i \in inserts \ lost}
        BY <1>8 DEF BroadcastCut
      <3> QED  BY <3>1, <3>2
    <2> HIDE DEF r, c, b
    <2> QED  BY <1>0, <2>1, <2>2, <2>3, <2>4, HandlerMoves DEF TypeInv, c
  <1>7. CASE CreateReturns(h)
    <2> DEFINE k == Cardinality({d \in created : d.at = b}) + 1
               x == [at |-> b, nth |-> k, topic |-> c.topic, meta |-> c.meta, parts |-> c.mine,
                     lone |-> h \notin shared]
    <2>1. c.pc = "bcast" /\ c \in AtBcast
      BY <1>7, CreatingShape DEF CreateReturns
    <2>2. c.topic \in Topics /\ c.mine \subseteq Partitions /\ c.mine \in Served
      BY <2>1 DEF AtBcast, Served
    <2>3. /\ topics' = [topics EXCEPT ![b][c.topic] = c.mine]
          /\ created' = created \cup {x}
          /\ creating' = [creating EXCEPT ![h] = Idle]
          /\ shared' = shared \ {h}
          /\ UNCHANGED <<up, meta, metaLog, dirs, closed, inserts, starting, requests, skipped, crashes>>
      BY <1>7 DEF CreateReturns
    <2>4. x.at = b /\ x.topic = c.topic /\ x.parts = c.mine
      OBVIOUS
    <2> HIDE DEF k, x, c, b
    <2>5. topics' \in [Brokers -> [Topics -> Served]]
      BY <1>0, <2>2, <2>3 DEF TypeInv
    <2>6. \A d \in created' : d.at \in Brokers /\ d.topic \in Topics /\ d.parts \subseteq Partitions
      BY <1>0, <2>2, <2>3, <2>4 DEF TypeInv
    <2> QED  BY <1>0, <2>3, <2>5, <2>6, HandlerMoves DEF TypeInv
  <1>9. CASE InitMetadata(h)
    BY <1>9, InitMetadataType
  <1> QED  BY <1>1, <1>2, <1>3, <1>4, <1>5, <1>6, <1>7, <1>8, <1>9 DEF CreateStep

\* The stages of InsertMetadata.
LEMMA InsertStepType ==
  ASSUME TypeInv, OwnerInv, NEW i \in inserts, InsertStep(i)
  PROVE  TypeInv'
  <1>0. /\ i \in InsertCall /\ i.to \in Brokers /\ i.topic \in Topics /\ i.meta \in Metadata
        /\ i.mine \subseteq Partitions /\ i.left \subseteq Partitions /\ inserts \subseteq InsertCall
    <2>1. i \in InsertCall /\ inserts \subseteq InsertCall  BY DEF TypeInv
    <2> QED  BY <2>1 DEF InsertCall
  <1>1. CASE InsertUpdate(i)
    <2> DEFINE j == [i EXCEPT !.pc = "persist", !.isNew = (topics[i.to][i.topic] = Absent)]
    <2>1. j \in InsertCall
      BY <1>0 DEF InsertCall
    <2>2. /\ meta' = [meta EXCEPT ![i.to][i.topic] = i.meta]
          /\ inserts' = (inserts \ {i}) \cup {j}
          /\ UNCHANGED <<up, topics, metaLog, dirs, closed, creating, starting, created, requests, skipped, shared, crashes>>
      BY <1>1 DEF InsertUpdate, Becomes
    <2> HIDE DEF j
    <2>3. inserts' \subseteq InsertCall
      BY <1>0, <2>1, <2>2
    <2>4. meta' \in [Brokers -> [Topics -> Known]]
      <3>1. meta \in [Brokers -> [Topics -> Known]] /\ i.meta \in Known
        BY <1>0 DEF TypeInv, Known
      <3> QED  BY <1>0, <2>2, <3>1, EntryReplaced
    <2>5. \A h \in Handlers :
             creating[h].pc \in {"mkdir", "parts"} => meta'[On(h)][creating[h].topic] # NoMeta
      <3> SUFFICES ASSUME NEW h \in Handlers, creating[h].pc \in {"mkdir", "parts"}
                   PROVE  meta'[On(h)][creating[h].topic] # NoMeta
        OBVIOUS
      <3>1. On(h) \in Brokers /\ creating[h].topic \in Topics
        BY CreatingShape
      <3>2. meta[On(h)][creating[h].topic] # NoMeta /\ i.meta # NoMeta
        BY <1>0, Distinguished DEF TypeInv
      <3>3. meta \in [Brokers -> [Topics -> Known]]
        BY DEF TypeInv
      <3> QED  BY <1>0, <2>2, <3>1, <3>2, <3>3
    <2> QED  BY <2>2, <2>3, <2>4, <2>5 DEF TypeInv
  <1>2. CASE InsertPersist(i)
    <2> DEFINE j == [i EXCEPT !.pc = "mkdir"]
    <2>1. j \in InsertCall
      BY <1>0 DEF InsertCall
    <2>2. /\ PersistToLog(i.to, i.topic, i.meta)
          /\ inserts' = (inserts \ {i}) \cup {j} \/ inserts' = inserts \ {i}
          /\ UNCHANGED <<up, topics, meta, dirs, closed, creating, starting, created, requests, skipped, shared, crashes>>
      BY <1>2 DEF InsertPersist, Becomes, Finished
    <2> HIDE DEF j
    <2>3. inserts' \subseteq InsertCall
      BY <1>0, <2>1, <2>2
    <2>4. metaLog' \in [Brokers -> [Topics -> Known]]
      BY <1>0, <2>2, PersistType
    <2> QED  BY <2>2, <2>3, <2>4 DEF TypeInv
  <1>3. CASE InsertDir(i)
    <2> DEFINE mine == PartitionsResponsibleFor(i.to, meta[i.to][i.topic])
               j == [i EXCEPT !.pc = "parts", !.mine = mine, !.left = mine]
    <2>1. j \in InsertCall
      BY <1>0, ResponsibleType DEF InsertCall
    <2>2. /\ \/ dirs' = [dirs EXCEPT ![i.to][i.topic] = {}] /\ inserts' = (inserts \ {i}) \cup {j}
             \/ dirs' = dirs /\ inserts' = inserts \ {i}
          /\ UNCHANGED <<up, topics, meta, metaLog, closed, creating, starting, created, requests, skipped, shared, crashes>>
      BY <1>3 DEF InsertDir, Becomes, Finished
    <2> HIDE DEF j, mine
    <2>3. inserts' \subseteq InsertCall
      BY <1>0, <2>1, <2>2
    <2>4. dirs' \in [Brokers -> [Topics -> Served]]
      <3>1. dirs \in [Brokers -> [Topics -> Served]] /\ {} \in Served
        BY DEF TypeInv, Served
      <3>2. CASE dirs' = [dirs EXCEPT ![i.to][i.topic] = {}]
        BY <1>0, <3>1, <3>2, EntryReplaced
      <3> QED  BY <2>2, <3>1, <3>2
    <2> QED  BY <2>2, <2>3, <2>4 DEF TypeInv
  <1>4. CASE InsertPartition(i)
    <2> DEFINE p == Min(i.left)
               j == [i EXCEPT !.left = @ \ {p}]
    <2>1. j \in InsertCall /\ p \in Partitions
      <3>1. i.left # {}  BY <1>4 DEF InsertPartition
      <3> QED  BY <1>0, <3>1, MinIn DEF InsertCall
    <2>2. /\ \/ dirs' = [dirs EXCEPT ![i.to][i.topic] = @ \cup {p}] /\ inserts' = (inserts \ {i}) \cup {j}
             \/ /\ dirs' \in {dirs, [dirs EXCEPT ![i.to][i.topic] = @ \cup {p}]}
                /\ inserts' = inserts \ {i}
          /\ UNCHANGED <<up, topics, meta, metaLog, closed, creating, starting, created, requests, skipped, shared, crashes>>
      BY <1>4 DEF InsertPartition, Becomes, Finished, PartitionFails
    <2> HIDE DEF j, p
    <2>3. inserts' \subseteq InsertCall
      BY <1>0, <2>1, <2>2
    <2>4. dirs' \in [Brokers -> [Topics -> Served]]
      <3>1. dirs \in [Brokers -> [Topics -> Served]]
        BY DEF TypeInv
      <3>2. dirs[i.to][i.topic] \cup {p} \in Served
        <4>1. dirs[i.to][i.topic] # Absent  BY <1>4 DEF OwnerInv, InsertPartition
        <4>2. dirs[i.to][i.topic] \in Served  BY <1>0, <3>1
        <4> QED  BY <2>1, <4>1, <4>2 DEF Served
      <3>3. CASE dirs' = [dirs EXCEPT ![i.to][i.topic] = @ \cup {p}]
        BY <1>0, <3>1, <3>2, <3>3, EntryReplaced
      <3> QED  BY <2>2, <3>1, <3>3
    <2> QED  BY <2>2, <2>3, <2>4 DEF TypeInv
  <1>5. CASE InsertRegister(i)
    <2>1. /\ topics' = [topics EXCEPT ![i.to][i.topic] = i.mine] /\ inserts' = inserts \ {i}
          /\ UNCHANGED <<up, meta, metaLog, dirs, closed, creating, starting, created, requests, skipped, shared, crashes>>
      BY <1>5 DEF InsertRegister, Finished
    <2>2. topics' \in [Brokers -> [Topics -> Served]]
      <3>1. topics \in [Brokers -> [Topics -> Served]] /\ i.mine \in Served
        BY <1>0 DEF TypeInv, Served
      <3> QED  BY <1>0, <2>1, <3>1, EntryReplaced
    <2>3. inserts' \subseteq InsertCall
      BY <1>0, <2>1
    <2> QED  BY <2>1, <2>2, <2>3 DEF TypeInv
  <1> QED  BY <1>1, <1>2, <1>3, <1>4, <1>5 DEF InsertStep

\* Crash, restart and replication.
LEMMA BrokerStepType ==
  ASSUME TypeInv, NEW b \in Brokers, Crash(b) \/ LoadBroker(b) \/ StartReplication(b)
  PROVE  TypeInv'
  <1>1. CASE Crash(b)
    <2>1. /\ up' = [up EXCEPT ![b] = FALSE]
          /\ inserts' = {IF On(i.from) = b THEN [i EXCEPT !.from = Gone] ELSE i :
                            i \in {j \in inserts : j.to # b}}
          /\ creating' = [h \in Handlers |-> IF On(h) = b THEN Idle ELSE creating[h]]
          /\ shared' = {h \in shared : On(h) # b}
          /\ starting' = starting \ {b}
          /\ UNCHANGED <<topics, meta, metaLog, dirs, closed, skipped, created, requests>>
      BY <1>1 DEF Crash
    <2>2. inserts' \subseteq InsertCall
      <3>1. \A i \in inserts : i \in InsertCall /\ [i EXCEPT !.from = Gone] \in InsertCall
        <4> TAKE i \in inserts
        <4>1. i \in InsertCall  BY DEF TypeInv
        <4> QED  BY <4>1 DEF InsertCall
      <3> QED  BY <2>1, <3>1
    <2>3. up' \in [Brokers -> BOOLEAN] /\ starting' \subseteq Brokers /\ shared' \subseteq Handlers
      BY <2>1 DEF TypeInv
    <2>4. creating' \in [Handlers -> Stage]
      BY <2>1 DEF TypeInv, Stage
    <2>5. \A h \in Handlers :
            /\ creating'[h].pc # "idle" => up'[On(h)]
            /\ creating'[h].pc \in {"mkdir", "parts"} => meta'[On(h)][creating'[h].topic] # NoMeta
      <3> TAKE h \in Handlers
      <3>1. CASE On(h) = b
        <4>1. creating'[h].pc = "idle"  BY <2>1, <3>1 DEF Idle
        <4> QED  BY <4>1
      <3>2. CASE On(h) # b
        <4>1. creating'[h] = creating[h] /\ On(h) \in Brokers
          BY <2>1, <3>2, CreatingShape
        <4> QED  BY <2>1, <3>2, <4>1 DEF TypeInv
      <3> QED  BY <3>1, <3>2
    <2> QED  BY <2>1, <2>2, <2>3, <2>4, <2>5 DEF TypeInv
  <1>2. CASE LoadBroker(b)
    <2>a. PICK bad \in SUBSET Topics :
            /\ \E x \in LoadTopics(b, bad) : topics' = [topics EXCEPT ![b] = x]
            /\ skipped' = [skipped EXCEPT ![b] = bad]
      BY <1>2 DEF LoadBroker
    <2>b. PICK loaded \in LoadTopics(b, bad) : topics' = [topics EXCEPT ![b] = loaded]
      BY <2>a
    <2>0. /\ loaded \in LoadTopics(b, bad)
          /\ topics' = [topics EXCEPT ![b] = loaded]
          /\ skipped' = [skipped EXCEPT ![b] = bad]
      BY <2>a, <2>b
    <2>1. /\ ~up[b] /\ up' = [up EXCEPT ![b] = TRUE]
          /\ meta' = [meta EXCEPT ![b] = metaLog[b]]
          /\ closed' = [closed EXCEPT ![b] = {}]
          /\ starting' = starting \cup {b}
          /\ UNCHANGED <<metaLog, dirs, creating, inserts, created, requests, shared, crashes>>
      BY <1>2 DEF LoadBroker, RestoreMetadata
    <2>2. /\ up' \in [Brokers -> BOOLEAN] /\ starting' \subseteq Brokers
          /\ topics' \in [Brokers -> [Topics -> Served]] /\ meta' \in [Brokers -> [Topics -> Known]]
          /\ closed' \in [Brokers -> SUBSET Brokers] /\ skipped' \in [Brokers -> SUBSET Topics]
      <3>1. loaded \in [Topics -> Served]  BY <2>0 DEF LoadTopics, Served
      <3> QED  BY <2>0, <2>1, <3>1 DEF TypeInv
    <2>3. \A h \in Handlers :
            /\ creating[h].pc # "idle" => up'[On(h)]
            /\ creating[h].pc \in {"mkdir", "parts"} => meta'[On(h)][creating[h].topic] # NoMeta
      <3> TAKE h \in Handlers
      <3>1. CASE creating[h].pc = "idle"  BY <3>1
      <3>2. CASE creating[h].pc # "idle"
        <4>1. up[On(h)] /\ On(h) # b /\ On(h) \in Brokers
          BY <2>1, <3>2, CreatingShape DEF TypeInv
        <4> QED  BY <2>1, <4>1 DEF TypeInv
      <3> QED  BY <3>1, <3>2
    <2> QED  BY <2>1, <2>2, <2>3 DEF TypeInv
  <1>3. CASE StartReplication(b)
    <2>1. PICK upTo \in [Topics -> 0..NumPartitions] :
            dirs' = [dirs EXCEPT ![b] =
                [t \in Topics |->
                    LET made == {p \in Replicated(b, meta[b][t]) : p < upTo[t]}
                    IN  IF made = {} THEN @[t] ELSE (@[t] \ Absent) \cup made]]
      BY <1>3 DEF StartReplication
    <2> DEFINE made(t) == {p \in Replicated(b, meta[b][t]) : p < upTo[t]}
               row == [t \in Topics |-> IF made(t) = {} THEN dirs[b][t] ELSE (dirs[b][t] \ Absent) \cup made(t)]
    <2>2. dirs' = [dirs EXCEPT ![b] = row]
      BY <2>1
    <2>3. \A t \in Topics : dirs[b][t] \in Served /\ made(t) \subseteq Partitions
      BY DEF TypeInv, Replicated
    <2>4. row \in [Topics -> Served]
      <3> HIDE DEF made
      <3> QED  BY <2>3 DEF Served
    <2> HIDE DEF row
    <2>5. dirs' \in [Brokers -> [Topics -> Served]]
      BY <2>2, <2>4 DEF TypeInv
    <2>6. /\ starting' = starting \ {b}
          /\ UNCHANGED <<up, topics, meta, metaLog, closed, creating, inserts, created, requests, skipped, shared, crashes>>
      BY <1>3 DEF StartReplication
    <2> QED  BY <2>5, <2>6 DEF TypeInv
  <1> QED  BY <1>1, <1>2, <1>3

----------------------------------------------------------------------------
(* Owners.                                                                 *)

\* No directory goes away.
DirsGrow ==
    \A b \in Brokers, t \in Topics :
        dirs[b][t] # Absent => dirs'[b][t] # Absent /\ dirs[b][t] \subseteq dirs'[b][t]

\* A step that makes no new owner and lets no owner finish.
LEMMA OwnersKept ==
  ASSUME TypeInv, OwnerInv, DirsGrow, created' = created, AckedServed',
         \A h \in Handlers : Owns(h)' =>
            /\ Owns(h) /\ creating'[h].topic = creating[h].topic
            /\ Made(h)' \subseteq dirs'[On(h)][creating'[h].topic],
         \A i \in inserts' : i.pc = "parts" =>
            /\ i.mine \ i.left \subseteq dirs'[i.to][i.topic]
            /\ \E j \in inserts : j.pc = "parts" /\ j.to = i.to /\ j.topic = i.topic,
         \A i, j \in inserts' :
            i.pc = "parts" /\ j.pc = "parts" /\ j.to = i.to /\ j.topic = i.topic => j = i
  PROVE  OwnerInv'
  <1>1. \A h \in Handlers : Owns(h) => On(h) \in Brokers /\ creating[h].topic \in Topics
    BY CreatingShape DEF Owns
  <1>2. \A i \in inserts : i.to \in Brokers /\ i.topic \in Topics
    <2> TAKE i \in inserts
    <2>1. i \in InsertCall  BY DEF TypeInv
    <2> QED  BY <2>1 DEF InsertCall
  <1>3. \A c \in created : c.at \in Brokers /\ c.topic \in Topics
    BY DEF TypeInv
  <1>4. ASSUME NEW h \in Handlers, Owns(h)'
        PROVE  /\ dirs'[On(h)][creating'[h].topic] # Absent
               /\ Made(h)' \subseteq dirs'[On(h)][creating'[h].topic]
               /\ \A c \in created' : c.at = On(h) => c.topic # creating'[h].topic
               /\ \A g \in Handlers :
                     g # h /\ Owns(g)' /\ On(g) = On(h) => creating'[g].topic # creating'[h].topic
               /\ \A i \in inserts' :
                     i.pc = "parts" /\ i.to = On(h) => i.topic # creating'[h].topic
    <2>1. Owns(h) /\ creating'[h].topic = creating[h].topic
      BY <1>4
    <2>2. dirs'[On(h)][creating'[h].topic] # Absent
      BY <1>1, <2>1 DEF OwnerInv, DirsGrow
    <2>3. \A c \in created' : c.at = On(h) => c.topic # creating'[h].topic
      BY <2>1 DEF OwnerInv
    <2>4. \A g \in Handlers :
             g # h /\ Owns(g)' /\ On(g) = On(h) => creating'[g].topic # creating'[h].topic
      BY <2>1 DEF OwnerInv
    <2>5. \A i \in inserts' : i.pc = "parts" /\ i.to = On(h) => i.topic # creating'[h].topic
      BY <2>1 DEF OwnerInv
    <2> QED  BY <1>4, <2>2, <2>3, <2>4, <2>5
  <1>5. ASSUME NEW i \in inserts', i.pc = "parts"
        PROVE  /\ dirs'[i.to][i.topic] # Absent
               /\ i.mine \ i.left \subseteq dirs'[i.to][i.topic]
               /\ \A c \in created' : c.at = i.to => c.topic # i.topic
               /\ \A j \in inserts' : j.pc = "parts" /\ j.to = i.to /\ j.topic = i.topic => j = i
    <2>1. PICK j \in inserts : j.pc = "parts" /\ j.to = i.to /\ j.topic = i.topic
      BY <1>5
    <2>2. dirs'[i.to][i.topic] # Absent
      BY <1>2, <2>1 DEF OwnerInv, DirsGrow
    <2>3. \A c \in created' : c.at = i.to => c.topic # i.topic
      BY <2>1 DEF OwnerInv
    <2> QED  BY <1>5, <2>2, <2>3
  <1>6. \A c \in created' :
           dirs'[c.at][c.topic] # Absent /\ c.parts \subseteq dirs'[c.at][c.topic]
    <2> TAKE c \in created'
    <2>1. dirs[c.at][c.topic] # Absent /\ c.parts \subseteq dirs[c.at][c.topic]
      BY DEF OwnerInv
    <2> QED  BY <1>3, <2>1 DEF DirsGrow
  <1> QED  BY <1>4, <1>5, <1>6 DEF OwnerInv

\* A topic that is acknowledged stays served when the brokers that run and what
\* they serve do not change.
LEMMA ServedKept ==
  ASSUME OwnerInv, up' = up, topics' = topics, created' = created, skipped' = skipped
  PROVE  AckedServed'
  BY DEF OwnerInv, AckedServed

\* No step removes a directory.
LEMMA DirsOnlyGrow ==
  ASSUME TypeInv, OwnerInv, [Next]_vars
  PROVE  DirsGrow
  <1>0. dirs \in [Brokers -> [Topics -> Served]]
    BY DEF TypeInv
  <1>1. CASE UNCHANGED dirs
    BY <1>1 DEF DirsGrow
  <1>2. ASSUME NEW b \in Brokers, NEW t \in Topics, dirs[b][t] = Absent,
               dirs' = [dirs EXCEPT ![b][t] = {}]
        PROVE  DirsGrow
    BY <1>0, <1>2 DEF DirsGrow
  <1>3. ASSUME NEW b \in Brokers, NEW t \in Topics, NEW p \in Partitions,
               dirs[b][t] # Absent, dirs' = [dirs EXCEPT ![b][t] = @ \cup {p}]
        PROVE  DirsGrow
    <2>1. dirs'[b][t] = dirs[b][t] \cup {p}
      BY <1>0, <1>3
    <2>2. p # -1
      BY Distinguished
    <2>3. dirs'[b][t] # Absent
      BY <2>1, <2>2 DEF Absent
    <2>4. \A x \in Brokers, y \in Topics : dirs'[x][y] = IF x = b /\ y = t THEN dirs'[b][t] ELSE dirs[x][y]
      BY <1>0, <1>3
    <2> QED  BY <2>1, <2>3, <2>4 DEF DirsGrow
  <1>4. ASSUME NEW h \in Handlers, CreateDir(h) PROVE DirsGrow
    <2>1. On(h) \in Brokers /\ creating[h].topic \in Topics
      BY <1>4, CreatingShape DEF CreateDir
    <2>2. CASE dirs' = dirs  BY <1>1, <2>2
    <2>3. CASE dirs[On(h)][creating[h].topic] = Absent /\ dirs' = [dirs EXCEPT ![On(h)][creating[h].topic] = {}]
      BY <1>2, <2>1, <2>3
    <2> QED  BY <1>4, <2>2, <2>3 DEF CreateDir
  <1>5. ASSUME NEW h \in Handlers, CreatePartition(h) PROVE DirsGrow
    <2>1. creating[h].pc = "parts" /\ creating[h].left # {}
      BY <1>5 DEF CreatePartition
    <2>2. On(h) \in Brokers /\ creating[h].topic \in Topics /\ creating[h] \in AtParts
      BY <2>1, CreatingShape
    <2>3. Min(creating[h].left) \in Partitions
      <3>1. creating[h].left \subseteq Partitions  BY <2>2 DEF AtParts
      <3> QED  BY <2>1, <3>1, MinIn
    <2>4. dirs[On(h)][creating[h].topic] # Absent
      BY <2>1 DEF OwnerInv, Owns
    <2>5. CASE dirs' = dirs  BY <1>1, <2>5
    <2>6. CASE dirs' = [dirs EXCEPT ![On(h)][creating[h].topic] = @ \cup {Min(creating[h].left)}]
      BY <1>3, <2>2, <2>3, <2>4, <2>6
    <2> QED  BY <1>5, <2>5, <2>6 DEF CreatePartition, PartitionFails
  <1>6. ASSUME NEW i \in inserts, InsertDir(i) \/ InsertPartition(i) PROVE DirsGrow
    <2>1. i \in InsertCall
      BY DEF TypeInv
    <2>2. i.to \in Brokers /\ i.topic \in Topics /\ i.left \subseteq Partitions
      BY <2>1 DEF InsertCall
    <2>3. CASE dirs' = dirs  BY <1>1, <2>3
    <2>4. CASE dirs[i.to][i.topic] = Absent /\ dirs' = [dirs EXCEPT ![i.to][i.topic] = {}]
      BY <1>2, <2>2, <2>4
    <2>5. CASE i.pc = "parts" /\ i.left # {} /\ dirs' = [dirs EXCEPT ![i.to][i.topic] = @ \cup {Min(i.left)}]
      <3>1. Min(i.left) \in Partitions  BY <2>2, <2>5, MinIn
      <3>2. dirs[i.to][i.topic] # Absent  BY <2>5 DEF OwnerInv
      <3> QED  BY <1>3, <2>2, <2>5, <3>1, <3>2
    <2> QED  BY <1>6, <2>3, <2>4, <2>5 DEF InsertDir, InsertPartition, PartitionFails
  <1>7. ASSUME NEW b \in Brokers, StartReplication(b) PROVE DirsGrow
    <2>1. PICK upTo \in [Topics -> 0..NumPartitions] :
            dirs' = [dirs EXCEPT ![b] =
                [t \in Topics |->
                    LET made == {p \in Replicated(b, meta[b][t]) : p < upTo[t]}
                    IN  IF made = {} THEN @[t] ELSE (@[t] \ Absent) \cup made]]
      BY <1>7 DEF StartReplication
    <2> DEFINE made(t) == {p \in Replicated(b, meta[b][t]) : p < upTo[t]}
               row == [t \in Topics |-> IF made(t) = {} THEN dirs[b][t] ELSE (dirs[b][t] \ Absent) \cup made(t)]
    <2>2. dirs' = [dirs EXCEPT ![b] = row]
      BY <2>1
    <2>3. \A t \in Topics : made(t) \subseteq Partitions /\ dirs[b][t] \in Served
      BY <1>0 DEF Replicated
    <2>4. \A t \in Topics : dirs[b][t] # Absent => row[t] # Absent /\ dirs[b][t] \subseteq row[t]
      <3> SUFFICES ASSUME NEW t \in Topics, dirs[b][t] # Absent
                   PROVE  row[t] # Absent /\ dirs[b][t] \subseteq row[t]
        OBVIOUS
      <3>1. dirs[b][t] \subseteq Partitions
        BY <2>3 DEF Served
      <3>2. row[t] = IF made(t) = {} THEN dirs[b][t] ELSE (dirs[b][t] \ Absent) \cup made(t)
        OBVIOUS
      <3> HIDE DEF row, made
      <3>3. dirs[b][t] \subseteq row[t] /\ row[t] \subseteq Partitions
        BY <2>3, <3>1, <3>2, Distinguished DEF Absent
      <3>4. row[t] # Absent
        BY <3>3, Distinguished
      <3> QED  BY <3>3, <3>4
    <2> HIDE DEF row
    <2>5. \A x \in Brokers : dirs'[x] = IF x = b THEN row ELSE dirs[x]
      BY <1>0, <2>2
    <2> QED  BY <2>4, <2>5 DEF DirsGrow
  <1>8. CASE UNCHANGED vars
    BY <1>1, <1>8 DEF vars
  <1>9. CASE Next
    <2>1. \A h \in Handlers : CreateStep(h) => DirsGrow
      BY <1>1, <1>4, <1>5 DEF CreateStep, InitMetadata, BroadcastMetadata, Broadcast,
                              BroadcastFails, BroadcastCut, BroadcastReturns, CreateReturns
    <2>2. \A h \in Handlers, t \in Topics : CreateTopic(h, t) => DirsGrow
      BY <1>1 DEF CreateTopic
    <2>3. \A b \in Brokers : CreateRejected(b) \/ Crash(b) \/ LoadBroker(b) => DirsGrow
      BY <1>1, <1>8 DEF CreateRejected, Crash, LoadBroker
    <2>4. \A i \in inserts : InsertStep(i) => DirsGrow
      BY <1>1, <1>6 DEF InsertStep, InsertUpdate, InsertPersist, InsertRegister
    <2> QED  BY <1>7, <1>9, <2>1, <2>2, <2>3, <2>4 DEF Next
  <1> QED  BY <1>8, <1>9

\* What OwnersKept asks of inserts and handlers that do not change.
LEMMA InsertsKept ==
  ASSUME TypeInv, OwnerInv, DirsGrow, NEW I, \A i \in I : i.pc = "parts" => i \in inserts
  PROVE  /\ \A i \in I : i.pc = "parts" =>
               /\ i.mine \ i.left \subseteq dirs'[i.to][i.topic]
               /\ \E j \in inserts : j.pc = "parts" /\ j.to = i.to /\ j.topic = i.topic
         /\ \A i, j \in I :
               i.pc = "parts" /\ j.pc = "parts" /\ j.to = i.to /\ j.topic = i.topic => j = i
  <1>1. ASSUME NEW i \in I, i.pc = "parts"
        PROVE  i.mine \ i.left \subseteq dirs'[i.to][i.topic]
    <2>1. i \in inserts /\ i \in InsertCall
      BY <1>1 DEF TypeInv
    <2>2. i.to \in Brokers /\ i.topic \in Topics
      BY <2>1 DEF InsertCall
    <2>3. dirs[i.to][i.topic] # Absent /\ i.mine \ i.left \subseteq dirs[i.to][i.topic]
      BY <1>1, <2>1 DEF OwnerInv
    <2> QED  BY <2>2, <2>3 DEF DirsGrow
  <1> QED  BY <1>1 DEF OwnerInv

\* The same of inserts that nobody waits for any more.
LEMMA Redirected ==
  ASSUME TypeInv, OwnerInv, DirsGrow, NEW D,
         \A i \in inserts : /\ D[i].pc = i.pc /\ D[i].to = i.to /\ D[i].topic = i.topic
                            /\ D[i].mine = i.mine /\ D[i].left = i.left,
         \A k \in inserts' : \E i \in inserts : k = D[i]
  PROVE  /\ \A i \in inserts' : i.pc = "parts" =>
               /\ i.mine \ i.left \subseteq dirs'[i.to][i.topic]
               /\ \E j \in inserts : j.pc = "parts" /\ j.to = i.to /\ j.topic = i.topic
         /\ \A i, j \in inserts' :
               i.pc = "parts" /\ j.pc = "parts" /\ j.to = i.to /\ j.topic = i.topic => j = i
  <1>1. /\ \A i \in inserts : i.pc = "parts" => i.mine \ i.left \subseteq dirs'[i.to][i.topic]
        /\ \A i, j \in inserts :
             i.pc = "parts" /\ j.pc = "parts" /\ j.to = i.to /\ j.topic = i.topic => j = i
    BY InsertsKept
  <1>2. \A i \in inserts' : i.pc = "parts" =>
           /\ i.mine \ i.left \subseteq dirs'[i.to][i.topic]
           /\ \E j \in inserts : j.pc = "parts" /\ j.to = i.to /\ j.topic = i.topic
    BY <1>1
  <1>3. ASSUME NEW i \in inserts', NEW j \in inserts',
               i.pc = "parts", j.pc = "parts", j.to = i.to, j.topic = i.topic
        PROVE  j = i
    <2>1. PICK k \in inserts : i = D[k]  OBVIOUS
    <2>2. PICK l \in inserts : j = D[l]  OBVIOUS
    <2>3. k = l  BY <1>1, <1>3, <2>1, <2>2
    <2> QED  BY <2>1, <2>2, <2>3
  <1> QED  BY <1>2, <1>3

\* The same of a handler.
LEMMA HandlerKept ==
  ASSUME TypeInv, OwnerInv, DirsGrow, NEW h \in Handlers, Owns(h),
         Made(h)' = Made(h), creating'[h].topic = creating[h].topic
  PROVE  Made(h)' \subseteq dirs'[On(h)][creating'[h].topic]
  <1>1. On(h) \in Brokers /\ creating[h].topic \in Topics
    BY CreatingShape DEF Owns
  <1>2. /\ dirs[On(h)][creating[h].topic] # Absent
        /\ Made(h) \subseteq dirs[On(h)][creating[h].topic]
    BY DEF OwnerInv
  <1> QED  BY <1>1, <1>2 DEF DirsGrow

\* A handler that does not change, or drops out, next to inserts that make no
\* new owner.
LEMMA HandlersKept ==
  ASSUME TypeInv, OwnerInv, DirsGrow, created' = created, AckedServed',
         \A h \in Handlers : Owns(h)' =>
            Owns(h) /\ Made(h)' = Made(h) /\ creating'[h].topic = creating[h].topic,
         \A i \in inserts' : i.pc = "parts" => i \in inserts
  PROVE  OwnerInv'
  <1>1. \A h \in Handlers : Owns(h)' => Made(h)' \subseteq dirs'[On(h)][creating'[h].topic]
    BY HandlerKept
  <1>2. /\ \A i \in inserts' : i.pc = "parts" =>
               /\ i.mine \ i.left \subseteq dirs'[i.to][i.topic]
               /\ \E j \in inserts : j.pc = "parts" /\ j.to = i.to /\ j.topic = i.topic
        /\ \A i, j \in inserts' :
               i.pc = "parts" /\ j.pc = "parts" /\ j.to = i.to /\ j.topic = i.topic => j = i
    BY InsertsKept
  <1> QED  BY <1>1, <1>2, OwnersKept

\* CreateTopic: checks and the stages up to the answer.
LEMMA CreateOwners ==
  ASSUME TypeInv, OwnerInv, DirsGrow, NEW h \in Handlers,
         CreateStep(h) \/ \E t \in Topics : CreateTopic(h, t)
  PROVE  OwnerInv'
  <1> DEFINE c == creating[h]
             b == On(h)
  <1>0. /\ b \in Brokers
        /\ \A g \in Handlers : creating' = [creating EXCEPT ![h] = creating'[h]] /\ g # h =>
              creating'[g] = creating[g] /\ Owns(g)' = Owns(g) /\ Made(g)' = Made(g)
    BY CreatingShape DEF TypeInv, Owns, Made
  <1>1. ASSUME \/ Owns(h)' = FALSE
               \/ Owns(h) /\ Owns(h)' /\ Made(h)' = Made(h) /\ creating'[h].topic = creating[h].topic,
               creating' = [creating EXCEPT ![h] = creating'[h]],
               up' = up, topics' = topics, created' = created, skipped' = skipped,
               \A i \in inserts' : i.pc = "parts" => i \in inserts
        PROVE  OwnerInv'
    <2>1. AckedServed'
      BY <1>1, ServedKept
    <2>2. \A g \in Handlers : Owns(g)' =>
             Owns(g) /\ Made(g)' = Made(g) /\ creating'[g].topic = creating[g].topic
      BY <1>0, <1>1
    <2> QED  BY <1>1, <2>1, <2>2, HandlersKept
  <1>2. ASSUME NEW t \in Topics, CreateTopic(h, t) PROVE OwnerInv'
    <2>1. creating' = [creating EXCEPT ![h] = [pc |-> "init", topic |-> t, nth |-> requests[t] + 1]]
      BY <1>2 DEF CreateTopic
    <2>2. creating'[h].pc = "init" /\ creating' = [creating EXCEPT ![h] = creating'[h]]
      BY <2>1 DEF TypeInv
    <2>3. Owns(h)' = FALSE
      BY <2>2 DEF Owns
    <2> QED  BY <1>1, <1>2, <2>2, <2>3 DEF CreateTopic
  <1>11. CASE InitMetadata(h)
    <2>1. creating' = [creating EXCEPT ![h] = [pc |-> "mkdir", topic |-> c.topic]]
      BY <1>11 DEF InitMetadata
    <2>2. creating'[h].pc = "mkdir" /\ creating' = [creating EXCEPT ![h] = creating'[h]]
      BY <2>1 DEF TypeInv
    <2>3. Owns(h)' = FALSE
      BY <2>2 DEF Owns
    <2>4. up' = up /\ topics' = topics /\ created' = created /\ skipped' = skipped /\ inserts' = inserts
      BY <1>11 DEF InitMetadata
    <2> QED  BY <1>1, <2>2, <2>3, <2>4
  <1>3. ASSUME creating' = [creating EXCEPT ![h] = Idle],
               up' = up, topics' = topics, created' = created, skipped' = skipped,
               inserts' = inserts
        PROVE  OwnerInv'
    <2>1. creating'[h] = Idle /\ creating' = [creating EXCEPT ![h] = creating'[h]]
      BY <1>3 DEF TypeInv
    <2>2. Owns(h)' = FALSE
      BY <2>1 DEF Owns, Idle
    <2> QED  BY <1>1, <1>3, <2>1, <2>2
  <1>4. CASE CreateDir(h)
    <2> DEFINE mine == PartitionsResponsibleFor(b, meta[b][c.topic])
               r == [pc |-> "parts", topic |-> c.topic, mine |-> mine, left |-> mine]
    <2>1. c.pc = "mkdir" /\ c.topic \in Topics
      BY <1>4, CreatingShape DEF CreateDir
    <2>2. \/ /\ dirs[b][c.topic] = Absent
             /\ dirs' = [dirs EXCEPT ![b][c.topic] = {}] /\ creating' = [creating EXCEPT ![h] = r]
          \/ creating' = [creating EXCEPT ![h] = Idle]
      BY <1>4 DEF CreateDir
    <2>3. up' = up /\ topics' = topics /\ created' = created /\ skipped' = skipped /\ inserts' = inserts
      BY <1>4 DEF CreateDir
    <2>4. CASE /\ dirs[b][c.topic] = Absent
               /\ dirs' = [dirs EXCEPT ![b][c.topic] = {}] /\ creating' = [creating EXCEPT ![h] = r]
      <3>1. creating'[h] = r /\ r.pc = "parts" /\ r.topic = c.topic /\ r.mine \ r.left = {}
        BY <2>4 DEF TypeInv
      <3>2. creating' = [creating EXCEPT ![h] = creating'[h]]
        BY <2>4, <3>1
      <3> HIDE DEF r, mine, b, c
      <3>3. dirs'[b][c.topic] = {} /\ {} # Absent
        BY <1>0, <2>1, <2>4 DEF TypeInv, Absent
      <3>4. Made(h)' = {} /\ Owns(h)'
        BY <3>1 DEF Made, Owns
      <3>5. /\ \A d \in created : d.at = b => d.topic # c.topic
            /\ \A g \in Handlers : Owns(g) /\ On(g) = b => creating[g].topic # c.topic
            /\ \A i \in inserts : i.pc = "parts" /\ i.to = b => i.topic # c.topic
        BY <2>4 DEF OwnerInv
      <3>6. \A g \in Handlers : g # h =>
               creating'[g] = creating[g] /\ Owns(g)' = Owns(g) /\ Made(g)' = Made(g)
        BY <1>0, <3>2
      <3>7. \A g \in Handlers : Owns(g)' =>
              /\ dirs'[On(g)][creating'[g].topic] # Absent
              /\ Made(g)' \subseteq dirs'[On(g)][creating'[g].topic]
        <4> SUFFICES ASSUME NEW g \in Handlers, Owns(g)'
                     PROVE  /\ dirs'[On(g)][creating'[g].topic] # Absent
                            /\ Made(g)' \subseteq dirs'[On(g)][creating'[g].topic]
          OBVIOUS
        <4>1. CASE g = h  BY <3>1, <3>3, <3>4, <4>1 DEF b
        <4>2. CASE g # h
          <5>1. Owns(g) /\ Made(g)' = Made(g) /\ creating'[g].topic = creating[g].topic
            BY <3>6, <4>2
          <5>2. On(g) \in Brokers /\ creating[g].topic \in Topics
            BY <5>1, CreatingShape DEF Owns
          <5>3. dirs[On(g)][creating[g].topic] # Absent
            BY <5>1 DEF OwnerInv
          <5> QED  BY <5>1, <5>2, <5>3, HandlerKept DEF DirsGrow
        <4> QED  BY <4>1, <4>2
      <3>8. \A g \in Handlers : Owns(g)' =>
              /\ \A d \in created : d.at = On(g) => d.topic # creating'[g].topic
              /\ \A k \in Handlers :
                    k # g /\ Owns(k)' /\ On(k) = On(g) => creating'[k].topic # creating'[g].topic
              /\ \A i \in inserts : i.pc = "parts" /\ i.to = On(g) => i.topic # creating'[g].topic
        <4> SUFFICES ASSUME NEW g \in Handlers, Owns(g)'
                     PROVE  /\ \A d \in created : d.at = On(g) => d.topic # creating'[g].topic
                            /\ \A k \in Handlers :
                                  k # g /\ Owns(k)' /\ On(k) = On(g) => creating'[k].topic # creating'[g].topic
                            /\ \A i \in inserts :
                                  i.pc = "parts" /\ i.to = On(g) => i.topic # creating'[g].topic
          OBVIOUS
        <4>1. CASE g = h  BY <3>1, <3>5, <3>6, <4>1 DEF b
        <4>2. CASE g # h
          <5>1. Owns(g) /\ creating'[g].topic = creating[g].topic  BY <3>6, <4>2
          <5>2. On(g) = b => creating[g].topic # c.topic  BY <3>5, <5>1
          <5> QED  BY <3>1, <3>6, <5>1, <5>2 DEF OwnerInv, b
        <4> QED  BY <4>1, <4>2
      <3>9. \A i \in inserts : i.pc = "parts" =>
              /\ dirs'[i.to][i.topic] # Absent
              /\ i.mine \ i.left \subseteq dirs'[i.to][i.topic]
        <4> SUFFICES ASSUME NEW i \in inserts, i.pc = "parts"
                     PROVE  /\ dirs'[i.to][i.topic] # Absent
                            /\ i.mine \ i.left \subseteq dirs'[i.to][i.topic]
          OBVIOUS
        <4>1. i \in InsertCall  BY DEF TypeInv
        <4>2. i.to \in Brokers /\ i.topic \in Topics  BY <4>1 DEF InsertCall
        <4> QED  BY <4>2 DEF OwnerInv, DirsGrow
      <3>10. \A d \in created : dirs'[d.at][d.topic] # Absent /\ d.parts \subseteq dirs'[d.at][d.topic]
        BY DEF OwnerInv, DirsGrow, TypeInv
      <3>11. AckedServed'
        BY <2>3, ServedKept
      <3> QED  BY <2>3, <3>7, <3>8, <3>9, <3>10, <3>11 DEF OwnerInv
    <2> QED  BY <1>3, <2>2, <2>3, <2>4
  <1>5. CASE CreatePartition(h)
    <2> DEFINE p == Min(c.left)
               r == [c EXCEPT !.left = @ \ {p}]
    <2>1. c.pc = "parts" /\ c \in AtParts /\ c.topic \in Topics /\ c.left # {}
      BY <1>5, CreatingShape DEF CreatePartition
    <2>2. \/ dirs' = [dirs EXCEPT ![b][c.topic] = @ \cup {p}] /\ creating' = [creating EXCEPT ![h] = r]
          \/ creating' = [creating EXCEPT ![h] = Idle]
      BY <1>5 DEF CreatePartition
    <2>3. up' = up /\ topics' = topics /\ created' = created /\ skipped' = skipped /\ inserts' = inserts
      BY <1>5 DEF CreatePartition
    <2>4. CASE dirs' = [dirs EXCEPT ![b][c.topic] = @ \cup {p}] /\ creating' = [creating EXCEPT ![h] = r]
      <3>1. creating'[h] = r /\ r.pc = "parts" /\ r.topic = c.topic /\ r.mine = c.mine /\ r.left = c.left \ {p}
        BY <2>1, <2>4 DEF TypeInv, AtParts
      <3>2. creating' = [creating EXCEPT ![h] = creating'[h]]
        BY <2>4, <3>1
      <3>3. c.mine \ c.left \subseteq dirs[b][c.topic]
        BY <2>1 DEF OwnerInv, Owns, Made
      <3> HIDE DEF r, p, b
      <3>4. dirs'[b][c.topic] = dirs[b][c.topic] \cup {p}
        <4> HIDE DEF c
        <4> QED  BY <1>0, <2>1, <2>4 DEF TypeInv
      <3>5. Owns(h) /\ Made(h)' = r.mine \ r.left
        BY <2>1, <3>1 DEF Owns, Made
      <3>6. Made(h)' \subseteq dirs'[b][c.topic]
        BY <3>1, <3>3, <3>4, <3>5
      <3>7. \A g \in Handlers : Owns(g)' =>
               /\ Owns(g) /\ creating'[g].topic = creating[g].topic
               /\ Made(g)' \subseteq dirs'[On(g)][creating'[g].topic]
        <4> SUFFICES ASSUME NEW g \in Handlers, Owns(g)'
                     PROVE  /\ Owns(g) /\ creating'[g].topic = creating[g].topic
                            /\ Made(g)' \subseteq dirs'[On(g)][creating'[g].topic]
          OBVIOUS
        <4>1. CASE g = h  BY <3>1, <3>5, <3>6, <4>1 DEF b
        <4>2. CASE g # h
          <5>1. Owns(g) /\ Made(g)' = Made(g) /\ creating'[g].topic = creating[g].topic
            BY <1>0, <3>2, <4>2
          <5> QED  BY <5>1, HandlerKept
        <4> QED  BY <4>1, <4>2
      <3>8. AckedServed'
        BY <2>3, ServedKept
      <3>9. /\ \A i \in inserts : i.pc = "parts" =>
                 /\ i.mine \ i.left \subseteq dirs'[i.to][i.topic]
                 /\ \E j \in inserts : j.pc = "parts" /\ j.to = i.to /\ j.topic = i.topic
            /\ \A i, j \in inserts :
                 i.pc = "parts" /\ j.pc = "parts" /\ j.to = i.to /\ j.topic = i.topic => j = i
        BY InsertsKept
      <3> QED  BY <2>3, <3>7, <3>8, <3>9, OwnersKept
    <2> QED  BY <1>3, <2>2, <2>3, <2>4
  <1>6. CASE BroadcastMetadata(h)
    <2> DEFINE r == [pc |-> "bcast", topic |-> c.topic, mine |-> c.mine,
                     meta |-> meta[b][c.topic], peers |-> Brokers \ {b}]
    <2>1. c.pc = "parts" /\ c.left = {} /\ creating' = [creating EXCEPT ![h] = r]
      BY <1>6 DEF BroadcastMetadata
    <2>2. /\ creating'[h].pc = "bcast" /\ creating'[h].mine = c.mine
          /\ creating'[h].topic = c.topic /\ creating' = [creating EXCEPT ![h] = creating'[h]]
      BY <2>1 DEF TypeInv
    <2>3. Owns(h) /\ Owns(h)' /\ Made(h)' = Made(h)
      BY <2>1, <2>2 DEF Owns, Made
    <2> QED  BY <1>1, <1>6, <2>2, <2>3 DEF BroadcastMetadata
  <1>7. ASSUME NEW p \in Brokers, Broadcast(h, p) PROVE OwnerInv'
    <2> DEFINE r == [c EXCEPT !.pc = "await", !.peers = @ \ {p}]
               i == [from |-> h, to |-> p, topic |-> c.topic, meta |-> c.meta,
                     pc |-> "update", isNew |-> FALSE, mine |-> {}, left |-> {}]
    <2>1. c.pc = "bcast" /\ c \in AtBcast
      BY <1>7, CreatingShape DEF Broadcast
    <2>2. creating' = [creating EXCEPT ![h] = r] /\ inserts' = inserts \cup {i}
      BY <1>7 DEF Broadcast, TypeInv
    <2>3. /\ creating'[h] = r /\ r.pc = "await" /\ r.mine = c.mine /\ r.topic = c.topic
          /\ creating' = [creating EXCEPT ![h] = creating'[h]]
      BY <2>1, <2>2 DEF TypeInv, AtBcast
    <2>4. i.pc = "update"
      OBVIOUS
    <2> HIDE DEF r, i
    <2>5. Owns(h) /\ Owns(h)' /\ Made(h)' = Made(h) /\ creating'[h].topic = creating[h].topic
      BY <2>1, <2>3 DEF Owns, Made
    <2>6. \A j \in inserts' : j.pc = "parts" => j \in inserts
      BY <2>2, <2>4
    <2>7. up' = up /\ topics' = topics /\ created' = created /\ skipped' = skipped
      BY <1>7 DEF Broadcast
    <2> QED  BY <1>1, <2>3, <2>5, <2>6, <2>7
  <1>8. ASSUME NEW p \in Brokers, BroadcastFails(h, p) PROVE OwnerInv'
    <2> DEFINE r == [c EXCEPT !.peers = @ \ {p}]
    <2>1. c.pc = "bcast" /\ c \in AtBcast
      BY <1>8, CreatingShape DEF BroadcastFails
    <2>2. creating' = [creating EXCEPT ![h] = r]
      BY <1>8 DEF BroadcastFails
    <2>3. /\ creating'[h] = r /\ r.pc = "bcast" /\ r.mine = c.mine /\ r.topic = c.topic
          /\ creating' = [creating EXCEPT ![h] = creating'[h]]
      BY <2>1, <2>2 DEF TypeInv, AtBcast
    <2> HIDE DEF r
    <2>4. Owns(h) /\ Owns(h)' /\ Made(h)' = Made(h) /\ creating'[h].topic = creating[h].topic
      BY <2>1, <2>3 DEF Owns, Made
    <2> QED  BY <1>1, <1>8, <2>3, <2>4 DEF BroadcastFails
  <1>9. CASE BroadcastReturns(h)
    <2> DEFINE r == [c EXCEPT !.pc = "bcast"]
    <2>1. c.pc = "await" /\ c \in AtBcast
      BY <1>9, CreatingShape DEF BroadcastReturns
    <2>2. creating' = [creating EXCEPT ![h] = r]
      BY <1>9 DEF BroadcastReturns
    <2>3. /\ creating'[h] = r /\ r.pc = "bcast" /\ r.mine = c.mine /\ r.topic = c.topic
          /\ creating' = [creating EXCEPT ![h] = creating'[h]]
      BY <2>1, <2>2 DEF TypeInv, AtBcast
    <2> HIDE DEF r
    <2>4. Owns(h) /\ Owns(h)' /\ Made(h)' = Made(h) /\ creating'[h].topic = creating[h].topic
      BY <2>1, <2>3 DEF Owns, Made
    <2> QED  BY <1>1, <1>9, <2>3, <2>4 DEF BroadcastReturns
  <1>12. CASE BroadcastCut(h)
    <2> DEFINE r == [c EXCEPT !.pc = "bcast"]
               D == [i \in inserts |-> IF i.from = h THEN [i EXCEPT !.from = Gone] ELSE i]
    <2>1. c.pc = "await" /\ c \in AtBcast
      BY <1>12, CreatingShape DEF BroadcastCut
    <2>2. /\ creating' = [creating EXCEPT ![h] = r]
          /\ up' = up /\ topics' = topics /\ created' = created /\ skipped' = skipped
      BY <1>12 DEF BroadcastCut
    <2>3. /\ creating'[h] = r /\ r.pc = "bcast" /\ r.mine = c.mine /\ r.topic = c.topic
          /\ creating' = [creating EXCEPT ![h] = creating'[h]]
      BY <2>1, <2>2 DEF TypeInv, AtBcast
    <2>4. \A k \in inserts' : \E i \in inserts : k = D[i]
      <3>1. PICK lost : inserts' = {IF i.from = h THEN [i EXCEPT !.from = Gone] ELSE i :
                                       i \in inserts \ lost}
        BY <1>12 DEF BroadcastCut
      <3> QED  BY <3>1
    <2>5. \A i \in inserts : /\ D[i].pc = i.pc /\ D[i].to = i.to /\ D[i].topic = i.topic
                             /\ D[i].mine = i.mine /\ D[i].left = i.left
      <3> TAKE i \in inserts
      <3>1. i \in InsertCall  BY DEF TypeInv
      <3> QED  BY <3>1 DEF InsertCall
    <2> HIDE DEF r, D
    <2>6. Owns(h) /\ Owns(h)' /\ Made(h)' = Made(h) /\ creating'[h].topic = creating[h].topic
      BY <2>1, <2>3 DEF Owns, Made
    <2>7. \A g \in Handlers : Owns(g)' =>
             Owns(g) /\ Made(g)' = Made(g) /\ creating'[g].topic = creating[g].topic
      BY <1>0, <2>3, <2>6
    <2>8. \A g \in Handlers : Owns(g)' => Made(g)' \subseteq dirs'[On(g)][creating'[g].topic]
      BY <2>7, HandlerKept
    <2>9. AckedServed'
      BY <2>2, ServedKept
    <2>10. /\ \A i \in inserts' : i.pc = "parts" =>
                 /\ i.mine \ i.left \subseteq dirs'[i.to][i.topic]
                 /\ \E j \in inserts : j.pc = "parts" /\ j.to = i.to /\ j.topic = i.topic
           /\ \A i, j \in inserts' :
                 i.pc = "parts" /\ j.pc = "parts" /\ j.to = i.to /\ j.topic = i.topic => j = i
      BY <2>4, <2>5, Redirected
    <2> QED  BY <2>2, <2>7, <2>8, <2>9, <2>10, OwnersKept
  <1>10. CASE CreateReturns(h)
    <2> DEFINE k == Cardinality({d \in created : d.at = b}) + 1
               x == [at |-> b, nth |-> k, topic |-> c.topic, meta |-> c.meta, parts |-> c.mine,
                     lone |-> h \notin shared]
    <2>1. c.pc = "bcast" /\ c \in AtBcast
      BY <1>10, CreatingShape DEF CreateReturns
    <2>2. c.topic \in Topics /\ c.mine \subseteq Partitions /\ c.mine # Absent
      BY <2>1, Distinguished DEF AtBcast
    <2>3. /\ topics' = [topics EXCEPT ![b][c.topic] = c.mine]
          /\ created' = created \cup {x}
          /\ creating' = [creating EXCEPT ![h] = Idle]
          /\ up' = up /\ dirs' = dirs /\ inserts' = inserts /\ skipped' = skipped
      BY <1>10 DEF CreateReturns
    <2>4. x.at = b /\ x.topic = c.topic /\ x.parts = c.mine
      OBVIOUS
    <2>5. /\ Owns(h) /\ Made(h) = c.mine
          /\ creating'[h] = Idle /\ creating' = [creating EXCEPT ![h] = creating'[h]]
      BY <2>1, <2>3 DEF Owns, Made, TypeInv
    <2>6. Owns(h)' = FALSE
      BY <2>5 DEF Owns, Idle
    <2>7. /\ dirs[b][c.topic] # Absent /\ c.mine \subseteq dirs[b][c.topic]
          /\ \A d \in created : d.at = b => d.topic # c.topic
          /\ \A g \in Handlers : g # h /\ Owns(g) /\ On(g) = b => creating[g].topic # c.topic
          /\ \A i \in inserts : i.pc = "parts" /\ i.to = b => i.topic # c.topic
      BY <2>5 DEF OwnerInv
    <2> HIDE DEF k, x, b, c
    <2>8. \A g \in Handlers : Owns(g)' =>
             g # h /\ Owns(g) /\ creating'[g] = creating[g] /\ Made(g)' = Made(g)
      BY <1>0, <2>5, <2>6
    <2>9. AckedServed'
      <3> SUFFICES ASSUME NEW d \in created', up'[d.at], d.topic \notin skipped'[d.at]
                   PROVE  topics'[d.at][d.topic] # Absent /\ d.parts \subseteq topics'[d.at][d.topic]
        BY DEF AckedServed
      <3>1. topics'[b][c.topic] = c.mine
        BY <1>0, <2>2, <2>3 DEF TypeInv
      <3>2. CASE d = x
        BY <2>2, <2>4, <3>1, <3>2
      <3>3. CASE d \in created
        <4>1. d.at \in Brokers /\ d.topic \in Topics /\ (d.at = b => d.topic # c.topic)
          BY <2>7, <3>3 DEF TypeInv
        <4>2. topics'[d.at][d.topic] = topics[d.at][d.topic]
          BY <1>0, <2>2, <2>3, <4>1 DEF TypeInv
        <4> QED  BY <2>3, <3>3, <4>2 DEF OwnerInv, AckedServed
      <3> QED  BY <2>3, <3>2, <3>3
    <2>10. \A g \in Handlers : Owns(g)' =>
             \A d \in created' : d.at = On(g) => d.topic # creating'[g].topic
      BY <2>3, <2>4, <2>7, <2>8 DEF OwnerInv
    <2>11. \A i \in inserts : i.pc = "parts" =>
             \A d \in created' : d.at = i.to => d.topic # i.topic
      BY <2>3, <2>4, <2>7 DEF OwnerInv
    <2>12. \A d \in created' :
              dirs'[d.at][d.topic] # Absent /\ d.parts \subseteq dirs'[d.at][d.topic]
      BY <2>3, <2>4, <2>7 DEF OwnerInv
    <2>13. \A g \in Handlers : Owns(g)' =>
              /\ dirs'[On(g)][creating'[g].topic] # Absent
              /\ Made(g)' \subseteq dirs'[On(g)][creating'[g].topic]
              /\ \A f \in Handlers :
                    f # g /\ Owns(f)' /\ On(f) = On(g) => creating'[f].topic # creating'[g].topic
              /\ \A i \in inserts :
                    i.pc = "parts" /\ i.to = On(g) => i.topic # creating'[g].topic
      BY <2>3, <2>8 DEF OwnerInv
    <2> QED  BY <2>3, <2>9, <2>10, <2>11, <2>12, <2>13 DEF OwnerInv
  <1> QED  BY <1>2, <1>4, <1>5, <1>6, <1>7, <1>8, <1>9, <1>10, <1>11, <1>12 DEF CreateStep

\* InsertMetadata.
LEMMA InsertOwners ==
  ASSUME TypeInv, OwnerInv, DirsGrow, NEW i \in inserts, InsertStep(i)
  PROVE  OwnerInv'
  <1>0. i \in InsertCall /\ i.to \in Brokers /\ i.topic \in Topics /\ i.mine \in SUBSET Partitions
    <2>1. i \in InsertCall  BY DEF TypeInv
    <2> QED  BY <2>1 DEF InsertCall
  <1>1. /\ created' = created /\ up' = up /\ creating' = creating /\ skipped' = skipped
        /\ \A h \in Handlers : Owns(h)' = Owns(h) /\ Made(h)' = Made(h)
    BY DEF InsertStep, InsertUpdate, InsertPersist, InsertDir, InsertPartition, InsertRegister, Owns, Made
  <1>2. ASSUME \A j \in inserts' : j.pc = "parts" => j \in inserts, AckedServed'
        PROVE  OwnerInv'
    BY <1>1, <1>2, HandlersKept
  <1>3. ASSUME topics' = topics PROVE AckedServed'
    BY <1>1, <1>3, ServedKept
  <1>4. CASE InsertUpdate(i)
    <2> DEFINE j == [i EXCEPT !.pc = "persist", !.isNew = (topics[i.to][i.topic] = Absent)]
    <2>1. j.pc = "persist"
      BY <1>0 DEF InsertCall
    <2>2. inserts' = (inserts \ {i}) \cup {j} /\ topics' = topics
      BY <1>4 DEF InsertUpdate, Becomes
    <2> HIDE DEF j
    <2> QED  BY <1>2, <1>3, <2>1, <2>2
  <1>5. CASE InsertPersist(i)
    <2> DEFINE j == [i EXCEPT !.pc = "mkdir"]
    <2>1. j.pc = "mkdir"
      BY <1>0 DEF InsertCall
    <2>2. inserts' \subseteq inserts \cup {j} /\ topics' = topics
      BY <1>5 DEF InsertPersist, Becomes, Finished
    <2> HIDE DEF j
    <2> QED  BY <1>2, <1>3, <2>1, <2>2
  <1>6. CASE InsertDir(i)
    <2> DEFINE mine == PartitionsResponsibleFor(i.to, meta[i.to][i.topic])
               j == [i EXCEPT !.pc = "parts", !.mine = mine, !.left = mine]
    <2>1. j.to = i.to /\ j.topic = i.topic /\ j.mine \ j.left = {}
      BY <1>0 DEF InsertCall
    <2>2. /\ \/ /\ dirs[i.to][i.topic] = Absent
                /\ dirs' = [dirs EXCEPT ![i.to][i.topic] = {}] /\ inserts' = (inserts \ {i}) \cup {j}
             \/ inserts' = inserts \ {i}
          /\ topics' = topics /\ i.pc = "mkdir"
      BY <1>6 DEF InsertDir, Becomes, Finished
    <2> HIDE DEF j, mine
    <2>3. CASE /\ dirs[i.to][i.topic] = Absent
               /\ dirs' = [dirs EXCEPT ![i.to][i.topic] = {}] /\ inserts' = (inserts \ {i}) \cup {j}
      <3>1. dirs'[i.to][i.topic] = {} /\ {} # Absent
        BY <1>0, <2>3 DEF TypeInv, Absent
      <3>2. /\ \A c \in created : c.at = i.to => c.topic # i.topic
            /\ \A h \in Handlers : Owns(h) /\ On(h) = i.to => creating[h].topic # i.topic
            /\ \A k \in inserts : k.pc = "parts" /\ k.to = i.to => k.topic # i.topic
        BY <2>3 DEF OwnerInv
      <3>3. ASSUME NEW h \in Handlers, Owns(h)
            PROVE  /\ dirs'[On(h)][creating[h].topic] # Absent
                   /\ Made(h)' \subseteq dirs'[On(h)][creating[h].topic]
                   /\ \A k \in inserts' :
                         k.pc = "parts" /\ k.to = On(h) => k.topic # creating[h].topic
        <4>1. On(h) \in Brokers /\ creating[h].topic \in Topics
          BY <3>3, CreatingShape DEF Owns
        <4>2. dirs[On(h)][creating[h].topic] # Absent
          BY <3>3 DEF OwnerInv
        <4>3. Made(h)' \subseteq dirs'[On(h)][creating'[h].topic]
          BY <1>1, <3>3, HandlerKept
        <4>4. \A k \in inserts : k.pc = "parts" /\ k.to = On(h) => k.topic # creating[h].topic
          BY <3>3 DEF OwnerInv
        <4> QED  BY <1>1, <2>1, <2>3, <3>2, <3>3, <4>1, <4>2, <4>3, <4>4 DEF DirsGrow
      <3>4. ASSUME NEW k \in inserts', k.pc = "parts"
            PROVE  /\ dirs'[k.to][k.topic] # Absent
                   /\ k.mine \ k.left \subseteq dirs'[k.to][k.topic]
                   /\ \A c \in created : c.at = k.to => c.topic # k.topic
                   /\ \A l \in inserts' : l.pc = "parts" /\ l.to = k.to /\ l.topic = k.topic => l = k
        <4>1. CASE k = j
          BY <2>1, <2>3, <3>1, <3>2, <4>1
        <4>2. CASE k \in inserts
          <5>1. k \in InsertCall  BY <4>2 DEF TypeInv
          <5>2. k.to \in Brokers /\ k.topic \in Topics  BY <5>1 DEF InsertCall
          <5>3. /\ dirs[k.to][k.topic] # Absent /\ k.mine \ k.left \subseteq dirs[k.to][k.topic]
                /\ \A c \in created : c.at = k.to => c.topic # k.topic
                /\ \A l \in inserts : l.pc = "parts" /\ l.to = k.to /\ l.topic = k.topic => l = k
            BY <3>4, <4>2 DEF OwnerInv
          <5>4. ~(k.to = i.to /\ k.topic = i.topic)
            BY <3>2, <3>4, <4>2
          <5>5. \A l \in inserts' : l.pc = "parts" /\ l.to = k.to /\ l.topic = k.topic => l = k
            BY <2>1, <2>3, <5>3, <5>4
          <5> QED  BY <5>2, <5>3, <5>5 DEF DirsGrow
        <4> QED  BY <2>3, <4>1, <4>2
      <3>5. \A c \in created : dirs'[c.at][c.topic] # Absent /\ c.parts \subseteq dirs'[c.at][c.topic]
        BY DEF OwnerInv, DirsGrow, TypeInv
      <3>6. AckedServed'
        BY <1>3, <2>2
      <3>7. \A h \in Handlers : Owns(h) =>
              /\ \A c \in created : c.at = On(h) => c.topic # creating[h].topic
              /\ \A g \in Handlers :
                    g # h /\ Owns(g) /\ On(g) = On(h) => creating[g].topic # creating[h].topic
        BY DEF OwnerInv
      <3> QED  BY <1>1, <3>3, <3>4, <3>5, <3>6, <3>7 DEF OwnerInv
    <2> QED  BY <1>2, <1>3, <2>2, <2>3
  <1>7. CASE InsertPartition(i)
    <2> DEFINE p == Min(i.left)
               j == [i EXCEPT !.left = @ \ {p}]
    <2>1. j.to = i.to /\ j.topic = i.topic /\ j.mine = i.mine /\ j.left = i.left \ {p}
      BY <1>0 DEF InsertCall
    <2>2. /\ \/ dirs' = [dirs EXCEPT ![i.to][i.topic] = @ \cup {p}] /\ inserts' = (inserts \ {i}) \cup {j}
             \/ inserts' = inserts \ {i}
          /\ topics' = topics /\ i.pc = "parts"
      BY <1>7 DEF InsertPartition, Becomes, Finished
    <2> HIDE DEF j, p
    <2>3. CASE dirs' = [dirs EXCEPT ![i.to][i.topic] = @ \cup {p}] /\ inserts' = (inserts \ {i}) \cup {j}
      <3>1. dirs'[i.to][i.topic] = dirs[i.to][i.topic] \cup {p}
        BY <1>0, <2>3 DEF TypeInv
      <3>2. i.mine \ i.left \subseteq dirs[i.to][i.topic]
        BY <2>2 DEF OwnerInv
      <3>3. j.mine \ j.left \subseteq dirs'[j.to][j.topic]
        BY <2>1, <3>1, <3>2
      <3>4. \A k \in inserts' : k.pc = "parts" =>
               /\ k.mine \ k.left \subseteq dirs'[k.to][k.topic]
               /\ \E l \in inserts : l.pc = "parts" /\ l.to = k.to /\ l.topic = k.topic
        BY <2>1, <2>2, <2>3, <3>3, InsertsKept
      <3>5. \A k \in inserts : k.pc = "parts" /\ k.to = i.to /\ k.topic = i.topic => k = i
        BY <2>2 DEF OwnerInv
      <3>6. \A k, l \in inserts' :
               k.pc = "parts" /\ l.pc = "parts" /\ l.to = k.to /\ l.topic = k.topic => l = k
        <4> SUFFICES ASSUME NEW k \in inserts', NEW l \in inserts',
                            k.pc = "parts", l.pc = "parts", l.to = k.to, l.topic = k.topic
                     PROVE  l = k
          OBVIOUS
        <4>1. CASE k \in inserts \ {i} /\ l \in inserts \ {i}
          BY <4>1 DEF OwnerInv
        <4>2. CASE k = j \/ l = j
          BY <2>1, <2>3, <3>5, <4>2
        <4> QED  BY <2>3, <4>1, <4>2
      <3>7. \A h \in Handlers : Owns(h)' =>
               /\ Owns(h) /\ creating'[h].topic = creating[h].topic
               /\ Made(h)' \subseteq dirs'[On(h)][creating'[h].topic]
        BY <1>1, HandlerKept
      <3>8. AckedServed'
        BY <1>3, <2>2
      <3> QED  BY <1>1, <3>4, <3>6, <3>7, <3>8, OwnersKept
    <2> QED  BY <1>2, <1>3, <2>2, <2>3
  <1>8. CASE InsertRegister(i)
    <2>1. topics' = [topics EXCEPT ![i.to][i.topic] = i.mine] /\ inserts' = inserts \ {i} /\ i.pc = "parts"
      BY <1>8 DEF InsertRegister, Finished
    <2>2. \A c \in created : topics'[c.at][c.topic] = topics[c.at][c.topic]
      <3> TAKE c \in created
      <3>1. c.at \in Brokers /\ c.topic \in Topics /\ (c.at = i.to => c.topic # i.topic)
        BY <2>1 DEF OwnerInv, TypeInv
      <3> QED  BY <1>0, <2>1, <3>1 DEF TypeInv
    <2>3. AckedServed'
      BY <1>1, <2>2 DEF AckedServed, OwnerInv
    <2> QED  BY <1>2, <2>1, <2>3
  <1> QED  BY <1>4, <1>5, <1>6, <1>7, <1>8 DEF InsertStep

\* Crash, restart and replication.  A broker that starts again serves the
\* directories, and they hold all that it acknowledged.
LEMMA BrokerOwners ==
  ASSUME TypeInv, OwnerInv, DirsGrow, NEW b \in Brokers,
         Crash(b) \/ LoadBroker(b) \/ StartReplication(b)
  PROVE  OwnerInv'
  <1>1. CASE Crash(b)
    <2> DEFINE D == [i \in inserts |-> IF On(i.from) = b THEN [i EXCEPT !.from = Gone] ELSE i]
    <2>1. /\ up' = [up EXCEPT ![b] = FALSE]
          /\ inserts' = {D[i] : i \in {j \in inserts : j.to # b}}
          /\ creating' = [h \in Handlers |-> IF On(h) = b THEN Idle ELSE creating[h]]
          /\ topics' = topics /\ dirs' = dirs /\ created' = created /\ skipped' = skipped
      BY <1>1 DEF Crash
    <2>2. AckedServed'
      <3>1. \A c \in created : up'[c.at] => up[c.at]
        BY <2>1 DEF TypeInv
      <3> QED  BY <2>1, <3>1 DEF AckedServed, OwnerInv
    <2>3. \A h \in Handlers : Owns(h)' =>
             Owns(h) /\ Made(h)' = Made(h) /\ creating'[h].topic = creating[h].topic
      <3> SUFFICES ASSUME NEW h \in Handlers, Owns(h)'
                   PROVE  Owns(h) /\ Made(h)' = Made(h) /\ creating'[h].topic = creating[h].topic
        OBVIOUS
      <3>1. CASE On(h) = b
        <4>1. creating'[h].pc = "idle"  BY <2>1, <3>1 DEF Idle
        <4> QED  BY <4>1 DEF Owns
      <3>2. CASE On(h) # b
        <4>1. creating'[h] = creating[h]  BY <2>1, <3>2
        <4> QED  BY <4>1 DEF Owns, Made
      <3> QED  BY <3>1, <3>2
    <2>4. \A i \in inserts :
             /\ D[i].pc = i.pc /\ D[i].to = i.to /\ D[i].topic = i.topic
             /\ D[i].mine = i.mine /\ D[i].left = i.left
      <3> TAKE i \in inserts
      <3>1. i \in InsertCall  BY DEF TypeInv
      <3> QED  BY <3>1 DEF InsertCall
    <2> HIDE DEF D
    <2>6. \A k \in inserts' : \E i \in inserts : k = D[i]
      BY <2>1
    <2>7. /\ \A i \in inserts' : i.pc = "parts" =>
               /\ i.mine \ i.left \subseteq dirs'[i.to][i.topic]
               /\ \E j \in inserts : j.pc = "parts" /\ j.to = i.to /\ j.topic = i.topic
          /\ \A i, j \in inserts' :
               i.pc = "parts" /\ j.pc = "parts" /\ j.to = i.to /\ j.topic = i.topic => j = i
      BY <2>4, <2>6, Redirected
    <2>9. \A h \in Handlers : Owns(h)' => Made(h)' \subseteq dirs'[On(h)][creating'[h].topic]
      BY <2>3, HandlerKept
    <2> QED  BY <2>1, <2>2, <2>3, <2>7, <2>9, OwnersKept
  <1>2. CASE LoadBroker(b)
    <2>a. PICK bad \in SUBSET Topics :
            /\ \E x \in LoadTopics(b, bad) : topics' = [topics EXCEPT ![b] = x]
            /\ skipped' = [skipped EXCEPT ![b] = bad]
      BY <1>2 DEF LoadBroker
    <2>b. PICK loaded \in LoadTopics(b, bad) : topics' = [topics EXCEPT ![b] = loaded]
      BY <2>a
    <2>0. /\ loaded \in LoadTopics(b, bad)
          /\ topics' = [topics EXCEPT ![b] = loaded]
          /\ skipped' = [skipped EXCEPT ![b] = bad]
      BY <2>a, <2>b
    <2>1. /\ up' = [up EXCEPT ![b] = TRUE]
          /\ creating' = creating /\ inserts' = inserts /\ created' = created
      BY <1>2 DEF LoadBroker
    <2>2. AckedServed'
      <3> SUFFICES ASSUME NEW c \in created, up'[c.at], c.topic \notin skipped'[c.at]
                   PROVE  topics'[c.at][c.topic] # Absent /\ c.parts \subseteq topics'[c.at][c.topic]
        BY <2>1 DEF AckedServed
      <3>0. c.at \in Brokers /\ c.topic \in Topics  BY DEF TypeInv
      <3>1. CASE c.at = b
        <4>1. topics'[b] = loaded /\ c.topic \notin bad /\ loaded \in LoadTopics(b, bad)
          BY <2>0, <3>1 DEF TypeInv
        <4>2. topics'[c.at][c.topic] = dirs[c.at][c.topic]
          BY <3>0, <3>1, <4>1 DEF LoadTopics
        <4> QED  BY <4>2 DEF OwnerInv
      <3>2. CASE c.at # b
        <4>1. topics'[c.at] = topics[c.at] /\ up[c.at] /\ skipped'[c.at] = skipped[c.at]
          BY <2>0, <2>1, <3>0, <3>2 DEF TypeInv
        <4> QED  BY <4>1 DEF OwnerInv, AckedServed
      <3> QED  BY <3>1, <3>2
    <2>3. \A h \in Handlers : Owns(h)' = Owns(h) /\ Made(h)' = Made(h)
      BY <2>1 DEF Owns, Made
    <2> QED  BY <2>1, <2>2, <2>3, HandlersKept
  <1>3. CASE StartReplication(b)
    <2>1. /\ up' = up /\ topics' = topics /\ creating' = creating /\ inserts' = inserts
          /\ created' = created /\ skipped' = skipped
      BY <1>3 DEF StartReplication
    <2>2. AckedServed'
      BY <2>1, ServedKept
    <2>3. \A h \in Handlers : Owns(h)' = Owns(h) /\ Made(h)' = Made(h)
      BY <2>1 DEF Owns, Made
    <2> QED  BY <2>1, <2>2, <2>3, HandlersKept
  <1> QED  BY <1>1, <1>2, <1>3

----------------------------------------------------------------------------
(* The theorems.                                                           *)

LEMMA ClusterInit ==
  ASSUME Init
  PROVE  TypeInv /\ OwnerInv
  <1>1. Idle.pc = "idle"
    BY DEF Idle
  <1>2. MaxRequests \in Nat
    BY ClusterAssumption
  <1>3. \A h \in Handlers : creating[h].pc = "idle"
    BY <1>1 DEF Init
  <1>4. TypeInv
    <2>1. Absent \in Served /\ NoMeta \in Known
      BY DEF Served, Known
    <2>2. /\ up \in [Brokers -> BOOLEAN] /\ topics \in [Brokers -> [Topics -> Served]]
          /\ dirs \in [Brokers -> [Topics -> Served]] /\ meta \in [Brokers -> [Topics -> Known]]
          /\ metaLog \in [Brokers -> [Topics -> Known]] /\ closed \in [Brokers -> SUBSET Brokers]
          /\ creating \in [Handlers -> Stage]
          /\ inserts = {} /\ starting = {} /\ created = {} /\ shared = {}
          /\ skipped \in [Brokers -> SUBSET Topics]
      BY <2>1 DEF Init, Stage
    <2>3. requests \in [Topics -> 0..MaxRequests]
      BY <1>2 DEF Init
    <2> QED  BY <1>3, <2>2, <2>3 DEF TypeInv
  <1>5. OwnerInv
    BY <1>3 DEF OwnerInv, AckedServed, Init, Owns
  <1> QED  BY <1>4, <1>5

LEMMA ClusterStep ==
  ASSUME TypeInv, OwnerInv, [Next]_vars
  PROVE  TypeInv' /\ OwnerInv'
  <1>0. DirsGrow
    BY DirsOnlyGrow
  <1>1. CASE UNCHANGED vars
    <2>1. TypeInv'
      BY <1>1 DEF TypeInv, vars
    <2>2. OwnerInv'
      BY <1>1 DEF OwnerInv, AckedServed, Owns, Made, vars
    <2> QED  BY <2>1, <2>2
  <1>2. ASSUME NEW h \in Handlers, CreateStep(h) PROVE TypeInv' /\ OwnerInv'
    BY <1>0, <1>2, CreateStepType, CreateOwners
  <1>3. ASSUME NEW h \in Handlers, NEW t \in Topics, CreateTopic(h, t) PROVE TypeInv' /\ OwnerInv'
    BY <1>0, <1>3, CreateTopicType, CreateOwners
  <1>4. ASSUME NEW b \in Brokers, CreateRejected(b) PROVE UNCHANGED vars
    BY <1>4 DEF CreateRejected
  <1>5. ASSUME NEW b \in Brokers, Crash(b) \/ LoadBroker(b) \/ StartReplication(b)
        PROVE  TypeInv' /\ OwnerInv'
    BY <1>0, <1>5, BrokerStepType, BrokerOwners
  <1>6. ASSUME NEW i \in inserts, InsertStep(i) PROVE TypeInv' /\ OwnerInv'
    BY <1>0, <1>6, InsertStepType, InsertOwners
  <1> QED  BY <1>1, <1>2, <1>3, <1>4, <1>5, <1>6 DEF Next

LEMMA ClusterInvariant == Spec => [](TypeInv /\ OwnerInv)
  <1>1. Init => TypeInv /\ OwnerInv
    BY ClusterInit
  <1>2. TypeInv /\ OwnerInv /\ [Next]_vars => (TypeInv /\ OwnerInv)'
    BY ClusterStep
  <1> QED  BY <1>1, <1>2, PTL DEF Spec

\* What brokers register, store and send each other is well formed in every
\* interleaving of their requests, crashes and restarts; the metadata of a
\* topic names brokers of the cluster.
THEOREM ClusterTypeCorrect == Spec => []TypeOK
  <1>1. TypeInv => TypeOK
    <2> SUFFICES ASSUME TypeInv PROVE TypeOK
      OBVIOUS
    <2>1. \A h \in Handlers : creating[h].pc \in {"idle", "init", "mkdir", "parts", "bcast", "await"}
      BY CreatingShape
    <2>2. \A i \in inserts : i.pc \in {"update", "persist", "mkdir", "parts"} /\ i.meta \in Metadata
      <3> TAKE i \in inserts
      <3>1. i \in InsertCall  BY DEF TypeInv
      <3> QED  BY <3>1 DEF InsertCall
    <2> QED  BY <2>1, <2>2 DEF TypeInv, TypeOK, Served, Known
  <1> QED  BY <1>1, ClusterInvariant, PTL

\* broker.CreateTopic acknowledges a topic once; however many requests for it,
\* broadcasts, crashes, restarts and disk errors follow, on whichever brokers,
\* its partitions stay on the disk of the broker that acknowledged it, which
\* serves them whenever it runs and its last start did not skip the topic or
\* one of its partitions (topic.go and partition.go only warn of that).
THEOREM AckedTopicsSurvive == Spec => []AckedTopicSurvives
  <1>1. OwnerInv => AckedTopicSurvives
    BY DEF OwnerInv, AckedServed, AckedTopicSurvives
  <1> QED  BY <1>1, ClusterInvariant, PTL

----------------------------------------------------------------------------
(* A calm cluster: each topic is requested once, and nothing fails.        *)

Calm == MaxRequests = 1 /\ MaxCrashes = 0 /\ ~IOFails

\* A handler works on the topic; it is broadcasting.
Working(h, t) == creating[h].pc # "idle" /\ creating[h].topic = t

Bcasting(h) == creating[h].pc \in {"bcast", "await"}

\* A broker that has not heard of the topic, and one that is done with it.
Fresh(b, t) == meta[b][t] = NoMeta /\ dirs[b][t] = Absent /\ topics[b][t] = Absent

Serves(b, t, m) == meta[b][t] = m /\ topics[b][t] = PartitionsResponsibleFor(b, m)

\* No broker has metadata of the topic: at most, its one request has passed the
\* checks.
Untouched(t) ==
    /\ \A b \in Brokers : Fresh(b, t)
    /\ \A h \in Handlers : Working(h, t) => creating[h].pc = "init" /\ requests[t] = 1
    /\ \A g, h \in Handlers : Working(g, t) /\ Working(h, t) => g = h
    /\ \A i \in inserts : i.topic # t
    /\ \A c \in created : c.topic # t

\* The handler h of the one request for the topic, which made metadata m: the
\* peers it has still to visit are fresh.
HandlerAt(h, t, m) ==
    /\ On(h) = m.by
    /\ topics[m.by][t] = Absent
    /\ creating[h].pc # "init"
    /\ creating[h].pc = "mkdir" => dirs[m.by][t] = Absent
    /\ creating[h].pc # "mkdir" => creating[h].mine = PartitionsResponsibleFor(m.by, m)
    /\ creating[h].pc \in {"mkdir", "parts"} => \A p \in Brokers \ {m.by} : Fresh(p, t)
    /\ creating[h].pc \in {"bcast", "await"} =>
          /\ creating[h].meta = m
          /\ m.by \notin creating[h].peers
          /\ \A p \in creating[h].peers : Fresh(p, t)

\* An InsertMetadata call, on a broker that is new to the topic: the handler
\* waits for it, or was cut off from it.
InsertAt(i, t, m) ==
    /\ i.meta = m /\ i.to # m.by
    /\ i.from \in Handlers => Working(i.from, t) /\ creating[i.from].pc = "await"
    /\ \A h \in Handlers : Working(h, t) => Bcasting(h) /\ i.to \notin creating[h].peers
    /\ topics[i.to][t] = Absent
    /\ i.pc = "update" => meta[i.to][t] = NoMeta
    /\ i.pc # "update" => meta[i.to][t] = m
    /\ i.pc = "persist" => i.isNew
    /\ i.pc # "parts" => dirs[i.to][t] = Absent
    /\ i.pc = "parts" => i.mine = PartitionsResponsibleFor(i.to, m)

\* The topic was asked for, and m is its metadata: one handler works on it, one
\* call at a time on each other broker, and every broker is fresh, busy or done.
CreatedAs(t, m) ==
    /\ requests[t] = 1 /\ meta[m.by][t] = m
    /\ \A h \in Handlers : Working(h, t) => HandlerAt(h, t, m)
    /\ \A g, h \in Handlers : Working(g, t) /\ Working(h, t) => g = h
    /\ \A i \in inserts : i.topic = t => InsertAt(i, t, m)
    /\ \A i, j \in inserts : i.topic = t /\ j.topic = t /\ i.to = j.to => i = j
    /\ \A b \in Brokers \ {m.by} :
          (\E i \in inserts : i.topic = t /\ i.to = b) \/ Fresh(b, t) \/ Serves(b, t, m)
    /\ (\E h \in Handlers : Working(h, t)) \/ Serves(m.by, t, m)
    /\ \A c \in created : c.topic = t =>
          c.meta = m /\ c.at = m.by /\ \A h \in Handlers : ~Working(h, t)

TopicInv(t) == Untouched(t) \/ \E m \in Metadata : CreatedAs(t, m)

\* A broadcast that is not shared is the only one of its broker.
LoneInv ==
    \A g, h \in Handlers :
        g # h /\ On(g) = On(h) /\ Bcasting(g) /\ Bcasting(h) => h \in shared

Returned(b) == \E c \in created : c.at = b

\* Connections are closed by a broadcast only.
ClosedOf(b) ==
    closed[b] # {} => Returned(b) \/ \E h \in Handlers : On(h) = b /\ Bcasting(h)

\* The first broadcast of a broker reaches everyone, if it is not shared: the
\* peers it has not visited have no closed connection, and the others have the
\* metadata or are at it while the handler waits.
FirstOf(h) ==
    Bcasting(h) /\ h \notin shared /\ ~Returned(On(h)) =>
        /\ creating[h].peers \cap closed[On(h)] = {}
        /\ \A p \in Brokers \ {On(h)} :
              \/ p \in creating[h].peers
              \/ \E i \in inserts : i.topic = creating[h].topic /\ i.to = p /\ i.from = h
              \/ Serves(p, creating[h].topic, creating[h].meta)

Quiet == (\A b \in Brokers : up[b]) /\ starting = {} /\ crashes = 0 /\ IsFiniteSet(created)

CalmInv ==
    /\ Quiet
    /\ \A t \in Topics : TopicInv(t)
    /\ LoneInv
    /\ \A b \in Brokers : ClosedOf(b)
    /\ \A h \in Handlers : FirstOf(h)
    /\ FirstTopicEverywhere

\* Tables f and g agree but for topic t on broker b.
SameBut(f, g, b, t) ==
    \A c \in Brokers, s \in Topics : c # b \/ s # t => g[c][s] = f[c][s]

LEMMA EntryOnly ==
  ASSUME NEW S, NEW f \in [Brokers -> [Topics -> S]], NEW b \in Brokers, NEW t \in Topics,
         NEW v, NEW g, g = [f EXCEPT ![b][t] = v]
  PROVE  SameBut(f, g, b, t) /\ g[b][t] = v
  BY DEF SameBut

\* No handler is Gone.
LEMMA GoneIsNone == Gone \notin Handlers
  <1>1. -1 \notin Brokers
    BY ClusterAssumption DEF Brokers
  <1> QED  BY <1>1 DEF Gone, Handlers

\* A record of creating that has to do with no topic but t.
About(r, t) == r.pc = "idle" \/ r.topic = t

\* A step that concerns topic t only, and its tables on broker b only.
StepOn(b, t) ==
    /\ SameBut(meta, meta', b, t) /\ SameBut(dirs, dirs', b, t) /\ SameBut(topics, topics', b, t)
    /\ \A s \in Topics : s # t => requests'[s] = requests[s]
    /\ \A h \in Handlers :
          creating'[h] = creating[h] \/ (About(creating[h], t) /\ About(creating'[h], t))
    /\ \A h \in Handlers : h \in shared /\ creating'[h] = creating[h] => h \in shared'
    /\ \A i : i.topic # t => (i \in inserts' <=> i \in inserts)
    /\ \A c : c.topic # t => (c \in created' <=> c \in created)
    /\ created \subseteq created'
    /\ UNCHANGED <<up, starting, crashes>>

\* The other topics do not notice.
LEMMA OtherTopics ==
  ASSUME TypeInv, NEW b \in Brokers, NEW t \in Topics, StepOn(b, t),
         NEW s \in Topics, s # t, TopicInv(s)
  PROVE  TopicInv(s)'
  <1>1. \A c \in Brokers : /\ meta'[c][s] = meta[c][s] /\ dirs'[c][s] = dirs[c][s]
                           /\ topics'[c][s] = topics[c][s]
    BY DEF StepOn, SameBut
  <1>2. /\ requests'[s] = requests[s]
        /\ \A i : i.topic = s => (i \in inserts' <=> i \in inserts)
        /\ \A c : c.topic = s => (c \in created' <=> c \in created)
    BY DEF StepOn
  <1>3. \A h \in Handlers : /\ Working(h, s)' <=> Working(h, s)
                            /\ Working(h, s) => creating'[h] = creating[h]
    BY DEF StepOn, About, Working
  <1>4. \A c \in Brokers : /\ Fresh(c, s)' <=> Fresh(c, s)
                           /\ \A m : Serves(c, s, m)' <=> Serves(c, s, m)
    BY <1>1 DEF Fresh, Serves
  <1>5. CASE Untouched(s)
    <2>1. Untouched(s)'
      BY <1>2, <1>3, <1>4, <1>5 DEF Untouched
    <2> QED  BY <2>1 DEF TopicInv
  <1>6. ASSUME NEW m \in Metadata, CreatedAs(s, m) PROVE CreatedAs(s, m)'
    <2>1. m.by \in Brokers
      BY DEF Metadata
    <2>2. \A h \in Handlers : Working(h, s)' => HandlerAt(h, s, m)'
      <3> SUFFICES ASSUME NEW h \in Handlers, Working(h, s)' PROVE HandlerAt(h, s, m)'
        OBVIOUS
      <3>1. HandlerAt(h, s, m) /\ creating'[h] = creating[h]
        BY <1>3, <1>6 DEF CreatedAs
      <3>2. creating[h].pc \in {"bcast", "await"} => \A p \in creating[h].peers : p \in Brokers
        BY CreatingShape DEF AtBcast
      <3> QED  BY <1>1, <1>4, <2>1, <3>1, <3>2 DEF HandlerAt
    <2>3. \A i \in inserts' : i.topic = s => InsertAt(i, s, m)'
      <3> SUFFICES ASSUME NEW i \in inserts', i.topic = s PROVE InsertAt(i, s, m)'
        OBVIOUS
      <3>1. i \in inserts /\ InsertAt(i, s, m)
        BY <1>2, <1>6 DEF CreatedAs
      <3>2. i.to \in Brokers
        BY <3>1 DEF TypeInv, InsertCall
      <3>3. i.from \in Handlers => Working(i.from, s)' /\ creating'[i.from].pc = "await"
        BY <1>3, <3>1 DEF InsertAt
      <3>4. \A h \in Handlers : Working(h, s)' => Bcasting(h)' /\ i.to \notin creating'[h].peers
        BY <1>3, <3>1 DEF InsertAt, Bcasting
      <3> QED  BY <1>1, <3>1, <3>2, <3>3, <3>4 DEF InsertAt
    <2>4. \A i, j \in inserts' : i.topic = s /\ j.topic = s /\ i.to = j.to => i = j
      BY <1>2, <1>6 DEF CreatedAs
    <2>5. \A c \in Brokers \ {m.by} :
             (\E i \in inserts' : i.topic = s /\ i.to = c) \/ Fresh(c, s)' \/ Serves(c, s, m)'
      BY <1>2, <1>4, <1>6 DEF CreatedAs
    <2>6. (\E h \in Handlers : Working(h, s)') \/ Serves(m.by, s, m)'
      BY <1>3, <1>4, <1>6, <2>1 DEF CreatedAs
    <2>7. \A c \in created' : c.topic = s =>
             c.meta = m /\ c.at = m.by /\ \A h \in Handlers : ~Working(h, s)'
      BY <1>2, <1>3, <1>6 DEF CreatedAs
    <2>8. requests'[s] = 1 /\ meta'[m.by][s] = m
      BY <1>1, <1>2, <1>6, <2>1 DEF CreatedAs
    <2>9. \A g, h \in Handlers : Working(g, s)' /\ Working(h, s)' => g = h
      BY <1>3, <1>6 DEF CreatedAs
    <2> QED  BY <2>2, <2>3, <2>4, <2>5, <2>6, <2>7, <2>8, <2>9 DEF CreatedAs
  <1> QED  BY <1>5, <1>6 DEF TopicInv

\* Nor do the handlers that work on other topics, nor the topics that are done.
LEMMA OtherFirsts ==
  ASSUME TypeInv, NEW b \in Brokers, NEW t \in Topics, StepOn(b, t),
         NEW h \in Handlers, FirstOf(h), creating'[h] = creating[h], creating[h].topic # t,
         closed'[On(h)] \subseteq closed[On(h)]
  PROVE  FirstOf(h)'
  <1> SUFFICES ASSUME Bcasting(h), h \notin shared', ~Returned(On(h))'
               PROVE  /\ creating[h].peers \cap closed'[On(h)] = {}
                      /\ \A p \in Brokers \ {On(h)} :
                            \/ p \in creating[h].peers
                            \/ \E i \in inserts' : /\ i.topic = creating[h].topic
                                                   /\ i.to = p /\ i.from = h
                            \/ Serves(p, creating[h].topic, creating[h].meta)'
    BY DEF FirstOf, Bcasting
  <1>1. ~Returned(On(h)) /\ h \notin shared
    BY DEF Returned, StepOn
  <1>2. creating[h].topic \in Topics
    BY CreatingShape DEF Bcasting
  <1>3. \A p \in Brokers : Serves(p, creating[h].topic, creating[h].meta)
                              => Serves(p, creating[h].topic, creating[h].meta)'
    BY <1>2 DEF Serves, StepOn, SameBut
  <1>4. \A i \in inserts : i.topic = creating[h].topic => i \in inserts'
    BY DEF StepOn
  <1> QED  BY <1>1, <1>3, <1>4 DEF FirstOf

LEMMA OtherEverywhere ==
  ASSUME TypeInv, NEW b \in Brokers, NEW t \in Topics, StepOn(b, t),
         NEW c \in created, c.topic # t, Everywhere(c)
  PROVE  Everywhere(c)'
  <1>1. c.topic \in Topics
    BY DEF TypeInv
  <1> QED  BY <1>1 DEF Everywhere, StepOn, SameBut

\* A broker that is at the metadata of a topic does not serve it yet.
LEMMA NotEverywhere ==
  ASSUME NEW i \in inserts, i.to \in Brokers, NEW t, NEW m, InsertAt(i, t, m), NEW c, c.topic = t
  PROVE  ~Everywhere(c)
  <1>1. topics[i.to][c.topic] = Absent
    BY DEF InsertAt
  <1>2. PartitionsResponsibleFor(i.to, c.meta) # Absent
    BY ResponsibleType, Distinguished
  <1> QED  BY <1>1, <1>2 DEF Everywhere

\* A step on topic t keeps the invariant if it keeps what concerns t.
LEMMA CalmKept ==
  ASSUME TypeInv, CalmInv, NEW b \in Brokers, NEW t \in Topics, StepOn(b, t),
         TopicInv(t)', LoneInv', \A c \in Brokers : ClosedOf(c)', IsFiniteSet(created'),
         \A h \in Handlers : Working(h, t)' => FirstOf(h)',
         \A h \in Handlers : ~Working(h, t)' =>
            closed'[On(h)] \subseteq closed[On(h)] \/ ~Bcasting(h)' \/ h \in shared',
         \A c \in created : c.topic = t => ~Everywhere(c),
         \A c \in created' : c \notin created /\ c.nth = 1 /\ c.lone => Everywhere(c)'
  PROVE  CalmInv'
  <1>1. Quiet'
    BY DEF CalmInv, Quiet, StepOn
  <1>2. \A s \in Topics : TopicInv(s)'
    BY OtherTopics DEF CalmInv
  <1>3. ASSUME NEW h \in Handlers, ~Working(h, t)' PROVE FirstOf(h)'
    <2>1. CASE ~Bcasting(h)' \/ h \in shared'
      BY <2>1 DEF FirstOf
    <2>2. CASE Bcasting(h)' /\ h \notin shared'
      <3>1. closed'[On(h)] \subseteq closed[On(h)]
        BY <1>3, <2>2
      <3>2. creating'[h].pc # "idle" /\ creating'[h].topic # t
        BY <1>3, <2>2 DEF Bcasting, Working
      <3>3. creating'[h] = creating[h]
        BY <3>2 DEF StepOn, About
      <3> QED  BY <3>1, <3>2, <3>3, OtherFirsts DEF CalmInv
    <2> QED  BY <2>1, <2>2
  <1>4. FirstTopicEverywhere'
    <2> SUFFICES ASSUME NEW c \in created', c.nth = 1, c.lone PROVE Everywhere(c)'
      BY DEF FirstTopicEverywhere
    <2>1. CASE c \in created
      BY <2>1, OtherEverywhere DEF CalmInv, FirstTopicEverywhere
    <2> QED  BY <2>1
  <1> QED  BY <1>1, <1>2, <1>3, <1>4 DEF CalmInv

\* The one request for a topic passes the checks.
LEMMA CalmCreate ==
  ASSUME Calm, TypeInv, CalmInv, NEW h \in Handlers, NEW t \in Topics, CreateTopic(h, t)
  PROVE  CalmInv'
  <1> DEFINE r == [pc |-> "init", topic |-> t, nth |-> requests[t] + 1]
  <1>1. On(h) \in Brokers
    BY CreatingShape
  <1>2. requests[t] = 0
    BY DEF CreateTopic, TypeInv, Calm
  <1>3. /\ creating' = [creating EXCEPT ![h] = r] /\ requests' = [requests EXCEPT ![t] = @ + 1]
        /\ creating[h].pc = "idle"
        /\ UNCHANGED <<up, topics, meta, dirs, closed, inserts, starting, created, shared, crashes>>
    BY DEF CreateTopic, Takes
  <1>4. r.pc = "init" /\ r.topic = t
    OBVIOUS
  <1> HIDE DEF r
  <1>5. /\ creating'[h] = r
        /\ \A g \in Handlers : g # h => creating'[g] = creating[g]
    BY <1>3 DEF TypeInv
  <1>6. requests'[t] = 1 /\ \A s \in Topics : s # t => requests'[s] = requests[s]
    BY <1>2, <1>3 DEF TypeInv
  <1>7. Untouched(t)
    BY <1>2 DEF CalmInv, TopicInv, CreatedAs
  <1>8. StepOn(On(h), t)
    BY <1>3, <1>4, <1>5, <1>6 DEF StepOn, SameBut, About
  <1>9. \A g \in Handlers : Working(g, t)' <=> g = h
    BY <1>2, <1>4, <1>5, <1>7 DEF Working, Untouched
  <1>10. TopicInv(t)'
    <2>1. \A q \in Brokers : Fresh(q, t)'
      BY <1>3, <1>7 DEF Fresh, Untouched
    <2> QED  BY <1>3, <1>4, <1>5, <1>6, <1>7, <1>9, <2>1 DEF TopicInv, Untouched
  <1>11. \A g \in Handlers : Bcasting(g)' <=> Bcasting(g)
    BY <1>3, <1>4, <1>5 DEF Bcasting
  <1>12. LoneInv' /\ \A c \in Brokers : ClosedOf(c)'
    BY <1>3, <1>11 DEF CalmInv, LoneInv, ClosedOf, Returned
  <1>13. FirstOf(h)'
    BY <1>4, <1>5 DEF FirstOf, Bcasting
  <1>14. IsFiniteSet(created') /\ (\A c \in created : c.topic # t) /\ created' = created /\ closed' = closed
    BY <1>3, <1>7 DEF CalmInv, Quiet, Untouched
  <1> QED  BY <1>1, <1>8, <1>9, <1>10, <1>12, <1>13, <1>14, CalmKept

\* metadataManager.Init: nobody else has heard of the topic.
LEMMA CalmInitMetadata ==
  ASSUME Calm, TypeInv, CalmInv, NEW h \in Handlers, InitMetadata(h)
  PROVE  CalmInv'
  <1> DEFINE b == On(h)
  <1>1. PICK t \in Topics : creating[h].topic = t /\ creating[h].pc = "init" /\ b \in Brokers
    BY CreatingShape DEF InitMetadata
  <1>2. Working(h, t)
    BY <1>1 DEF Working
  <1>3. Untouched(t)
    BY <1>1, <1>2 DEF CalmInv, TopicInv, CreatedAs, HandlerAt
  <1>4. PICK m \in Metadata : m.by = b /\ meta' = [meta EXCEPT ![b][t] = m]
    <2>1. PICK first \in Brokers :
            meta' = [meta EXCEPT ![b][t] = [by |-> b, nth |-> creating[h].nth, first |-> first]]
      BY <1>1 DEF InitMetadata
    <2> DEFINE new == [by |-> b, nth |-> creating[h].nth, first |-> first]
    <2>2. creating[h].nth \in 1..MaxRequests
      BY <1>1, CreatingShape DEF AtInit
    <2>3. new \in Metadata /\ new.by = b
      BY <1>1, <2>2 DEF Metadata
    <2> QED  BY <2>1, <2>3
  <1>5. PICK r : r = [pc |-> "mkdir", topic |-> t]
    OBVIOUS
  <1>6. r.pc = "mkdir" /\ r.topic = t
    BY <1>5
  <1>7. /\ creating' = [creating EXCEPT ![h] = r]
        /\ UNCHANGED <<up, topics, dirs, closed, inserts, starting, created, requests, shared, crashes>>
    BY <1>1, <1>5 DEF InitMetadata
  <1>8. /\ creating'[h] = r
        /\ \A g \in Handlers : g # h => creating'[g] = creating[g]
    BY <1>7 DEF TypeInv
  <1> HIDE DEF b
  <1>9. SameBut(meta, meta', b, t) /\ meta'[b][t] = m
    <2>1. meta \in [Brokers -> [Topics -> Known]]
      BY DEF TypeInv
    <2> QED  BY <1>1, <1>4, <2>1 DEF SameBut
  <1>10. StepOn(b, t)
    BY <1>1, <1>6, <1>7, <1>8, <1>9 DEF StepOn, SameBut, About
  <1>11. \A g \in Handlers : Working(g, t)' <=> g = h
    BY <1>2, <1>3, <1>6, <1>8 DEF Working, Untouched
  <1>12. \A p \in Brokers \ {b} : Fresh(p, t)'
    BY <1>3, <1>7, <1>9 DEF Untouched, Fresh, SameBut
  <1>13. HandlerAt(h, t, m)'
    <2>1. On(h) = m.by
      BY <1>4 DEF b
    <2>2. topics'[b][t] = Absent /\ dirs'[b][t] = Absent
      BY <1>1, <1>3, <1>7 DEF Untouched, Fresh
    <2>3. creating'[h].pc = "mkdir"
      BY <1>6, <1>8
    <2> QED  BY <1>4, <1>12, <2>1, <2>2, <2>3 DEF HandlerAt
  <1>14. CreatedAs(t, m)'
    <2>1. (\A i \in inserts' : i.topic # t) /\ (\A c \in created' : c.topic # t)
      BY <1>3, <1>7 DEF Untouched
    <2>2. requests'[t] = 1
      BY <1>2, <1>3, <1>7 DEF Untouched
    <2> QED  BY <1>4, <1>9, <1>11, <1>12, <1>13, <2>1, <2>2 DEF CreatedAs
  <1>15. TopicInv(t)'
    BY <1>14 DEF TopicInv
  <1>16. \A g \in Handlers : Bcasting(g)' <=> Bcasting(g)
    BY <1>1, <1>6, <1>8 DEF Bcasting
  <1>17. LoneInv' /\ \A c \in Brokers : ClosedOf(c)'
    BY <1>7, <1>16 DEF CalmInv, LoneInv, ClosedOf, Returned
  <1>18. FirstOf(h)'
    BY <1>6, <1>8 DEF FirstOf, Bcasting
  <1>19. IsFiniteSet(created') /\ (\A c \in created : c.topic # t) /\ created' = created /\ closed' = closed
    BY <1>3, <1>7 DEF CalmInv, Quiet, Untouched
  <1> QED  BY <1>1, <1>10, <1>11, <1>15, <1>17, <1>18, <1>19, CalmKept

\* A stage of CreateTopic that makes or sends something, on a topic that has
\* its metadata.
LEMMA HandlerGoesOn ==
  ASSUME TypeInv, CalmInv, NEW h \in Handlers, NEW t \in Topics, NEW m \in Metadata,
         CreatedAs(t, m), Working(h, t),
         NEW r, creating' = [creating EXCEPT ![h] = r], r.pc # "idle", r.topic = t,
         SameBut(dirs, dirs', On(h), t),
         UNCHANGED <<up, topics, meta, starting, created, requests, crashes>>,
         \A i : i.topic # t => (i \in inserts' <=> i \in inserts),
         \A i \in inserts' : i.topic = t => InsertAt(i, t, m)',
         \A i, j \in inserts' : i.topic = t /\ j.topic = t /\ i.to = j.to => i = j,
         \A i \in inserts : i.topic = t =>
            (\E j \in inserts' : j.topic = t /\ j.to = i.to) \/ Fresh(i.to, t),
         \A q \in Brokers : closed'[q] = closed[q] \/ (q = On(h) /\ Bcasting(h)'),
         shared \subseteq shared', LoneInv',
         HandlerAt(h, t, m)', Bcasting(h) => Bcasting(h)', FirstOf(h)'
  PROVE  CalmInv'
  <1>1. On(h) \in Brokers /\ m.by \in Brokers /\ On(h) = m.by
    BY CreatingShape DEF Metadata, CreatedAs, HandlerAt
  <1>2. /\ creating'[h] = r
        /\ \A g \in Handlers : g # h => creating'[g] = creating[g]
    BY DEF TypeInv
  <1>3. StepOn(On(h), t)
    BY <1>2 DEF StepOn, SameBut, About, Working
  <1>4. \A g \in Handlers : Working(g, t)' <=> g = h
    BY <1>2 DEF Working, CreatedAs
  <1>5. \A p \in Brokers \ {m.by} : (Fresh(p, t)' <=> Fresh(p, t)) /\ (Serves(p, t, m)' <=> Serves(p, t, m))
    BY <1>1 DEF Fresh, Serves, SameBut
  <1>6. \A c \in created : c.topic # t
    BY DEF CreatedAs
  <1>7. CreatedAs(t, m)'
    <2>1. \A p \in Brokers \ {m.by} :
             (\E i \in inserts' : i.topic = t /\ i.to = p) \/ Fresh(p, t)' \/ Serves(p, t, m)'
      <3> TAKE p \in Brokers \ {m.by}
      <3>1. (\E i \in inserts : i.topic = t /\ i.to = p) \/ Fresh(p, t) \/ Serves(p, t, m)
        BY DEF CreatedAs
      <3>2. (\E i \in inserts' : i.topic = t /\ i.to = p) \/ Fresh(p, t) \/ Serves(p, t, m)
        BY <3>1
      <3> QED  BY <1>5, <3>2
    <2>2. requests'[t] = 1 /\ meta'[m.by][t] = m
      BY DEF CreatedAs
    <2> QED  BY <1>4, <1>6, <2>1, <2>2 DEF CreatedAs
  <1>8. TopicInv(t)'
    BY <1>7 DEF TopicInv
  <1>9. \A g \in Handlers : Bcasting(g) => Bcasting(g)'
    BY <1>2 DEF Bcasting
  <1>10. \A c \in Brokers : ClosedOf(c)'
    <2> TAKE c \in Brokers
    <2>1. Returned(c)' <=> Returned(c)
      BY DEF Returned
    <2>2. CASE closed'[c] = closed[c]
      BY <1>9, <2>1, <2>2 DEF CalmInv, ClosedOf
    <2>3. CASE c = On(h) /\ Bcasting(h)'
      BY <2>3 DEF ClosedOf
    <2> QED  BY <2>2, <2>3
  <1>11. IsFiniteSet(created')
    BY DEF CalmInv, Quiet
  <1>12. ASSUME NEW g \in Handlers, ~Working(g, t)'
         PROVE  closed'[On(g)] \subseteq closed[On(g)] \/ ~Bcasting(g)' \/ g \in shared'
    <2>1. On(g) \in Brokers /\ g # h
      BY <1>4, <1>12, CreatingShape
    <2>2. CASE closed'[On(g)] = closed[On(g)]
      BY <2>2
    <2>3. CASE On(g) = On(h) /\ Bcasting(h)'
      BY <2>1, <2>3 DEF LoneInv
    <2> QED  BY <2>1, <2>2, <2>3
  <1> QED  BY <1>1, <1>3, <1>4, <1>6, <1>8, <1>10, <1>11, <1>12, CalmKept

\* The handler of a step that has metadata, and the calls that it waits for.
LEMMA HandlerWorks ==
  ASSUME TypeInv, CalmInv, NEW h \in Handlers, creating[h].pc \notin {"idle", "init"}
  PROVE  \E t \in Topics, m \in Metadata :
            /\ Working(h, t) /\ CreatedAs(t, m) /\ HandlerAt(h, t, m)
            /\ \A i \in inserts : i.topic = t => Bcasting(h) /\ i.to \notin creating[h].peers
            /\ \A i \in inserts : i.from = h => i.topic = t /\ creating[h].pc = "await"
            /\ \A c \in created : c.topic # t
  <1>1. PICK t \in Topics : creating[h].topic = t
    BY CreatingShape
  <1>2. Working(h, t)
    BY <1>1 DEF Working
  <1>3. ~Untouched(t)
    BY <1>2 DEF Untouched
  <1>4. PICK m \in Metadata : CreatedAs(t, m)
    BY <1>3 DEF CalmInv, TopicInv
  <1>5. HandlerAt(h, t, m) /\ (\A c \in created : c.topic # t)
        /\ \A i \in inserts : i.topic = t => Bcasting(h) /\ i.to \notin creating[h].peers
    BY <1>2, <1>4 DEF CreatedAs, InsertAt
  <1>6. ASSUME NEW i \in inserts, i.from = h PROVE i.topic = t /\ creating[h].pc = "await"
    <2>1. PICK s \in Topics : i.topic = s
      BY DEF TypeInv, InsertCall
    <2>2. ~Untouched(s)
      BY <2>1 DEF Untouched
    <2>3. PICK n \in Metadata : CreatedAs(s, n)
      BY <2>2 DEF CalmInv, TopicInv
    <2>4. Working(h, s) /\ creating[h].pc = "await"
      BY <1>6, <2>1, <2>3 DEF CreatedAs, InsertAt
    <2> QED  BY <1>1, <2>1, <2>4 DEF Working
  <1> QED  BY <1>2, <1>4, <1>5, <1>6

\* A stage that sends nothing: the calls in progress are not affected.
LEMMA HandlerStage ==
  ASSUME TypeInv, CalmInv, NEW h \in Handlers, NEW t \in Topics, NEW m \in Metadata,
         CreatedAs(t, m), Working(h, t),
         NEW r, creating' = [creating EXCEPT ![h] = r], r.pc # "idle", r.topic = t,
         SameBut(dirs, dirs', On(h), t),
         UNCHANGED <<up, topics, meta, starting, created, requests, crashes, inserts, closed>>,
         \A i \in inserts : i.topic = t =>
            r.pc \in {"bcast", "await"} /\ i.to \notin r.peers /\ (i.from = h => r.pc = "await"),
         shared \subseteq shared', LoneInv',
         HandlerAt(h, t, m)', Bcasting(h) => Bcasting(h)', FirstOf(h)'
  PROVE  CalmInv'
  <1>1. /\ creating'[h] = r
        /\ \A g \in Handlers : g # h => creating'[g] = creating[g]
    BY DEF TypeInv
  <1>2. On(h) = m.by /\ \A g \in Handlers : Working(g, t) <=> g = h
    BY DEF CreatedAs, HandlerAt
  <1>3. ASSUME NEW i \in inserts, i.topic = t PROVE InsertAt(i, t, m)'
    <2>1. InsertAt(i, t, m) /\ i.to \in Brokers /\ i.to # On(h)
      BY <1>2, <1>3 DEF CreatedAs, InsertAt, TypeInv, InsertCall
    <2>2. dirs'[i.to][t] = dirs[i.to][t]
      BY <2>1 DEF SameBut
    <2>3. \A g \in Handlers : Working(g, t)' <=> g = h
      BY <1>1, <1>2 DEF Working
    <2>4. \A g \in Handlers : Working(g, t)' => Bcasting(g)' /\ i.to \notin creating'[g].peers
      BY <1>1, <1>3, <2>3 DEF Bcasting
    <2>5. i.from \in Handlers => Working(i.from, t)' /\ creating'[i.from].pc = "await"
      BY <1>1, <1>2, <1>3, <2>1, <2>3 DEF InsertAt
    <2> QED  BY <2>1, <2>2, <2>4, <2>5 DEF InsertAt
  <1>4. \A i, j \in inserts : i.topic = t /\ j.topic = t /\ i.to = j.to => i = j
    BY DEF CreatedAs
  <1> QED  BY <1>3, <1>4, HandlerGoesOn

\* The stages of CreateTopic that create directories and go through the peers.
LEMMA CalmHandler ==
  ASSUME Calm, TypeInv, CalmInv, NEW h \in Handlers,
         \/ CreateDir(h) \/ CreatePartition(h) \/ BroadcastMetadata(h) \/ BroadcastReturns(h)
         \/ \E p \in Brokers : BroadcastFails(h, p)
  PROVE  CalmInv'
  <1> DEFINE c == creating[h]
             b == On(h)
  <1>0. creating[h].pc \notin {"idle", "init"}
    BY DEF CreateDir, CreatePartition, BroadcastMetadata, BroadcastReturns, BroadcastFails
  <1>1. PICK t \in Topics, m \in Metadata :
            /\ Working(h, t) /\ CreatedAs(t, m) /\ HandlerAt(h, t, m)
            /\ \A i \in inserts : i.topic = t => Bcasting(h) /\ i.to \notin creating[h].peers
            /\ \A i \in inserts : i.from = h => i.topic = t /\ creating[h].pc = "await"
            /\ \A d \in created : d.topic # t
    BY <1>0, HandlerWorks
  <1>2. b \in Brokers /\ b = m.by /\ c.topic = t /\ meta[b][t] = m /\ topics[b][t] = Absent
    BY <1>1, CreatingShape DEF HandlerAt, Working, CreatedAs
  <1>3. /\ \A r : creating' = [creating EXCEPT ![h] = r] => creating'[h] = r
        /\ \A g \in Handlers : creating' = [creating EXCEPT ![h] = creating'[h]] /\ g # h =>
              (Bcasting(g)' <=> Bcasting(g))
    BY DEF TypeInv, Bcasting
  <1>4. ~IOFails
    BY DEF Calm
  <1>L. ASSUME creating' = [creating EXCEPT ![h] = creating'[h]], shared' = shared,
               Bcasting(h)' => Bcasting(h)
        PROVE  LoneInv'
    <2>1. \A g \in Handlers : Bcasting(g)' => Bcasting(g)
      BY <1>3, <1>L
    <2> QED  BY <1>L, <2>1 DEF CalmInv, LoneInv
  <1>5. CASE CreateDir(h)
    <2> DEFINE mine == PartitionsResponsibleFor(b, meta[b][t])
               r == [pc |-> "parts", topic |-> t, mine |-> mine, left |-> mine]
    <2>1. c.pc = "mkdir" /\ dirs[b][t] = Absent
      BY <1>1, <1>2, <1>5 DEF CreateDir, HandlerAt
    <2>2. /\ dirs' = [dirs EXCEPT ![b][t] = {}] /\ creating' = [creating EXCEPT ![h] = r]
          /\ UNCHANGED <<up, topics, meta, closed, inserts, starting, created, requests, shared, crashes>>
      BY <1>2, <1>4, <1>5, <2>1 DEF CreateDir
    <2>3. r.pc = "parts" /\ r.topic = t /\ r.mine = PartitionsResponsibleFor(b, m)
      BY <1>2
    <2> HIDE DEF r, mine, c, b
    <2>4. SameBut(dirs, dirs', b, t)
      BY <1>2, <2>2, EntryOnly DEF TypeInv
    <2>5. creating'[h] = r /\ creating'[h].pc = "parts" /\ creating'[h].mine = PartitionsResponsibleFor(b, m)
      BY <1>3, <2>2, <2>3
    <2>6. \A p \in Brokers \ {m.by} : Fresh(p, t)'
      BY <1>1, <1>2, <2>1, <2>2, <2>4 DEF HandlerAt, Fresh, SameBut, c
    <2>7. HandlerAt(h, t, m)'
      BY <1>2, <2>2, <2>5, <2>6 DEF HandlerAt, b
    <2>8. FirstOf(h)' /\ ~Bcasting(h) /\ ~Bcasting(h)'
      BY <2>1, <2>5 DEF FirstOf, Bcasting, c
    <2>9. LoneInv' /\ \A i \in inserts : i.topic # t
      BY <1>1, <1>L, <2>2, <2>5, <2>8
    <2> QED  BY <1>1, <2>2, <2>3, <2>4, <2>7, <2>8, <2>9, HandlerStage DEF b
  <1>6. CASE CreatePartition(h)
    <2> DEFINE r == [c EXCEPT !.left = @ \ {Min(c.left)}]
    <2>1. c.pc = "parts" /\ c \in AtParts
      BY <1>6, CreatingShape DEF CreatePartition
    <2>2. /\ dirs' = [dirs EXCEPT ![b][t] = dirs[b][t] \cup {Min(c.left)}]
          /\ creating' = [creating EXCEPT ![h] = r]
          /\ UNCHANGED <<up, topics, meta, closed, inserts, starting, created, requests, shared, crashes>>
      BY <1>2, <1>4, <1>6 DEF CreatePartition
    <2>3. r.pc = "parts" /\ r.topic = t /\ r.mine = c.mine
      BY <1>2, <2>1 DEF AtParts
    <2> HIDE DEF r, c, b
    <2>4. SameBut(dirs, dirs', b, t)
      <3>1. dirs \in [Brokers -> [Topics -> Served]]
        BY DEF TypeInv
      <3> QED  BY <1>2, <2>2, <3>1 DEF SameBut
    <2>5. creating'[h] = r /\ creating'[h].pc = "parts" /\ creating'[h].mine = PartitionsResponsibleFor(b, m)
      BY <1>1, <1>2, <1>3, <2>1, <2>2, <2>3 DEF HandlerAt, c
    <2>6. \A p \in Brokers \ {m.by} : Fresh(p, t)'
      BY <1>1, <1>2, <2>1, <2>2, <2>4 DEF HandlerAt, Fresh, SameBut, c
    <2>7. HandlerAt(h, t, m)'
      BY <1>2, <2>2, <2>5, <2>6 DEF HandlerAt, b
    <2>8. FirstOf(h)' /\ ~Bcasting(h) /\ ~Bcasting(h)'
      BY <2>1, <2>5 DEF FirstOf, Bcasting, c
    <2>9. LoneInv' /\ \A i \in inserts : i.topic # t
      BY <1>1, <1>L, <2>2, <2>5, <2>8
    <2> QED  BY <1>1, <2>2, <2>3, <2>4, <2>7, <2>8, <2>9, HandlerStage DEF b
  <1>7. CASE BroadcastMetadata(h)
    <2> DEFINE r == [pc |-> "bcast", topic |-> t, mine |-> c.mine, meta |-> m, peers |-> Brokers \ {b}]
    <2>1. c.pc = "parts" /\ creating' = [creating EXCEPT ![h] = r]
          /\ UNCHANGED <<up, topics, meta, dirs, closed, inserts, starting, created, requests, crashes>>
      BY <1>2, <1>7 DEF BroadcastMetadata
    <2>2. /\ r.pc = "bcast" /\ r.topic = t /\ r.mine = c.mine /\ r.meta = m
          /\ r.peers = Brokers \ {b}
      OBVIOUS
    <2> HIDE DEF r, c, b
    <2>3. /\ creating'[h] = r /\ creating'[h].pc = "bcast" /\ creating'[h].meta = m
          /\ creating'[h].peers = Brokers \ {m.by}
          /\ creating'[h].mine = PartitionsResponsibleFor(m.by, m)
      BY <1>1, <1>2, <1>3, <2>1, <2>2 DEF HandlerAt, c
    <2>4. \A p \in Brokers \ {m.by} : Fresh(p, t)'
      BY <1>1, <2>1 DEF HandlerAt, Fresh, c
    <2>5. HandlerAt(h, t, m)'
      BY <1>2, <2>1, <2>3, <2>4 DEF HandlerAt, b
    <2>6. ~Bcasting(h) /\ SameBut(dirs, dirs', b, t)
      BY <2>1 DEF Bcasting, SameBut, c
    <2>7. /\ shared \subseteq shared'
          /\ \A g \in Handlers : g # h /\ On(g) = b /\ Bcasting(g) => g \in shared' /\ h \in shared'
      BY <1>7 DEF BroadcastMetadata, Broadcasting, Bcasting, b
    <2>8. LoneInv'
      <3>1. \A g \in Handlers : g # h => (Bcasting(g)' <=> Bcasting(g))
        BY <1>3, <2>1, <2>3
      <3> QED  BY <2>7, <3>1 DEF CalmInv, LoneInv, b
    <2>9. FirstOf(h)'
      <3> SUFFICES ASSUME h \notin shared' PROVE FirstOf(h)'
        BY DEF FirstOf
      <3>1. \A g \in Handlers : On(g) = b => ~Bcasting(g)
        BY <2>6, <2>7
      <3>2. Returned(b) \/ closed[b] = {}
        BY <1>2, <3>1 DEF CalmInv, ClosedOf
      <3>3. closed' = closed /\ (Returned(b)' <=> Returned(b))
        BY <2>1 DEF Returned
      <3> QED  BY <1>2, <2>3, <3>2, <3>3 DEF FirstOf, b
    <2>10. \A i \in inserts : i.topic # t
      BY <1>1, <2>6
    <2> QED  BY <1>1, <2>1, <2>2, <2>5, <2>6, <2>7, <2>8, <2>9, <2>10, HandlerStage DEF b
  <1>8. ASSUME NEW p \in Brokers, BroadcastFails(h, p) PROVE CalmInv'
    <2> DEFINE r == [c EXCEPT !.peers = @ \ {p}]
    <2>1. /\ c.pc = "bcast" /\ p \in c.peers /\ (p \in closed[b] \/ h \in shared)
          /\ creating' = [creating EXCEPT ![h] = r]
          /\ UNCHANGED <<up, topics, meta, dirs, closed, inserts, starting, created, requests, shared, crashes>>
      BY <1>4, <1>8 DEF BroadcastFails, CalmInv, Quiet
    <2>2. c \in AtBcast
      BY <2>1, CreatingShape
    <2>3. /\ r.pc = "bcast" /\ r.topic = t /\ r.mine = c.mine /\ r.meta = c.meta
          /\ r.peers = c.peers \ {p}
      BY <1>2, <2>1, <2>2 DEF AtBcast
    <2> HIDE DEF r, c, b
    <2>4. /\ creating'[h] = r /\ creating'[h].pc = "bcast" /\ creating'[h].meta = m
          /\ creating'[h].peers = c.peers \ {p}
          /\ creating'[h].mine = PartitionsResponsibleFor(m.by, m)
      BY <1>1, <1>2, <1>3, <2>1, <2>3 DEF HandlerAt, c
    <2>5. HandlerAt(h, t, m)'
      BY <1>1, <1>2, <2>1, <2>4 DEF HandlerAt, Fresh, b, c
    <2>6. Bcasting(h) /\ Bcasting(h)' /\ SameBut(dirs, dirs', b, t)
      BY <2>1, <2>4 DEF Bcasting, SameBut, c
    <2>7. FirstOf(h)'
      <3>1. Returned(b) \/ h \in shared
        BY <2>1, <2>6 DEF CalmInv, FirstOf, b, c
      <3> QED  BY <2>1, <3>1 DEF FirstOf, Returned, b
    <2>8. LoneInv'
      BY <1>L, <2>1, <2>4, <2>6
    <2>9. \A i \in inserts : i.topic = t => i.to \notin r.peers /\ i.from # h
      BY <1>1, <2>1, <2>3 DEF c
    <2> QED  BY <1>1, <2>1, <2>3, <2>5, <2>6, <2>7, <2>8, <2>9, HandlerStage DEF b
  <1>9. CASE BroadcastReturns(h)
    <2> DEFINE r == [c EXCEPT !.pc = "bcast"]
    <2>1. /\ c.pc = "await" /\ creating' = [creating EXCEPT ![h] = r]
          /\ \A i \in inserts : i.from # h
          /\ UNCHANGED <<up, topics, meta, dirs, closed, inserts, starting, created, requests, shared, crashes>>
      BY <1>9 DEF BroadcastReturns
    <2>2. c \in AtBcast
      BY <2>1, CreatingShape
    <2>3. /\ r.pc = "bcast" /\ r.topic = t /\ r.mine = c.mine /\ r.meta = c.meta
          /\ r.peers = c.peers
      BY <1>2, <2>2 DEF AtBcast
    <2> HIDE DEF r, c, b
    <2>4. /\ creating'[h] = r /\ creating'[h].pc = "bcast" /\ creating'[h].meta = m
          /\ creating'[h].peers = c.peers /\ creating'[h].topic = t
          /\ creating'[h].mine = PartitionsResponsibleFor(m.by, m) /\ c.meta = m
      BY <1>1, <1>2, <1>3, <2>1, <2>3 DEF HandlerAt, c
    <2>5. HandlerAt(h, t, m)'
      BY <1>1, <1>2, <2>1, <2>4 DEF HandlerAt, Fresh, b, c
    <2>6. Bcasting(h) /\ Bcasting(h)' /\ SameBut(dirs, dirs', b, t)
      BY <2>1, <2>4 DEF Bcasting, SameBut, c
    <2>7. FirstOf(h)'
      <3>1. FirstOf(h)
        BY DEF CalmInv
      <3>2. \A p \in Brokers : Serves(p, t, m)' <=> Serves(p, t, m)
        BY <2>1 DEF Serves
      <3>3. (Returned(On(h))' <=> Returned(On(h))) /\ inserts' = inserts /\ closed' = closed /\ shared' = shared
        BY <2>1 DEF Returned
      <3> QED  BY <1>2, <2>4, <2>6, <3>1, <3>2, <3>3 DEF FirstOf, c
    <2>8. LoneInv'
      BY <1>L, <2>1, <2>4, <2>6
    <2>9. \A i \in inserts : i.topic = t => i.to \notin r.peers /\ i.from # h
      BY <1>1, <2>1, <2>3 DEF c
    <2> QED  BY <1>1, <2>1, <2>3, <2>5, <2>6, <2>7, <2>8, <2>9, HandlerStage DEF b
  <1> QED  BY <1>5, <1>6, <1>7, <1>8, <1>9

\* A shared broadcast is cut off from the call it waits for; a call that was not
\* handled yet may be lost, and leaves its broker as it was.
LEMMA CalmCut ==
  ASSUME Calm, TypeInv, CalmInv, NEW h \in Handlers, BroadcastCut(h)
  PROVE  CalmInv'
  <1> DEFINE c == creating[h]
             b == On(h)
             r == [c EXCEPT !.pc = "bcast"]
  <1>0. c.pc = "await" /\ c.pc \notin {"idle", "init"} /\ c \in AtBcast /\ h \in shared
    BY CreatingShape DEF BroadcastCut
  <1>1. PICK t \in Topics, m \in Metadata :
            /\ Working(h, t) /\ CreatedAs(t, m) /\ HandlerAt(h, t, m)
            /\ \A i \in inserts : i.from = h => i.topic = t
            /\ \A d \in created : d.topic # t
    BY <1>0, HandlerWorks
  <1>2. b \in Brokers /\ b = m.by /\ c.topic = t /\ c.meta = m
    BY <1>0, <1>1, CreatingShape DEF HandlerAt, Working
  <1>3. PICK lost :
            /\ lost \in SUBSET {i \in inserts : i.from = h /\ i.pc = "update"}
            /\ inserts' = {IF i.from = h THEN [i EXCEPT !.from = Gone] ELSE i : i \in inserts \ lost}
    BY DEF BroadcastCut
  <1>4. /\ creating' = [creating EXCEPT ![h] = r]
        /\ UNCHANGED <<up, topics, meta, dirs, closed, starting, created, requests, shared, crashes>>
    BY DEF BroadcastCut
  <1>5. /\ r.pc = "bcast" /\ r.topic = t /\ r.mine = c.mine /\ r.meta = c.meta
        /\ r.peers = c.peers
    BY <1>0, <1>2 DEF AtBcast
  <1> HIDE DEF r, c, b
  <1>6. /\ creating'[h] = r
        /\ \A g \in Handlers : g # h => creating'[g] = creating[g]
    BY <1>4 DEF TypeInv
  <1>7. /\ creating'[h].pc = "bcast" /\ creating'[h].topic = t /\ creating'[h].meta = m
        /\ creating'[h].peers = c.peers
        /\ creating'[h].mine = PartitionsResponsibleFor(m.by, m)
    BY <1>0, <1>1, <1>2, <1>5, <1>6 DEF HandlerAt, c
  <1>8. HandlerAt(h, t, m)'
    BY <1>0, <1>1, <1>2, <1>4, <1>7 DEF HandlerAt, Fresh, b, c
  <1>9. Bcasting(h) /\ Bcasting(h)' /\ SameBut(dirs, dirs', b, t)
    BY <1>0, <1>4, <1>7 DEF Bcasting, SameBut, c
  <1>10. FirstOf(h)'
    BY <1>0, <1>4 DEF FirstOf
  <1>11. LoneInv'
    <2>1. \A g \in Handlers : Bcasting(g)' <=> Bcasting(g)
      BY <1>6, <1>9 DEF Bcasting
    <2> QED  BY <1>4, <2>1 DEF CalmInv, LoneInv
  <1>12. \A i \in inserts : LET j == [i EXCEPT !.from = Gone]
                            IN  /\ j.from = Gone /\ j.to = i.to /\ j.topic = i.topic /\ j.meta = i.meta
                                /\ j.pc = i.pc /\ j.isNew = i.isNew /\ j.mine = i.mine
    <2> TAKE i \in inserts
    <2>1. i \in InsertCall
      BY DEF TypeInv
    <2> QED  BY <2>1 DEF InsertCall
  <1>13. \A j \in inserts' : \E i \in inserts :
            /\ j = (IF i.from = h THEN [i EXCEPT !.from = Gone] ELSE i) /\ i \notin lost
    BY <1>3
  <1>14. \A i \in inserts \ lost : (IF i.from = h THEN [i EXCEPT !.from = Gone] ELSE i) \in inserts'
    BY <1>3
  <1>15. \A i : i.topic # t => (i \in inserts' <=> i \in inserts)
    <2>1. ASSUME NEW i, i.topic # t, i \in inserts PROVE i \in inserts'
      <3>1. i.from # h /\ i \notin lost
        BY <1>1, <1>3, <2>1
      <3> QED  BY <1>14, <2>1, <3>1
    <2>2. ASSUME NEW i, i.topic # t, i \in inserts' PROVE i \in inserts
      <3>1. PICK k \in inserts : i = (IF k.from = h THEN [k EXCEPT !.from = Gone] ELSE k)
        BY <1>13, <2>2
      <3>2. i.topic = k.topic
        BY <1>12, <3>1
      <3>3. k.from # h
        BY <1>1, <2>2, <3>2
      <3> QED  BY <3>1, <3>3
    <2> QED  BY <2>1, <2>2
  <1>16. ASSUME NEW j \in inserts', j.topic = t PROVE InsertAt(j, t, m)'
    <2>1. PICK i \in inserts : j = (IF i.from = h THEN [i EXCEPT !.from = Gone] ELSE i)
      BY <1>13
    <2>2. /\ j.to = i.to /\ j.topic = i.topic /\ j.meta = i.meta /\ j.pc = i.pc
          /\ j.isNew = i.isNew /\ j.mine = i.mine
      BY <1>12, <2>1
    <2>3. j.from \in Handlers => j.from = i.from /\ i.from # h
      BY <1>12, <2>1, GoneIsNone
    <2>4. InsertAt(i, t, m) /\ i.topic = t
      BY <1>1, <1>16, <2>2 DEF CreatedAs
    <2>5. \A g \in Handlers : Working(g, t)' <=> g = h
      BY <1>0, <1>1, <1>2, <1>6, <1>7 DEF Working, CreatedAs, c
    <2>6. \A g \in Handlers : Working(g, t)' => Bcasting(g)' /\ j.to \notin creating'[g].peers
      BY <1>1, <1>7, <1>9, <2>2, <2>4, <2>5 DEF InsertAt, c
    <2>7. j.from \notin Handlers
      <3> SUFFICES ASSUME j.from \in Handlers PROVE FALSE
        OBVIOUS
      <3>1. Working(i.from, t) /\ i.from # h /\ i.from \in Handlers
        BY <2>3, <2>4 DEF InsertAt
      <3> QED  BY <1>1, <3>1 DEF CreatedAs
    <2> QED  BY <1>4, <2>2, <2>4, <2>6, <2>7 DEF InsertAt
  <1>17. ASSUME NEW i \in inserts', NEW j \in inserts', i.topic = t, j.topic = t, i.to = j.to
         PROVE  i = j
    <2>1. PICK k \in inserts : i = (IF k.from = h THEN [k EXCEPT !.from = Gone] ELSE k)
      BY <1>13
    <2>2. PICK l \in inserts : j = (IF l.from = h THEN [l EXCEPT !.from = Gone] ELSE l)
      BY <1>13
    <2>3. k.topic = t /\ l.topic = t /\ k.to = l.to
      BY <1>12, <1>17, <2>1, <2>2
    <2>4. k = l
      BY <1>1, <2>3 DEF CreatedAs
    <2> QED  BY <2>1, <2>2, <2>4
  <1>18. ASSUME NEW i \in inserts, i.topic = t
         PROVE  (\E j \in inserts' : j.topic = t /\ j.to = i.to) \/ Fresh(i.to, t)
    <2>1. CASE i \in lost
      <3>1. i.pc = "update" /\ InsertAt(i, t, m)
        BY <1>1, <1>3, <1>18, <2>1 DEF CreatedAs
      <3> QED  BY <3>1 DEF InsertAt, Fresh
    <2>2. CASE i \notin lost
      BY <1>12, <1>14, <1>18, <2>2
    <2> QED  BY <2>1, <2>2
  <1>19. /\ r.pc # "idle" /\ r.topic = t /\ shared \subseteq shared' /\ SameBut(dirs, dirs', On(h), t)
         /\ \A q \in Brokers : closed'[q] = closed[q] \/ (q = On(h) /\ Bcasting(h)')
         /\ UNCHANGED <<up, topics, meta, starting, created, requests, crashes>>
    BY <1>4, <1>5, <1>9 DEF b
  <1>20. /\ \A i \in inserts' : i.topic = t => InsertAt(i, t, m)'
         /\ \A i, j \in inserts' : i.topic = t /\ j.topic = t /\ i.to = j.to => i = j
         /\ \A i \in inserts : i.topic = t =>
               (\E j \in inserts' : j.topic = t /\ j.to = i.to) \/ Fresh(i.to, t)
    BY <1>16, <1>17, <1>18
  <1>21. CreatedAs(t, m) /\ Working(h, t) /\ creating' = [creating EXCEPT ![h] = r]
    BY <1>1, <1>4
  <1> QED  BY <1>8, <1>9, <1>10, <1>11, <1>15, <1>19, <1>20, <1>21, HandlerGoesOn

\* The handler sends the metadata to a fresh peer.
LEMMA CalmBroadcast ==
  ASSUME Calm, TypeInv, CalmInv, NEW h \in Handlers, NEW p \in Brokers, Broadcast(h, p)
  PROVE  CalmInv'
  <1> DEFINE c == creating[h]
             b == On(h)
             r == [c EXCEPT !.pc = "await", !.peers = @ \ {p}]
             i == [from |-> h, to |-> p, topic |-> c.topic, meta |-> c.meta,
                   pc |-> "update", isNew |-> FALSE, mine |-> {}, left |-> {}]
  <1>0. c.pc = "bcast" /\ c.pc \notin {"idle", "init"} /\ c \in AtBcast /\ p \in c.peers
    BY CreatingShape DEF Broadcast
  <1>1. PICK t \in Topics, m \in Metadata :
            /\ Working(h, t) /\ CreatedAs(t, m) /\ HandlerAt(h, t, m)
            /\ \A j \in inserts : j.topic = t => j.to \notin creating[h].peers
            /\ \A j \in inserts : j.from # h
            /\ \A d \in created : d.topic # t
    BY <1>0, HandlerWorks
  <1>2. b \in Brokers /\ b = m.by /\ c.topic = t /\ meta[b][t] = m /\ topics[b][t] = Absent /\ c.meta = m
    BY <1>0, <1>1, CreatingShape DEF HandlerAt, Working, CreatedAs
  <1>3. /\ creating' = [creating EXCEPT ![h] = r] /\ inserts' = inserts \cup {i}
        /\ closed' = [closed EXCEPT ![b] = @ \cup {p}] \/ (closed' = closed /\ h \in shared)
        /\ UNCHANGED <<up, topics, meta, dirs, starting, created, requests, shared, crashes>>
    BY DEF Broadcast, TypeInv
  <1>4. /\ r.pc = "await" /\ r.topic = t /\ r.mine = c.mine /\ r.meta = c.meta
        /\ r.peers = c.peers \ {p}
    BY <1>0, <1>2 DEF AtBcast
  <1>5. /\ i.from = h /\ i.to = p /\ i.topic = t /\ i.meta = m /\ i.pc = "update"
    BY <1>2
  <1> HIDE DEF r, c, b
  <1>6. PICK j : j = i
    OBVIOUS
  <1>7. /\ j.from = h /\ j.to = p /\ j.topic = t /\ j.meta = m /\ j.pc = "update"
        /\ inserts' = inserts \cup {j}
    BY <1>3, <1>5, <1>6
  <1> HIDE DEF i
  <1>8. /\ creating'[h] = r
        /\ \A g \in Handlers : g # h => creating'[g] = creating[g]
    BY <1>3 DEF TypeInv
  <1>9. /\ creating'[h].pc = "await" /\ creating'[h].topic = t /\ creating'[h].meta = m
        /\ creating'[h].peers = c.peers \ {p}
        /\ creating'[h].mine = PartitionsResponsibleFor(m.by, m)
    BY <1>0, <1>1, <1>2, <1>4, <1>8 DEF HandlerAt, c
  <1>11. /\ \A g \in Handlers : Working(g, t)' <=> g = h
         /\ \A g \in Handlers : Bcasting(g)' <=> Bcasting(g)
         /\ Bcasting(h)
    BY <1>0, <1>1, <1>8, <1>9 DEF Working, CreatedAs, Bcasting, c
  <1>12. \A q \in Brokers : (Fresh(q, t)' <=> Fresh(q, t)) /\ (Serves(q, t, m)' <=> Serves(q, t, m))
    BY <1>3 DEF Fresh, Serves
  <1>13. c.peers \subseteq Brokers /\ m.by \notin c.peers /\ \A q \in c.peers : Fresh(q, t)
    BY <1>0, <1>1 DEF HandlerAt, AtBcast, c
  <1>14. HandlerAt(h, t, m)'
    BY <1>2, <1>3, <1>9, <1>12, <1>13 DEF HandlerAt, b
  <1>15. InsertAt(j, t, m)'
    <2>1. p # m.by /\ Fresh(p, t)' /\ p \notin creating'[h].peers
      BY <1>0, <1>9, <1>12, <1>13
    <2> QED  BY <1>7, <1>9, <1>11, <2>1 DEF InsertAt, Fresh
  <1>16. ASSUME NEW k \in inserts, k.topic = t PROVE InsertAt(k, t, m)'
    <2>1. InsertAt(k, t, m) /\ k.to \notin c.peers /\ k.from # h
      BY <1>1, <1>16 DEF CreatedAs, c
    <2>2. k.from \notin Handlers
      BY <1>1, <2>1 DEF InsertAt, CreatedAs
    <2>3. \A g \in Handlers : Working(g, t)' => Bcasting(g)' /\ k.to \notin creating'[g].peers
      BY <1>9, <1>11, <2>1
    <2> QED  BY <1>3, <2>1, <2>2, <2>3 DEF InsertAt
  <1>17. \A k, l \in inserts' : k.topic = t /\ l.topic = t /\ k.to = l.to => k = l
    <2>1. \A k \in inserts : k.topic = t => k.to # p
      BY <1>0, <1>1 DEF c
    <2> QED  BY <1>1, <1>7, <2>1 DEF CreatedAs
  <1>18. LoneInv'
    BY <1>3, <1>11 DEF CalmInv, LoneInv
  <1>19. \A q \in Brokers : closed'[q] = closed[q] \/ (q = b /\ Bcasting(h)')
    BY <1>3, <1>11 DEF TypeInv
  <1>22. FirstOf(h)'
    <2> SUFFICES ASSUME ~Returned(b)', h \notin shared
                 PROVE  /\ creating'[h].peers \cap closed'[b] = {}
                        /\ \A q \in Brokers \ {b} :
                              \/ q \in creating'[h].peers
                              \/ \E k \in inserts' : k.topic = t /\ k.to = q /\ k.from = h
                              \/ Serves(q, t, m)'
      BY <1>3, <1>9 DEF FirstOf, b
    <2>1. ~Returned(b) /\ FirstOf(h)
      BY <1>3 DEF Returned, CalmInv
    <2>2. /\ c.peers \cap closed[b] = {}
          /\ \A q \in Brokers \ {b} :
                q \in c.peers \/ (\E k \in inserts : k.topic = t /\ k.to = q /\ k.from = h) \/ Serves(q, t, m)
      BY <1>2, <1>11, <2>1 DEF FirstOf, b, c
    <2>3. closed'[b] = closed[b] \cup {p}
      BY <1>2, <1>3 DEF TypeInv
    <2>4. ASSUME NEW q \in Brokers \ {b}
          PROVE  \/ q \in creating'[h].peers
                 \/ \E k \in inserts' : k.topic = t /\ k.to = q /\ k.from = h
                 \/ Serves(q, t, m)'
      <3>1. CASE q = p
        BY <1>7, <1>9, <3>1
      <3>2. CASE Serves(q, t, m)
        BY <1>12, <3>2
      <3> QED  BY <1>1, <1>9, <2>2, <3>1, <3>2
    <2> QED  BY <1>9, <2>2, <2>3, <2>4
  <1>23. /\ SameBut(dirs, dirs', b, t) /\ shared \subseteq shared' /\ r.pc # "idle" /\ r.topic = t
         /\ \A k : k.topic # t => (k \in inserts' <=> k \in inserts)
         /\ \A k \in inserts : k.topic = t => \E l \in inserts' : l.topic = t /\ l.to = k.to
         /\ \A k \in inserts' : k.topic = t => InsertAt(k, t, m)'
    BY <1>3, <1>4, <1>7, <1>15, <1>16 DEF SameBut
  <1> QED  BY <1>1, <1>3, <1>11, <1>14, <1>17, <1>18, <1>19, <1>22, <1>23, HandlerGoesOn DEF b

\* The handler is done.  If it is the first one of its broker and its broadcast
\* was not shared, everyone is.
LEMMA CalmReturns ==
  ASSUME Calm, TypeInv, CalmInv, NEW h \in Handlers, CreateReturns(h)
  PROVE  CalmInv'
  <1> DEFINE c == creating[h]
             b == On(h)
             mine == {d \in created : d.at = b}
             new == [at |-> b, nth |-> Cardinality(mine) + 1, topic |-> c.topic,
                     meta |-> c.meta, parts |-> c.mine, lone |-> h \notin shared]
  <1>0. c.pc = "bcast" /\ c.pc \notin {"idle", "init"} /\ c.peers = {} /\ c.pc # "await"
    BY DEF CreateReturns
  <1>1. PICK t \in Topics, m \in Metadata :
            /\ Working(h, t) /\ CreatedAs(t, m) /\ HandlerAt(h, t, m)
            /\ \A j \in inserts : j.from # h
            /\ \A d \in created : d.topic # t
    BY <1>0, HandlerWorks
  <1>2. /\ b \in Brokers /\ b = m.by /\ c.topic = t /\ meta[b][t] = m /\ c.meta = m
        /\ c.mine = PartitionsResponsibleFor(b, m)
    BY <1>0, <1>1, CreatingShape DEF HandlerAt, Working, CreatedAs
  <1>3. /\ topics' = [topics EXCEPT ![b][t] = c.mine] /\ created' = created \cup {new}
        /\ creating' = [creating EXCEPT ![h] = Idle] /\ shared' = shared \ {h}
        /\ UNCHANGED <<up, meta, dirs, closed, inserts, starting, requests, crashes>>
    BY <1>2 DEF CreateReturns
  <1>4. /\ new.at = b /\ new.topic = t /\ new.meta = m /\ new.nth = Cardinality(mine) + 1
        /\ new.lone = (h \notin shared)
    BY <1>2
  <1>5. Idle.pc = "idle"
    BY DEF Idle
  <1>6. PICK x : x = new
    OBVIOUS
  <1>7. x.at = b /\ x.topic = t /\ x.meta = m /\ created' = created \cup {x} /\ (x.lone => h \notin shared)
    BY <1>3, <1>4, <1>6
  <1>8. x.nth = 1 => ~Returned(b)
    <2>1. x.nth = Cardinality(mine) + 1
      BY <1>4, <1>6
    <2>2. IsFiniteSet(mine)
      BY FS_Subset DEF CalmInv, Quiet
    <2>3. Cardinality(mine) \in Nat /\ (Cardinality(mine) = 0 <=> mine = {})
      BY <2>2, FS_CardinalityType, FS_EmptySet
    <2>4. mine = {} => ~Returned(b)
      BY DEF Returned
    <2> HIDE DEF mine
    <2> QED  BY <2>1, <2>3, <2>4
  <1> HIDE DEF new, mine, c, b
  <1>9. SameBut(topics, topics', b, t) /\ topics'[b][t] = c.mine
    <2>1. topics \in [Brokers -> [Topics -> Served]]
      BY DEF TypeInv
    <2> QED  BY <1>2, <1>3, <2>1 DEF SameBut
  <1>10. /\ creating'[h].pc = "idle"
         /\ \A g \in Handlers : g # h => creating'[g] = creating[g]
    BY <1>3, <1>5 DEF TypeInv
  <1>11. StepOn(b, t)
    <2>1. About(creating[h], t) /\ About(creating'[h], t)
      BY <1>2, <1>10 DEF About, c
    <2>2. \A d : d.topic # t => (d \in created' <=> d \in created)
      BY <1>7
    <2>3. creating'[h] # creating[h]
      BY <1>0, <1>10 DEF c
    <2>4. \A g \in Handlers : g \in shared /\ creating'[g] = creating[g] => g \in shared'
      BY <1>3, <2>3
    <2> QED  BY <1>3, <1>9, <1>10, <2>1, <2>2, <2>4 DEF StepOn, SameBut
  <1>12. \A g \in Handlers : ~Working(g, t)'
    BY <1>1, <1>10 DEF Working, CreatedAs
  <1>13. \A q \in Brokers \ {b} : (Fresh(q, t)' <=> Fresh(q, t)) /\ (Serves(q, t, m)' <=> Serves(q, t, m))
    BY <1>3, <1>9 DEF Fresh, Serves, SameBut
  <1>14. Serves(b, t, m)'
    BY <1>2, <1>3, <1>9 DEF Serves
  <1>15. CreatedAs(t, m)'
    <2>1. \A q \in Brokers \ {m.by} :
             (\E j \in inserts' : j.topic = t /\ j.to = q) \/ Fresh(q, t)' \/ Serves(q, t, m)'
      BY <1>1, <1>2, <1>3, <1>13 DEF CreatedAs
    <2>2. \A d \in created' : d.topic = t => d = x
      BY <1>1, <1>7
    <2>3. requests'[t] = 1 /\ meta'[m.by][t] = m
      BY <1>1, <1>3 DEF CreatedAs
    <2>4. \A d \in created' : d.topic = t => d.meta = m /\ d.at = m.by
      BY <1>2, <1>7, <2>2
    <2>5. Serves(m.by, t, m)'
      BY <1>2, <1>14
    <2>6. ASSUME NEW j \in inserts, j.topic = t PROVE InsertAt(j, t, m)'
      <3>1. InsertAt(j, t, m) /\ j.to # b /\ j.to \in Brokers
        BY <1>1, <1>2, <2>6 DEF CreatedAs, InsertAt, TypeInv, InsertCall
      <3>2. j.from \notin Handlers
        BY <1>1, <3>1 DEF InsertAt, CreatedAs
      <3>3. topics'[j.to][t] = topics[j.to][t]
        BY <1>9, <3>1 DEF SameBut
      <3> QED  BY <1>3, <1>12, <3>1, <3>2, <3>3 DEF InsertAt
    <2>7. \A k, l \in inserts' : k.topic = t /\ l.topic = t /\ k.to = l.to => k = l
      BY <1>1, <1>3 DEF CreatedAs
    <2>8. \A k \in inserts' : k.topic = t => InsertAt(k, t, m)'
      BY <1>3, <2>6
    <2> QED  BY <1>12, <2>1, <2>3, <2>4, <2>5, <2>7, <2>8 DEF CreatedAs
  <1>16. TopicInv(t)'
    BY <1>15 DEF TopicInv
  <1>17. LoneInv'
    <2>1. \A g \in Handlers : Bcasting(g)' => g # h /\ Bcasting(g)
      BY <1>10 DEF Bcasting
    <2> QED  BY <1>3, <2>1 DEF CalmInv, LoneInv
  <1>18. \A q \in Brokers : ClosedOf(q)'
    <2>1. Returned(b)'
      BY <1>7 DEF Returned
    <2>2. \A q \in Brokers : Returned(q) => Returned(q)'
      BY <1>7 DEF Returned
    <2>3. \A g \in Handlers : On(g) # b /\ Bcasting(g) => Bcasting(g)'
      BY <1>10 DEF Bcasting, b
    <2> QED  BY <1>3, <2>1, <2>2, <2>3 DEF CalmInv, ClosedOf
  <1>19. IsFiniteSet(created')
    BY <1>7, FS_AddElement DEF CalmInv, Quiet
  <1>20. x.nth = 1 /\ x.lone => Everywhere(x)'
    <2> SUFFICES ASSUME x.nth = 1, x.lone PROVE Everywhere(x)'
      OBVIOUS
    <2>1. \A q \in Brokers \ {b} : Serves(q, t, m)
      <3>1. FirstOf(h) /\ Bcasting(h) /\ ~Returned(b) /\ h \notin shared
        BY <1>0, <1>7, <1>8 DEF CalmInv, Bcasting, c
      <3> QED  BY <1>0, <1>1, <1>2, <3>1 DEF FirstOf, b, c
    <2>2. \A q \in Brokers : Serves(q, t, m)'
      BY <1>13, <1>14, <2>1
    <2> QED  BY <1>7, <2>2 DEF Everywhere, Serves
  <1>21. \A d \in created' : d \notin created /\ d.nth = 1 /\ d.lone => Everywhere(d)'
    BY <1>7, <1>20
  <1>22. closed' = closed /\ \A d \in created : d.topic # t
    BY <1>1, <1>3
  <1> QED  BY <1>2, <1>11, <1>12, <1>16, <1>17, <1>18, <1>19, <1>21, <1>22, CalmKept

\* The topic of a call has its metadata.
LEMMA InsertWorks ==
  ASSUME TypeInv, CalmInv, NEW i \in inserts
  PROVE  \E t \in Topics, m \in Metadata :
            /\ i.topic = t /\ CreatedAs(t, m) /\ InsertAt(i, t, m)
            /\ i.to \in Brokers /\ m.by \in Brokers /\ i.to # m.by
            /\ \A c \in created : c.topic = t => ~Everywhere(c)
  <1>1. i \in InsertCall
    BY DEF TypeInv
  <1>2. PICK t \in Topics : i.topic = t
    BY <1>1 DEF InsertCall
  <1>3. ~Untouched(t)
    BY <1>2 DEF Untouched
  <1>4. PICK m \in Metadata : CreatedAs(t, m)
    BY <1>3 DEF CalmInv, TopicInv
  <1>5. InsertAt(i, t, m) /\ i.to \in Brokers /\ m.by \in Brokers /\ i.to # m.by
    BY <1>1, <1>2, <1>4 DEF CreatedAs, InsertCall, InsertAt, Metadata
  <1>6. \A c \in created : c.topic = t => ~Everywhere(c)
    BY <1>5, NotEverywhere
  <1> QED  BY <1>2, <1>4, <1>5, <1>6

\* A stage of InsertMetadata concerns neither the handler nor the calls on other
\* brokers.
LEMMA OthersAtIt ==
  ASSUME TypeInv, NEW i \in inserts, NEW t \in Topics, i.topic = t,
         NEW m \in Metadata, CreatedAs(t, m), InsertAt(i, t, m),
         i.to \in Brokers, m.by \in Brokers, i.to # m.by,
         SameBut(meta, meta', i.to, t), SameBut(dirs, dirs', i.to, t), SameBut(topics, topics', i.to, t),
         UNCHANGED <<up, closed, creating, shared, starting, created, requests, crashes>>
  PROVE  /\ \A g \in Handlers : (Working(g, t)' <=> Working(g, t)) /\ (Bcasting(g)' <=> Bcasting(g))
         /\ \A q \in Brokers : q # i.to =>
               (Fresh(q, t)' <=> Fresh(q, t)) /\ (Serves(q, t, m)' <=> Serves(q, t, m))
         /\ \A h \in Handlers : Working(h, t)' => HandlerAt(h, t, m)'
         /\ \A k \in inserts : k.topic = t /\ k # i => k.to # i.to /\ InsertAt(k, t, m)'
         /\ requests'[t] = 1 /\ meta'[m.by][t] = m
         /\ (\E h \in Handlers : Working(h, t)') \/ Serves(m.by, t, m)'
         /\ \A c \in created' : c.topic = t =>
               c.meta = m /\ c.at = m.by /\ \A h \in Handlers : ~Working(h, t)'
  <1>1. \A g \in Handlers : (Working(g, t)' <=> Working(g, t)) /\ (Bcasting(g)' <=> Bcasting(g))
    BY DEF Working, Bcasting
  <1>2. \A q \in Brokers : q # i.to =>
           (Fresh(q, t)' <=> Fresh(q, t)) /\ (Serves(q, t, m)' <=> Serves(q, t, m))
    BY DEF Fresh, Serves, SameBut
  <1>3. ASSUME NEW h \in Handlers, Working(h, t) PROVE HandlerAt(h, t, m)'
    <2>1. HandlerAt(h, t, m) /\ Bcasting(h) /\ i.to \notin creating[h].peers
      BY <1>3 DEF CreatedAs, InsertAt
    <2>2. creating[h].peers \subseteq Brokers
      BY <2>1, CreatingShape DEF AtBcast, Bcasting
    <2>3. \A p \in creating[h].peers : Fresh(p, t)'
      BY <1>2, <2>1, <2>2 DEF HandlerAt, Bcasting
    <2>4. topics'[m.by][t] = topics[m.by][t]
      BY DEF SameBut
    <2> QED  BY <2>1, <2>3, <2>4 DEF HandlerAt, Bcasting
  <1>4. ASSUME NEW k \in inserts, k.topic = t, k # i PROVE k.to # i.to /\ InsertAt(k, t, m)'
    <2>1. k.to # i.to /\ InsertAt(k, t, m) /\ k.to \in Brokers
      BY <1>4 DEF CreatedAs, TypeInv, InsertCall
    <2>2. /\ topics'[k.to][t] = topics[k.to][t] /\ meta'[k.to][t] = meta[k.to][t]
          /\ dirs'[k.to][t] = dirs[k.to][t]
      BY <2>1 DEF SameBut
    <2> QED  BY <1>1, <2>1, <2>2 DEF InsertAt
  <1>5. requests'[t] = 1 /\ meta'[m.by][t] = m
    BY DEF CreatedAs, SameBut
  <1>6. (\E h \in Handlers : Working(h, t)') \/ Serves(m.by, t, m)'
    BY <1>1, <1>2 DEF CreatedAs
  <1>7. \A c \in created' : c.topic = t =>
           c.meta = m /\ c.at = m.by /\ \A h \in Handlers : ~Working(h, t)'
    BY <1>1 DEF CreatedAs
  <1> QED  BY <1>1, <1>2, <1>3, <1>4, <1>5, <1>6, <1>7

\* The first broadcast has lost nothing if the broker is still at it, or serves.
LEMMA FirstsAtIt ==
  ASSUME TypeInv, CalmInv, NEW i \in inserts, NEW t \in Topics, i.topic = t,
         NEW m \in Metadata, CreatedAs(t, m), i.to \in Brokers,
         \A k \in inserts : k.topic = t /\ k # i => k \in inserts',
         \/ \E j \in inserts' : j.topic = t /\ j.to = i.to /\ j.from = i.from
         \/ Serves(i.to, t, m)',
         \A q \in Brokers : q # i.to => (Serves(q, t, m) => Serves(q, t, m)'),
         \A g \in Handlers : (Working(g, t)' <=> Working(g, t)) /\ (Bcasting(g)' <=> Bcasting(g)),
         ~Serves(i.to, t, m),
         UNCHANGED <<closed, creating, shared, created>>
  PROVE  \A h \in Handlers : Working(h, t)' => FirstOf(h)'
  <1> SUFFICES ASSUME NEW h \in Handlers, Working(h, t), Bcasting(h), h \notin shared, ~Returned(On(h))
               PROVE  /\ creating[h].peers \cap closed[On(h)] = {}
                      /\ \A p \in Brokers \ {On(h)} :
                            \/ p \in creating[h].peers
                            \/ \E k \in inserts' : k.topic = t /\ k.to = p /\ k.from = h
                            \/ Serves(p, t, m)'
    <2>1. \A h \in Handlers : Working(h, t) /\ Bcasting(h) => creating[h].topic = t /\ creating[h].meta = m
      BY DEF Working, Bcasting, CreatedAs, HandlerAt
    <2>2. \A q : Returned(q)' <=> Returned(q)
      BY DEF Returned
    <2> QED  BY <2>1, <2>2 DEF FirstOf
  <1>1. creating[h].topic = t /\ creating[h].meta = m /\ FirstOf(h)
    BY DEF Working, Bcasting, CreatedAs, HandlerAt, CalmInv
  <1>2. ASSUME NEW p \in Brokers \ {On(h)}
        PROVE  \/ p \in creating[h].peers
               \/ \E k \in inserts' : k.topic = t /\ k.to = p /\ k.from = h
               \/ Serves(p, t, m)'
    <2>1. \/ p \in creating[h].peers
          \/ \E k \in inserts : k.topic = t /\ k.to = p /\ k.from = h
          \/ Serves(p, t, m)
      BY <1>1 DEF FirstOf
    <2>2. CASE p \in creating[h].peers
      BY <2>2
    <2>3. CASE \E k \in inserts : k.topic = t /\ k.to = p /\ k.from = h
      <3>1. PICK k \in inserts : k.topic = t /\ k.to = p /\ k.from = h
        BY <2>3
      <3>2. CASE k = i
        BY <3>1, <3>2
      <3>3. CASE k # i
        BY <3>1, <3>3
      <3> QED  BY <3>2, <3>3
    <2>4. CASE Serves(p, t, m)
      BY <2>4
    <2> QED  BY <2>1, <2>2, <2>3, <2>4
  <1> QED  BY <1>1, <1>2 DEF FirstOf

\* A broker at the metadata does not serve the topic.
LEMMA NotServed ==
  ASSUME NEW i, NEW t, NEW m, InsertAt(i, t, m)
  PROVE  ~Serves(i.to, t, m)
  BY ResponsibleType, Distinguished DEF InsertAt, Serves

\* A stage of InsertMetadata before the last one.
LEMMA InsertGoesOn ==
  ASSUME TypeInv, CalmInv, NEW i \in inserts, NEW t \in Topics, i.topic = t,
         NEW m \in Metadata, CreatedAs(t, m), InsertAt(i, t, m),
         i.to \in Brokers, m.by \in Brokers, i.to # m.by,
         \A c \in created : c.topic = t => ~Everywhere(c),
         NEW j, inserts' = (inserts \ {i}) \cup {j}, j.to = i.to, j.topic = t, j.from = i.from,
         SameBut(meta, meta', i.to, t), SameBut(dirs, dirs', i.to, t),
         UNCHANGED <<up, topics, closed, creating, shared, starting, created, requests, crashes>>,
         InsertAt(j, t, m)'
  PROVE  CalmInv'
  <1>0. SameBut(topics, topics', i.to, t)
    BY DEF SameBut
  <1>1. /\ \A g \in Handlers : (Working(g, t)' <=> Working(g, t)) /\ (Bcasting(g)' <=> Bcasting(g))
        /\ \A q \in Brokers : q # i.to =>
               (Fresh(q, t)' <=> Fresh(q, t)) /\ (Serves(q, t, m)' <=> Serves(q, t, m))
        /\ \A h \in Handlers : Working(h, t)' => HandlerAt(h, t, m)'
        /\ \A k \in inserts : k.topic = t /\ k # i => k.to # i.to /\ InsertAt(k, t, m)'
        /\ requests'[t] = 1 /\ meta'[m.by][t] = m
        /\ (\E h \in Handlers : Working(h, t)') \/ Serves(m.by, t, m)'
        /\ \A c \in created' : c.topic = t =>
              c.meta = m /\ c.at = m.by /\ \A h \in Handlers : ~Working(h, t)'
    BY <1>0, OthersAtIt
  <1>2. StepOn(i.to, t)
    <2>1. \A k : k.topic # t => (k \in inserts' <=> k \in inserts)
      OBVIOUS
    <2> QED  BY <1>0, <2>1 DEF StepOn
  <1>3. CreatedAs(t, m)'
    <2>1. \A k \in inserts' : k.topic = t => InsertAt(k, t, m)'
      BY <1>1
    <2>2. \A k, l \in inserts' : k.topic = t /\ l.topic = t /\ k.to = l.to => k = l
      BY <1>1 DEF CreatedAs
    <2>3. \A q \in Brokers \ {m.by} :
             (\E k \in inserts' : k.topic = t /\ k.to = q) \/ Fresh(q, t)' \/ Serves(q, t, m)'
      <3> SUFFICES ASSUME NEW q \in Brokers \ {m.by}, q # i.to
                   PROVE  (\E k \in inserts' : k.topic = t /\ k.to = q) \/ Fresh(q, t)' \/ Serves(q, t, m)'
        OBVIOUS
      <3>1. (\E k \in inserts : k.topic = t /\ k.to = q) \/ Fresh(q, t) \/ Serves(q, t, m)
        BY DEF CreatedAs
      <3> QED  BY <1>1, <3>1
    <2>4. \A g, h \in Handlers : Working(g, t)' /\ Working(h, t)' => g = h
      BY <1>1 DEF CreatedAs
    <2> QED  BY <1>1, <2>1, <2>2, <2>3, <2>4 DEF CreatedAs
  <1>4. TopicInv(t)'
    BY <1>3 DEF TopicInv
  <1>5. LoneInv' /\ (\A q \in Brokers : ClosedOf(q)') /\ IsFiniteSet(created')
    BY <1>1 DEF CalmInv, LoneInv, ClosedOf, Returned, Quiet
  <1>6. \A h \in Handlers : Working(h, t)' => FirstOf(h)'
    <2>1. ~Serves(i.to, t, m)
      BY NotServed
    <2>2. \E k \in inserts' : k.topic = t /\ k.to = i.to /\ k.from = i.from
      OBVIOUS
    <2>3. \A k \in inserts : k.topic = t /\ k # i => k \in inserts'
      OBVIOUS
    <2> QED  BY <1>1, <2>1, <2>2, <2>3, FirstsAtIt
  <1> QED  BY <1>2, <1>4, <1>5, <1>6, CalmKept

\* The stages of InsertMetadata up to the directories: every one of them finds
\* the broker new to the topic.
LEMMA CalmInserts ==
  ASSUME Calm, TypeInv, CalmInv, NEW i \in inserts,
         InsertUpdate(i) \/ InsertPersist(i) \/ InsertDir(i) \/ InsertPartition(i)
  PROVE  CalmInv'
  <1>1. i \in InsertCall
    BY DEF TypeInv
  <1>2. PICK t \in Topics, m \in Metadata :
            /\ i.topic = t /\ CreatedAs(t, m) /\ InsertAt(i, t, m)
            /\ i.to \in Brokers /\ m.by \in Brokers /\ i.to # m.by
            /\ \A c \in created : c.topic = t => ~Everywhere(c)
    BY InsertWorks
  <1>6. ~IOFails
    BY DEF Calm
  <1>7. CASE InsertUpdate(i)
    <2>1. PICK j : j = [i EXCEPT !.pc = "persist", !.isNew = (topics[i.to][i.topic] = Absent)]
      OBVIOUS
    <2>2. /\ i.pc = "update" /\ inserts' = (inserts \ {i}) \cup {j}
          /\ meta' = [meta EXCEPT ![i.to][t] = m]
          /\ UNCHANGED <<up, topics, dirs, closed, creating, shared, starting, created, requests, crashes>>
      BY <1>2, <1>7, <2>1 DEF InsertUpdate, Becomes, InsertAt
    <2>3. topics[i.to][i.topic] = Absent
      BY <1>2 DEF InsertAt
    <2>4. /\ j.pc = "persist" /\ j.isNew /\ j.to = i.to /\ j.from = i.from /\ j.topic = t
          /\ j.meta = i.meta
      BY <1>1, <1>2, <2>1, <2>3 DEF InsertCall
    <2>5. SameBut(meta, meta', i.to, t) /\ meta'[i.to][t] = m
      <3>1. meta \in [Brokers -> [Topics -> Known]]
        BY DEF TypeInv
      <3> QED  BY <1>2, <2>2, <3>1 DEF SameBut
    <2>6. InsertAt(j, t, m)'
      BY <1>2, <2>2, <2>4, <2>5 DEF InsertAt, Working, Bcasting
    <2>7. SameBut(dirs, dirs', i.to, t)
      BY <2>2 DEF SameBut
    <2> QED  BY <1>2, <2>2, <2>4, <2>5, <2>6, <2>7, InsertGoesOn
  <1>8. CASE InsertPersist(i)
    <2>1. PICK j : j = [i EXCEPT !.pc = "mkdir"]
      OBVIOUS
    <2>2. i.pc = "persist" /\ i.isNew
      BY <1>2, <1>8 DEF InsertPersist, InsertAt
    <2>3. /\ inserts' = (inserts \ {i}) \cup {j}
          /\ UNCHANGED <<up, topics, meta, dirs, closed, creating, shared, starting, created, requests, crashes>>
      BY <1>8, <2>1, <2>2 DEF InsertPersist, Becomes
    <2>4. /\ j.pc = "mkdir" /\ j.to = i.to /\ j.from = i.from /\ j.topic = t /\ j.meta = i.meta
      BY <1>1, <1>2, <2>1 DEF InsertCall
    <2>5. InsertAt(j, t, m)'
      BY <1>2, <2>2, <2>3, <2>4 DEF InsertAt, Working, Bcasting
    <2>6. SameBut(dirs, dirs', i.to, t) /\ SameBut(meta, meta', i.to, t)
      BY <2>3 DEF SameBut
    <2> QED  BY <1>2, <2>3, <2>4, <2>5, <2>6, InsertGoesOn
  <1>9. CASE InsertDir(i)
    <2>1. i.pc = "mkdir" /\ dirs[i.to][t] = Absent /\ meta[i.to][t] = m
      BY <1>2, <1>9 DEF InsertDir, InsertAt
    <2>2. PICK mine : mine = PartitionsResponsibleFor(i.to, m)
      OBVIOUS
    <2>3. PICK j : j = [i EXCEPT !.pc = "parts", !.mine = mine, !.left = mine]
      OBVIOUS
    <2>4. /\ inserts' = (inserts \ {i}) \cup {j} /\ dirs' = [dirs EXCEPT ![i.to][t] = {}]
          /\ UNCHANGED <<up, topics, meta, closed, creating, shared, starting, created, requests, crashes>>
      BY <1>2, <1>6, <1>9, <2>1, <2>2, <2>3 DEF InsertDir, Becomes
    <2>5. /\ j.pc = "parts" /\ j.to = i.to /\ j.from = i.from /\ j.topic = t /\ j.meta = i.meta
          /\ j.mine = PartitionsResponsibleFor(i.to, m)
      BY <1>1, <1>2, <2>2, <2>3 DEF InsertCall
    <2>6. SameBut(dirs, dirs', i.to, t) /\ SameBut(meta, meta', i.to, t)
      <3>1. dirs \in [Brokers -> [Topics -> Served]]
        BY DEF TypeInv
      <3> QED  BY <1>2, <2>4, <3>1 DEF SameBut
    <2>7. InsertAt(j, t, m)'
      BY <1>2, <2>1, <2>4, <2>5 DEF InsertAt, Working, Bcasting
    <2> QED  BY <1>2, <2>4, <2>5, <2>6, <2>7, InsertGoesOn
  <1>10. CASE InsertPartition(i)
    <2>1. PICK j : j = [i EXCEPT !.left = @ \ {Min(i.left)}]
      OBVIOUS
    <2>2. /\ inserts' = (inserts \ {i}) \cup {j} /\ i.pc = "parts"
          /\ dirs' = [dirs EXCEPT ![i.to][t] = dirs[i.to][t] \cup {Min(i.left)}]
          /\ UNCHANGED <<up, topics, meta, closed, creating, shared, starting, created, requests, crashes>>
      BY <1>2, <1>6, <1>10, <2>1 DEF InsertPartition, Becomes
    <2>3. /\ j.pc = "parts" /\ j.to = i.to /\ j.from = i.from /\ j.topic = t /\ j.meta = i.meta
          /\ j.mine = i.mine
      BY <1>1, <1>2, <2>1, <2>2 DEF InsertCall
    <2>4. SameBut(dirs, dirs', i.to, t) /\ SameBut(meta, meta', i.to, t)
      <3>1. dirs \in [Brokers -> [Topics -> Served]]
        BY DEF TypeInv
      <3> QED  BY <1>2, <2>2, <3>1 DEF SameBut
    <2>5. InsertAt(j, t, m)'
      BY <1>2, <2>2, <2>3 DEF InsertAt, Working, Bcasting
    <2> QED  BY <1>2, <2>2, <2>3, <2>4, <2>5, InsertGoesOn
  <1> QED  BY <1>7, <1>8, <1>9, <1>10

\* The last stage of InsertMetadata: the broker serves its partitions.
LEMMA CalmRegister ==
  ASSUME Calm, TypeInv, CalmInv, NEW i \in inserts, InsertRegister(i)
  PROVE  CalmInv'
  <1>1. PICK t \in Topics, m \in Metadata :
            /\ i.topic = t /\ CreatedAs(t, m) /\ InsertAt(i, t, m)
            /\ i.to \in Brokers /\ m.by \in Brokers /\ i.to # m.by
            /\ \A c \in created : c.topic = t => ~Everywhere(c)
    BY InsertWorks
  <1>2. /\ topics' = [topics EXCEPT ![i.to][t] = i.mine] /\ inserts' = inserts \ {i}
        /\ i.mine = PartitionsResponsibleFor(i.to, m) /\ meta[i.to][t] = m
        /\ UNCHANGED <<up, meta, dirs, closed, creating, shared, starting, created, requests, crashes>>
    BY <1>1 DEF InsertRegister, Finished, InsertAt
  <1>3. SameBut(topics, topics', i.to, t) /\ topics'[i.to][t] = i.mine
    <2>1. topics \in [Brokers -> [Topics -> Served]]
      BY DEF TypeInv
    <2> QED  BY <1>1, <1>2, <2>1 DEF SameBut
  <1>4. SameBut(meta, meta', i.to, t) /\ SameBut(dirs, dirs', i.to, t)
    BY <1>2 DEF SameBut
  <1>5. StepOn(i.to, t)
    <2>1. \A k : k.topic # t => (k \in inserts' <=> k \in inserts)
      BY <1>1, <1>2
    <2> QED  BY <1>2, <1>3, <1>4, <2>1 DEF StepOn
  <1>6. /\ \A g \in Handlers : (Working(g, t)' <=> Working(g, t)) /\ (Bcasting(g)' <=> Bcasting(g))
        /\ \A q \in Brokers : q # i.to =>
               (Fresh(q, t)' <=> Fresh(q, t)) /\ (Serves(q, t, m)' <=> Serves(q, t, m))
        /\ \A h \in Handlers : Working(h, t)' => HandlerAt(h, t, m)'
        /\ \A k \in inserts : k.topic = t /\ k # i => k.to # i.to /\ InsertAt(k, t, m)'
        /\ requests'[t] = 1 /\ meta'[m.by][t] = m
        /\ (\E h \in Handlers : Working(h, t)') \/ Serves(m.by, t, m)'
        /\ \A c \in created' : c.topic = t =>
              c.meta = m /\ c.at = m.by /\ \A h \in Handlers : ~Working(h, t)'
    <2>1. UNCHANGED <<up, closed, creating, shared, starting, created, requests, crashes>>
      BY <1>2
    <2>2. SameBut(topics, topics', i.to, t)
      BY <1>3
    <2> QED  BY <1>1, <1>4, <2>1, <2>2, OthersAtIt
  <1>7. Serves(i.to, t, m)'
    BY <1>2, <1>3 DEF Serves
  <1>8. CreatedAs(t, m)'
    <2>1. \A k \in inserts' : k.topic = t => InsertAt(k, t, m)'
      BY <1>2, <1>6
    <2>2. \A k, l \in inserts' : k.topic = t /\ l.topic = t /\ k.to = l.to => k = l
      BY <1>1, <1>2 DEF CreatedAs
    <2>3. \A q \in Brokers \ {m.by} :
             (\E k \in inserts' : k.topic = t /\ k.to = q) \/ Fresh(q, t)' \/ Serves(q, t, m)'
      <3> SUFFICES ASSUME NEW q \in Brokers \ {m.by}, q # i.to
                   PROVE  (\E k \in inserts' : k.topic = t /\ k.to = q) \/ Fresh(q, t)' \/ Serves(q, t, m)'
        BY <1>7
      <3>1. (\E k \in inserts : k.topic = t /\ k.to = q) \/ Fresh(q, t) \/ Serves(q, t, m)
        BY <1>1 DEF CreatedAs
      <3> QED  BY <1>2, <1>6, <3>1
    <2>4. \A g, h \in Handlers : Working(g, t)' /\ Working(h, t)' => g = h
      BY <1>1, <1>6 DEF CreatedAs
    <2> QED  BY <1>6, <2>1, <2>2, <2>3, <2>4 DEF CreatedAs
  <1>9. TopicInv(t)'
    BY <1>8 DEF TopicInv
  <1>10. LoneInv' /\ (\A q \in Brokers : ClosedOf(q)') /\ IsFiniteSet(created')
    BY <1>2, <1>6 DEF CalmInv, LoneInv, ClosedOf, Returned, Quiet
  <1>11. \A h \in Handlers : Working(h, t)' => FirstOf(h)'
    <2>1. ~Serves(i.to, t, m)
      BY <1>1, NotServed
    <2>2. \A k \in inserts : k.topic = t /\ k # i => k \in inserts'
      BY <1>2
    <2> QED  BY <1>1, <1>2, <1>6, <1>7, <2>1, <2>2, FirstsAtIt
  <1> QED  BY <1>1, <1>2, <1>5, <1>9, <1>10, <1>11, CalmKept

\* A step that changes nothing the invariant speaks of.
LEMMA CalmStutter ==
  ASSUME CalmInv, UNCHANGED vars
  PROVE  CalmInv'
  <1>1. UNCHANGED <<up, topics, meta, dirs, closed, creating, inserts, starting, created, requests, shared, crashes>>
    BY DEF vars
  <1>2. \A t \in Topics : TopicInv(t)'
    BY <1>1 DEF CalmInv, TopicInv, Untouched, CreatedAs, Working, Bcasting, Fresh, Serves,
                  HandlerAt, InsertAt
  <1>3. Quiet' /\ LoneInv' /\ FirstTopicEverywhere'
    BY <1>1 DEF CalmInv, Quiet, LoneInv, Bcasting, FirstTopicEverywhere, Everywhere
  <1>4. (\A b \in Brokers : ClosedOf(b)') /\ \A h \in Handlers : FirstOf(h)'
    BY <1>1 DEF CalmInv, ClosedOf, FirstOf, Returned, Bcasting, Serves
  <1> QED  BY <1>2, <1>3, <1>4 DEF CalmInv

LEMMA CalmInit ==
  ASSUME Calm, Init
  PROVE  CalmInv
  <1>1. /\ up = [b \in Brokers |-> TRUE] /\ topics = [b \in Brokers |-> [t \in Topics |-> Absent]]
        /\ meta = [b \in Brokers |-> [t \in Topics |-> NoMeta]] /\ dirs = topics
        /\ closed = [b \in Brokers |-> {}] /\ creating = [h \in Handlers |-> Idle]
        /\ inserts = {} /\ starting = {} /\ created = {} /\ requests = [t \in Topics |-> 0] /\ crashes = 0
    BY DEF Init
  <1>2. \A h \in Handlers : creating[h].pc = "idle"
    BY <1>1 DEF Idle
  <1>3. \A t \in Topics : Untouched(t)
    BY <1>1, <1>2 DEF Untouched, Fresh, Working
  <1>4. Quiet
    BY <1>1, FS_EmptySet DEF Quiet
  <1>5. LoneInv /\ FirstTopicEverywhere
    BY <1>1, <1>2 DEF LoneInv, Bcasting, FirstTopicEverywhere
  <1>6. (\A b \in Brokers : ClosedOf(b)) /\ \A h \in Handlers : FirstOf(h)
    BY <1>1, <1>2 DEF ClosedOf, FirstOf, Bcasting
  <1> QED  BY <1>3, <1>4, <1>5, <1>6 DEF CalmInv, TopicInv

LEMMA CalmStep ==
  ASSUME Calm, TypeInv, CalmInv, [Next]_vars
  PROVE  CalmInv'
  <1>1. ASSUME NEW h \in Handlers, CreateStep(h) PROVE CalmInv'
    BY <1>1, CalmInitMetadata, CalmHandler, CalmCut, CalmBroadcast, CalmReturns DEF CreateStep
  <1>2. ASSUME NEW h \in Handlers, NEW t \in Topics, CreateTopic(h, t) PROVE CalmInv'
    BY <1>2, CalmCreate
  <1>3. ASSUME NEW i \in inserts, InsertStep(i) PROVE CalmInv'
    BY <1>3, CalmInserts, CalmRegister DEF InsertStep
  <1>4. ASSUME NEW b \in Brokers,
               CreateRejected(b) \/ Crash(b) \/ LoadBroker(b) \/ StartReplication(b)
        PROVE  CalmInv'
    <2>1. up[b] /\ b \notin starting /\ ~(crashes < MaxCrashes)
      BY DEF CalmInv, Quiet, Calm
    <2>2. CreateRejected(b)
      BY <1>4, <2>1 DEF Crash, LoadBroker, StartReplication
    <2> QED  BY <2>2, CalmStutter DEF CreateRejected
  <1>5. CASE UNCHANGED vars
    BY <1>5, CalmStutter
  <1> QED  BY <1>1, <1>2, <1>3, <1>4, <1>5 DEF Next

LEMMA CalmInvariant == Calm => (Spec => [](TypeInv /\ CalmInv))
  <1> SUFFICES ASSUME Calm PROVE Spec => [](TypeInv /\ CalmInv)
    OBVIOUS
  <1>1. Init => CalmInv
    BY CalmInit
  <1>2. TypeInv /\ CalmInv /\ [Next]_vars => CalmInv'
    BY CalmStep
  <1> QED  BY <1>1, <1>2, ClusterInvariant, PTL DEF Spec

\* In a cluster where every topic is requested once and nothing fails, every
\* broker has the metadata of the first topic that any broker created, and
\* serves its part of it, from the moment the CreateTopic returns, unless
\* another broadcast of that broker ran at the same time: whatever the number
\* of brokers, topics and partitions, the replication factor, the requests
\* handled at a time and the order of their steps.
THEOREM FirstTopicsEverywhere == Calm => (Spec => []FirstTopicEverywhere)
  <1> SUFFICES ASSUME Calm PROVE Spec => []FirstTopicEverywhere
    OBVIOUS
  <1>1. CalmInv => FirstTopicEverywhere
    BY DEF CalmInv
  <1> QED  BY <1>1, CalmInvariant, PTL

\* In such a cluster a broker that is done with a topic serves all the
\* partitions that its metadata gives it, the broker that got the request as
\* those it was broadcast to, and whatever broadcasts at the same time do to
\* each other's requests and answers.
THEOREM MetadataAlwaysServed == Calm => (Spec => []MetadataIsServed)
  <1> SUFFICES ASSUME Calm PROVE Spec => []MetadataIsServed
    OBVIOUS
  <1>1. ASSUME TypeInv, CalmInv PROVE MetadataIsServed
    <2> SUFFICES ASSUME NEW b \in Brokers, NEW t \in Topics, ~Busy(b, t), meta[b][t] # NoMeta
                 PROVE  topics[b][t] = PartitionsResponsibleFor(b, meta[b][t])
      BY DEF MetadataIsServed
    <2>1. TopicInv(t) /\ ~Untouched(t)
      BY <1>1 DEF CalmInv, Untouched, Fresh
    <2>2. PICK m \in Metadata : CreatedAs(t, m)
      BY <2>1 DEF TopicInv
    <2>3. Serves(b, t, m)
      <3>1. CASE b = m.by
        <4>1. \A h \in Handlers : ~Working(h, t)
          BY <2>2, <3>1 DEF CreatedAs, HandlerAt, Busy, Working
        <4> QED  BY <2>2, <3>1, <4>1 DEF CreatedAs
      <3>2. CASE b # m.by
        <4>1. ~Fresh(b, t) /\ ~\E i \in inserts : i.topic = t /\ i.to = b
          BY DEF Fresh, Busy
        <4> QED  BY <2>2, <3>2, <4>1 DEF CreatedAs
      <3> QED  BY <3>1, <3>2
    <2> QED  BY <2>3 DEF Serves
  <1> QED  BY <1>1, CalmInvariant, PTL
==============================================================================
