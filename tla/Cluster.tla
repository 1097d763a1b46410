------------------------------ MODULE Cluster ------------------------------
(***************************************************************************)
(* Topic creation in a cluster of brokers (core/broker.go,                 *)
(* core/metadata_manager.go, core/topic.go, core/broker_client.go).        *)
(*                                                                         *)
(* The broker that gets a CreateTopic request assigns the partitions,      *)
(* persists the metadata, creates its directories, sends the metadata to   *)
(* every other broker in turn and waits for the answer, and only then      *)
(* registers the topic.  A broker that receives the metadata stores it,    *)
(* persists it, creates its own directories and registers the topic.  No   *)
(* lock spans two of these steps, so they interleave freely; a broker may  *)
(* die between any two of them and is started again on what its disk has.  *)
(*                                                                         *)
(* Two broadcasts of one broker use the same clients at the same time, and *)
(* nothing orders what they do to a client's connection and its buffer.    *)
(*                                                                         *)
(* The metadata log of a broker stays below its rollover limit, so that a  *)
(* restart restores the last entry of every topic (OffsetManager has what  *)
(* happens beyond it).                                                     *)
(***************************************************************************)
EXTENDS Assignment, FiniteSetsExt

CONSTANTS
    NumBrokers,        \* len(cfg.Brokers)
    ReplicationFactor, \* cfg.ReplicationFactor
    NumPartitions,     \* numPartitions of every CreateTopic request
    Topics,
    MaxHandlers,       \* bound: CreateTopic requests that a broker handles at a time
    MaxRequests,       \* bound: CreateTopic requests per topic that pass the checks
    MaxCrashes,        \* bound: crashes of brokers
    IOFails            \* TRUE if disk and network operations may return an error

ASSUME ClusterAssumption ==
    /\ NumBrokers \in Nat \ {0}
    /\ ReplicationFactor \in Nat
    /\ NumPartitions \in Nat \ {0}
    /\ MaxHandlers \in Nat \ {0}
    /\ MaxRequests \in Nat
    /\ MaxCrashes \in Nat
    /\ IOFails \in BOOLEAN

Brokers == 0..(NumBrokers - 1)
Partitions == 0..(NumPartitions - 1)
Handlers == Brokers \X (1..MaxHandlers)

VARIABLES
    up,       \* broker -> its process is alive
    topics,   \* broker -> topic -> b.topics: partitions of the topic, or Absent
    meta,     \* broker -> topic -> metadataManager.metadata
    metaLog,  \* broker -> topic -> its last entry in __topic_metadata
    dirs,     \* broker -> topic -> partition directories on disk, or Absent
    closed,   \* broker -> peers whose BrokerClient holds a connection (closed)
    creating, \* handler -> the CreateTopic request it works on
    shared,   \* handlers whose broadcast met another one of their broker
    inserts,  \* InsertMetadata calls in progress
    skipped,  \* broker -> topics that its last start could not load completely
    starting, \* brokers whose StartReplication goroutine has yet to run
    created,  \* CreateTopic requests that returned without an error
    requests, \* topic -> number of CreateTopic requests that passed the checks
    crashes   \* number of crashes so far

vars == <<up, topics, meta, metaLog, dirs, closed, creating, shared, inserts,
          skipped, starting, created, requests, crashes>>

----------------------------------------------------------------------------
Absent == {-1}

\* The metadata of a topic: who made it, at which request for the topic, and
\* the leader of partition 0, which fixes all the others.
NoMeta == [by |-> -1, nth |-> 0, first |-> 0]

Metadata == [by : Brokers, nth : 1..MaxRequests, first : Brokers]

\* metadataManager.PartitionsResponsibleFor.
PartitionsResponsibleFor(b, m) ==
    IF m = NoMeta THEN {}
    ELSE {p \in Partitions :
             ResponsibleFor(b, PartitionMetadata(NumBrokers, ReplicationFactor,
        m.first, p))}

\* The partitions of which the broker is a replica, for StartReplication.
Replicated(b, m) ==
    IF m = NoMeta THEN {}
    ELSE {p \in Partitions :
             LET pm == PartitionMetadata(NumBrokers, ReplicationFactor, m.first, p)
             IN  \E j \in DOMAIN pm.replicas : pm.replicas[j] = b}

Idle == [pc |-> "idle"]

On(h) == h[1]     \* the broker of a handler
Gone == <<-1, 0>>  \* a handler that is no more

Init ==
    /\ up = [b \in Brokers |-> TRUE]
    /\ topics = [b \in Brokers |-> [t \in Topics |-> Absent]]
    /\ meta = [b \in Brokers |-> [t \in Topics |-> NoMeta]]
    /\ metaLog = meta
    /\ dirs = topics
    /\ closed = [b \in Brokers |-> {}]
    /\ creating = [h \in Handlers |-> Idle]
    /\ shared = {}
    /\ inserts = {}
    /\ skipped = [b \in Brokers |-> {}]
    /\ starting = {}
    /\ created = {}
    /\ requests = [t \in Topics |-> 0]
    /\ crashes = 0

\* metadataManager.persistToLog; its callers only log an error.  What the log
\* holds of a topic is what restore would find: after a failed append it is what
\* it was, and an entry behind one that cannot be read is as good as not written.
PersistToLog(b, t, m) ==
    \/ metaLog' = [metaLog EXCEPT ![b][t] = m]
    \/ IOFails /\ UNCHANGED metaLog

----------------------------------------------------------------------------
(* CreateTopic.                                                            *)

\* No partitions, a topic that exists, or more replicas than brokers.
CreateRejected(b) == up[b] /\ UNCHANGED vars

\* The first handler of a broker that is free takes a request.
Takes(h) ==
    /\ creating[h].pc = "idle"
    /\ \A g \in Handlers : On(g) = On(h) /\ creating[g].pc = "idle" => g[2] >= h[2]

\* The checks.  No lock is held from here on: other requests for the topic may
\* pass them as well.
CreateTopic(h, t) ==
    /\ up[On(h)] /\ Takes(h)
    /\ topics[On(h)][t] = Absent
    /\ ReplicationFactor <= NumBrokers - 1
    /\ requests[t] < MaxRequests
    /\ requests' = [requests EXCEPT ![t] = @ + 1]
    /\ creating' = [creating EXCEPT ![h] =
                       [pc |-> "init", topic |-> t, nth |-> requests[t] + 1]]
    /\ UNCHANGED <<up, topics, meta, metaLog, dirs, closed, shared, inserts,
                   skipped, starting, created, crashes>>

\* Mutant of InitMetadata: the random first leader is one of NumBrokers + 1.
InitMetadata_AnyLeader(h) ==
    LET b == On(h)
        t == creating[h].topic
    IN  /\ creating[h].pc = "init"
        /\ \E first \in 0..NumBrokers :
              LET m == [by |-> b, nth |-> creating[h].nth, first |-> first]
              IN  meta' = [meta EXCEPT ![b][t] = m] /\ PersistToLog(b, t, m)
        /\ creating' = [creating EXCEPT ![h] = [pc |-> "mkdir", topic |-> t]]
        /\ UNCHANGED <<up, topics, dirs, closed, shared, inserts, skipped,
                       starting, created, requests, crashes>>

\* metadataManager.Init, which holds the metadata lock.
InitMetadata(h) ==
    LET b == On(h)
        t == creating[h].topic
    IN  /\ creating[h].pc = "init"
        /\ \E first \in Brokers :
              LET m == [by |-> b, nth |-> creating[h].nth, first |-> first]
              IN  meta' = [meta EXCEPT ![b][t] = m] /\ PersistToLog(b, t, m)
        /\ creating' = [creating EXCEPT ![h] = [pc |-> "mkdir", topic |-> t]]
        /\ UNCHANGED <<up, topics, dirs, closed, shared, inserts, skipped,
                       starting, created, requests, crashes>>

\* NewTopic: the topic directory, which must not exist.
CreateDir(h) ==
    LET t == creating[h].topic
        mine == PartitionsResponsibleFor(On(h), meta[On(h)][t])
    IN  /\ creating[h].pc = "mkdir"
        /\ \/ /\ dirs[On(h)][t] = Absent
              /\ dirs' = [dirs EXCEPT ![On(h)][t] = {}]
              /\ creating' = [creating EXCEPT ![h] =
                                 [pc |-> "parts", topic |-> t, mine |-> mine,
                                  left |-> mine]]
           \/ /\ dirs[On(h)][t] # Absent \/ IOFails
              /\ creating' = [creating EXCEPT ![h] = Idle]
              /\ UNCHANGED dirs
        /\ UNCHANGED <<up, topics, meta, metaLog, closed, shared, inserts,
                       skipped, starting, created, requests, crashes>>

\* The directories after NewPartition failed, before or after it made its own.
PartitionFails(b, t, p) == dirs' \in {dirs, [dirs EXCEPT ![b][t] = @ \cup {p}]}

\* NewTopic: the partitions, in the order of their indices.
CreatePartition(h) ==
    LET c == creating[h]
        p == Min(c.left)
    IN  /\ c.pc = "parts" /\ c.left # {}
        /\ \/ /\ dirs' = [dirs EXCEPT ![On(h)][c.topic] = @ \cup {p}]
              /\ creating' = [creating EXCEPT ![h].left = @ \ {p}]
           \/ /\ IOFails
              /\ creating' = [creating EXCEPT ![h] = Idle]
              /\ PartitionFails(On(h), c.topic, p)
        /\ UNCHANGED <<up, topics, meta, metaLog, closed, shared, inserts,
                       skipped, starting, created, requests, crashes>>

\* The other handlers of the broker that are broadcasting.
Broadcasting(h) ==
    {g \in Handlers \ {h} : On(g) = On(h) /\ creating[g].pc \in {"bcast", "await"}}

\* BroadcastMetadata reads the metadata once and visits the clients in the
\* order of a map, that is any order.  Other broadcasts of the broker that have
\* not returned use the same clients.
BroadcastMetadata(h) ==
    LET c == creating[h]
        others == Broadcasting(h)
    IN  /\ c.pc = "parts" /\ c.left = {}
        /\ creating' = [creating EXCEPT ![h] =
                           [pc |-> "bcast", topic |-> c.topic, mine |-> c.mine,
                            meta |-> meta[On(h)][c.topic], peers |-> Brokers \ {On(h)}]]
        /\ shared' = IF others = {} THEN shared ELSE shared \cup others \cup {h}
        /\ UNCHANGED <<up, topics, meta, metaLog, dirs, closed, inserts, skipped,
                       starting, created, requests, crashes>>

\* brokerClient.Broadcast.  A client dials once and keeps the connection, which
\* Broadcast closes when it returns.  A shared broadcast may have made the
\* clients itself, and may see them replaced: the map of clients is filled
\* without a lock.
Broadcast(h, p) ==
    /\ creating[h].pc = "bcast" /\ p \in creating[h].peers
    /\ up[p] /\ (p \notin closed[On(h)] \/ h \in shared)
    /\ \/ closed' = [closed EXCEPT ![On(h)] = @ \cup {p}]
       \/ h \in shared /\ UNCHANGED closed
    /\ inserts' = inserts \cup
          {[from |-> h, to |-> p, topic |-> creating[h].topic, meta |-> creating[h].meta,
            pc |-> "update", isNew |-> FALSE, mine |-> {}, left |-> {}]}
    /\ creating' = [creating EXCEPT ![h].pc = "await", ![h].peers = @ \ {p}]
    /\ UNCHANGED <<up, topics, meta, metaLog, dirs, shared, skipped, starting,
                   created, requests, crashes>>

\* The peer is down, the connection is the closed one of an earlier broadcast,
\* or another one closes it or garbles the request: a warning, and the next
\* client.
BroadcastFails(h, p) ==
    /\ creating[h].pc = "bcast" /\ p \in creating[h].peers
    /\ ~up[p] \/ p \in closed[On(h)] \/ h \in shared \/ IOFails
    /\ creating' = [creating EXCEPT ![h].peers = @ \ {p}]
    /\ UNCHANGED <<up, topics, meta, metaLog, dirs, closed, shared, inserts,
                   skipped, starting, created, requests, crashes>>

\* The wait for the answer ends without it: another broadcast took the answer
\* or closed the connection.  A request that was not handled yet may be lost
\* with it, and what is in progress on the receiver goes on.
BroadcastCut(h) ==
    /\ creating[h].pc = "await" /\ h \in shared
    /\ \E lost \in SUBSET {i \in inserts : i.from = h /\ i.pc = "update"} :
          inserts' = {IF i.from = h THEN [i EXCEPT !.from = Gone] ELSE i : i \in inserts \ lost}
    /\ creating' = [creating EXCEPT ![h].pc = "bcast"]
    /\ UNCHANGED <<up, topics, meta, metaLog, dirs, closed, shared, skipped,
                   starting, created, requests, crashes>>

\* Mutant of BroadcastReturns: the answer is not waited for.
BroadcastReturns_NoWait(h) ==
    /\ creating[h].pc = "await"
    /\ creating' = [creating EXCEPT ![h].pc = "bcast"]
    /\ UNCHANGED <<up, topics, meta, metaLog, dirs, closed, shared, inserts,
                   skipped, starting, created, requests, crashes>>

\* The peer answered, with whatever status, or died.
BroadcastReturns(h) ==
    /\ creating[h].pc = "await"
    /\ \A i \in inserts : i.from # h
    /\ creating' = [creating EXCEPT ![h].pc = "bcast"]
    /\ UNCHANGED <<up, topics, meta, metaLog, dirs, closed, shared, inserts,
                   skipped, starting, created, requests, crashes>>

\* The topic is registered, and the client gets its answer.
CreateReturns(h) ==
    LET c == creating[h]
    IN  /\ c.pc = "bcast" /\ c.peers = {}
        /\ topics' = [topics EXCEPT ![On(h)][c.topic] = c.mine]
        /\ created' = created \cup
              {[at |-> On(h), nth |-> Cardinality({d \in created : d.at = On(h)}) + 1,
                topic |-> c.topic, meta |-> c.meta, parts |-> c.mine,
                lone |-> h \notin shared]}
        /\ creating' = [creating EXCEPT ![h] = Idle]
        /\ shared' = shared \ {h}
        /\ UNCHANGED <<up, meta, metaLog, dirs, closed, inserts, skipped,
                       starting, requests, crashes>>

----------------------------------------------------------------------------
(* InsertMetadata, on the broker that received a broadcast.                *)

Becomes(i, j) == inserts' = (inserts \ {i}) \cup {j}

Finished(i) == inserts' = inserts \ {i}

\* Mutant of InsertUpdate: looks for new topics after the metadata is stored.
InsertUpdate_LooksLate(i) ==
    /\ i.pc = "update"
    /\ meta' = [meta EXCEPT ![i.to][i.topic] = i.meta]
    /\ Becomes(i, [i EXCEPT !.pc = "persist", !.isNew = FALSE])
    /\ UNCHANGED <<up, topics, metaLog, dirs, closed, creating, shared, skipped,
                   starting, created, requests, crashes>>

\* Mutant of InsertUpdate: waits for the receiver's own CreateTopic.
InsertUpdate_Locked(i) ==
    /\ i.pc = "update"
    /\ \A h \in Handlers : On(h) = i.to => creating[h].pc = "idle"
    /\ meta' = [meta EXCEPT ![i.to][i.topic] = i.meta]
    /\ Becomes(i, [i EXCEPT !.pc = "persist",
        !.isNew = (topics[i.to][i.topic] = Absent)])
    /\ UNCHANGED <<up, topics, metaLog, dirs, closed, creating, shared, skipped,
                   starting, created, requests, crashes>>

\* Is the topic new here?  Then metadataManager.update, under its lock.
InsertUpdate(i) ==
    /\ i.pc = "update"
    /\ meta' = [meta EXCEPT ![i.to][i.topic] = i.meta]
    /\ Becomes(i, [i EXCEPT !.pc = "persist",
        !.isNew = (topics[i.to][i.topic] = Absent)])
    /\ UNCHANGED <<up, topics, metaLog, dirs, closed, creating, shared, skipped,
                   starting, created, requests, crashes>>

\* metadataManager.Update: the entry is appended after the lock is released.
InsertPersist(i) ==
    /\ i.pc = "persist"
    /\ PersistToLog(i.to, i.topic, i.meta)
    /\ IF i.isNew THEN Becomes(i, [i EXCEPT !.pc = "mkdir"]) ELSE Finished(i)
    /\ UNCHANGED <<up, topics, meta, dirs, closed, creating, shared, skipped,
                   starting, created, requests, crashes>>

InsertDir(i) ==
    LET mine == PartitionsResponsibleFor(i.to, meta[i.to][i.topic])
    IN  /\ i.pc = "mkdir"
        /\ \/ /\ dirs[i.to][i.topic] = Absent
              /\ dirs' = [dirs EXCEPT ![i.to][i.topic] = {}]
              /\ Becomes(i, [i EXCEPT !.pc = "parts", !.mine = mine, !.left = mine])
           \/ /\ dirs[i.to][i.topic] # Absent \/ IOFails
              /\ Finished(i)
              /\ UNCHANGED dirs
        /\ UNCHANGED <<up, topics, meta, metaLog, closed, creating, shared,
                       skipped, starting, created, requests, crashes>>

InsertPartition(i) ==
    LET p == Min(i.left)
    IN  /\ i.pc = "parts" /\ i.left # {}
        /\ \/ /\ dirs' = [dirs EXCEPT ![i.to][i.topic] = @ \cup {p}]
              /\ Becomes(i, [i EXCEPT !.left = @ \ {p}])
           \/ /\ IOFails
              /\ Finished(i)
              /\ PartitionFails(i.to, i.topic, p)
        /\ UNCHANGED <<up, topics, meta, metaLog, closed, creating, shared,
                       skipped, starting, created, requests, crashes>>

InsertRegister(i) ==
    /\ i.pc = "parts" /\ i.left = {}
    /\ topics' = [topics EXCEPT ![i.to][i.topic] = i.mine]
    /\ Finished(i)
    /\ UNCHANGED <<up, meta, metaLog, dirs, closed, creating, shared, skipped,
                   starting, created, requests, crashes>>

----------------------------------------------------------------------------
(* Crash and restart.                                                      *)

\* What the broker sent before it died stays in progress on the receiver.
Crash(b) ==
    /\ up[b] /\ crashes < MaxCrashes
    /\ up' = [up EXCEPT ![b] = FALSE]
    /\ inserts' = {IF On(i.from) = b THEN [i EXCEPT !.from = Gone] ELSE i :
                      i \in {j \in inserts : j.to # b}}
    /\ creating' = [h \in Handlers |-> IF On(h) = b THEN Idle ELSE creating[h]]
    /\ shared' = {h \in shared : On(h) # b}
    /\ starting' = starting \ {b}
    /\ crashes' = crashes + 1
    /\ UNCHANGED <<topics, meta, metaLog, dirs, closed, skipped, created, requests>>

\* Mutant of LoadTopics: the topics are those the metadata log knows of.
LoadTopics_FromMetadata(b, bad) ==
    {[t \in Topics |-> IF metaLog[b][t] = NoMeta THEN Absent ELSE dirs[b][t]]}

\* The topics are the directories, each with the partitions it has.  Of a bad
\* one the topic, or some of its partitions, cannot be read and are left out
\* with a warning.
LoadTopics(b, bad) ==
    {loaded \in [Topics -> (SUBSET Partitions) \cup {Absent}] :
        \A t \in Topics :
            \/ t \notin bad /\ loaded[t] = dirs[b][t]
            \/ t \in bad /\ (loaded[t] = Absent \/ loaded[t] \subseteq dirs[b][t])}

\* metadataManager.restore: the last entry of a topic wins.
RestoreMetadata(b) == metaLog[b]

\* LoadBroker: topics from the directories, metadata from its log, no clients.
LoadBroker(b) ==
    /\ ~up[b]
    /\ up' = [up EXCEPT ![b] = TRUE]
    /\ \E bad \in SUBSET {t \in Topics : dirs[b][t] # Absent} :
          /\ bad = {} \/ IOFails
          /\ \E loaded \in LoadTopics(b, bad) : topics' = [topics EXCEPT ![b] = loaded]
          /\ skipped' = [skipped EXCEPT ![b] = bad]
    /\ meta' = [meta EXCEPT ![b] = RestoreMetadata(b)]
    /\ closed' = [closed EXCEPT ![b] = {}]
    /\ starting' = starting \cup {b}
    /\ UNCHANGED <<metaLog, dirs, creating, shared, inserts, created, requests,
                   crashes>>

\* The goroutine of Server.Start: creates whatever is missing of the partitions
\* this broker replicates, up to the first error.  Their fetchers end at once:
\* no broker answers FetchLog.
StartReplication(b) ==
    /\ b \in starting
    /\ starting' = starting \ {b}
    /\ \E upTo \in [Topics -> 0..NumPartitions] :
          /\ IOFails \/ \A t \in Topics : upTo[t] = NumPartitions
          /\ dirs' = [dirs EXCEPT ![b] =
                [t \in Topics |->
                    LET made == {p \in Replicated(b, meta[b][t]) : p < upTo[t]}
                    IN  IF made = {} THEN @[t] ELSE (@[t] \ Absent) \cup made]]
    /\ UNCHANGED <<up, topics, meta, metaLog, closed, creating, shared, inserts,
                   skipped, created, requests, crashes>>

----------------------------------------------------------------------------
CreateStep(h) ==
    \/ InitMetadata(h) \/ CreateDir(h) \/ CreatePartition(h) \/ BroadcastMetadata(h)
    \/ \E p \in Brokers : Broadcast(h, p) \/ BroadcastFails(h, p)
    \/ BroadcastCut(h) \/ BroadcastReturns(h) \/ CreateReturns(h)

InsertStep(i) ==
    \/ InsertUpdate(i) \/ InsertPersist(i) \/ InsertDir(i)
    \/ InsertPartition(i) \/ InsertRegister(i)

Next ==
    \/ \E h \in Handlers : CreateStep(h) \/ \E t \in Topics : CreateTopic(h, t)
    \/ \E b \in Brokers : CreateRejected(b) \/ Crash(b) \/ LoadBroker(b) \/ StartReplication(b)
    \/ \E i \in inserts : InsertStep(i)

\* Handlers run until they return; requests, crashes and restarts may or may
\* not happen.
Spec ==
    /\ Init /\ [][Next]_vars
    /\ \A h \in Handlers : WF_vars(CreateStep(h))
    /\ \A b \in Brokers : WF_vars(\E i \in inserts : i.to = b /\ InsertStep(i))

----------------------------------------------------------------------------
(* Properties.                                                             *)

\* Registered topics, directories, metadata and requests are well formed.
TypeOK ==
    /\ up \in [Brokers -> BOOLEAN]
    /\ topics \in [Brokers -> [Topics -> (SUBSET Partitions) \cup {Absent}]]
    /\ dirs \in [Brokers -> [Topics -> (SUBSET Partitions) \cup {Absent}]]
    /\ meta \in [Brokers -> [Topics -> Metadata \cup {NoMeta}]]
    /\ metaLog \in [Brokers -> [Topics -> Metadata \cup {NoMeta}]]
    /\ closed \in [Brokers -> SUBSET Brokers]
    /\ \A h \in Handlers :
          creating[h].pc \in {"idle", "init", "mkdir", "parts", "bcast", "await"}
    /\ shared \subseteq Handlers
    /\ \A i \in inserts : i.pc \in {"update", "persist", "mkdir", "parts"} /\ i.meta \in Metadata
    /\ skipped \in [Brokers -> SUBSET Topics]
    /\ starting \subseteq Brokers

\* The partitions of a topic whose creation was acknowledged stay on the disk of
\* the broker that created it, and it serves them whenever it runs and could
\* read them when it started, after any crashes, disk errors and later requests
\* for the same topic on any broker.
AckedTopicSurvives ==
    \A c \in created :
        /\ dirs[c.at][c.topic] # Absent /\ c.parts \subseteq dirs[c.at][c.topic]
        /\ up[c.at] /\ c.topic \notin skipped[c.at] =>
              /\ topics[c.at][c.topic] # Absent
              /\ c.parts \subseteq topics[c.at][c.topic]

Creating(b) == \E h \in Handlers : On(h) = b /\ creating[h].pc # "idle"

\* No CreateTopic request waits for ever, even when every broker creates a
\* topic and they all broadcast to each other while brokers crash: a broker is
\* done with the requests it got.
CreateTerminates == \A b \in Brokers : Creating(b) ~> ~Creating(b)

Everywhere(c) ==
    \A b \in Brokers : /\ meta[b][c.topic] = c.meta
                       /\ topics[b][c.topic] = PartitionsResponsibleFor(b, c.meta)

\* From the moment the first CreateTopic that a broker serves returns, every
\* broker has the metadata of that topic and serves the partitions it is
\* responsible for, whatever topics are created after it on this broker and
\* besides it on others, provided that no other broadcast of the broker ran at
\* the same time (each topic requested once, with no broker, disk or network
\* failing).
FirstTopicEverywhere == \A c \in created : c.nth = 1 /\ c.lone => Everywhere(c)

Busy(b, t) ==
    \/ \E h \in Handlers : On(h) = b /\ creating[h].pc # "idle" /\ creating[h].topic = t
    \/ \E i \in inserts : i.to = b /\ i.topic = t

\* A broker that says it holds a partition does: once its handlers for a topic
\* are done, it serves all the partitions that its metadata gives it.
MetadataIsServed ==
    \A b \in Brokers, t \in Topics :
        up[b] /\ ~Busy(b, t) /\ meta[b][t] # NoMeta =>
            topics[b][t] = PartitionsResponsibleFor(b, meta[b][t])

\* Every topic whose CreateTopic returned is known everywhere: what
\* BroadcastMetadata is for.
EveryTopicEverywhere == \A c \in created : Everywhere(c)
=============================================================================
