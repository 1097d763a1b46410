# baby-kafka: TLA+ models and proofs

baby-kafka is a small message broker in Go: topics of partitions, each an
append-only log in segment files; brokers that spread the partitions of a topic
among themselves and tell each other about it; producers, consumers with
committed offsets, and an admin client. This directory holds TLA+ models of the
parts that are hard to test, the TLC configurations that check them on small
instances, and proofs, checked by TLAPS, of what matters most.

`PROJECT.json` is the index: components, runs, mutants (a plausible bug for
every property, which the run must detect), the source lines behind every
definition, the hazards, the findings and the theorems.

    tlc -workers 4 -config Partition_durable.cfg Partition
    tlapm PartitionProofs.tla

## Inventory

| Component | State | Operations | Hard behaviour |
|---|---|---|---|
| Log segment (`core/log.go`, `core/log_index.go`) | a `.log` file of length-prefixed records, a `.index` file of 8-byte entries, and a handle: base offset, size, next offset | `NewLog`, `LoadLog`, `Append`, `AppendReplicated`, `ReadAt` | an append is four file writes, any of which can fail or be the last one before a crash; the handle is advanced between them |
| Partition (`core/partition.go`) | the handles, the active one, the size limit, an `RWMutex` | `NewPartition`, `LoadPartition`, `Append` (with rollover), `AppendReplicated`, `ReadAt` | absolute offsets in the partition and relative ones in the segment; readers share the lock and the file cursors |
| Topic (`core/topic.go`) | its partitions, by index | `NewTopic`, `LoadTopics`, `Append`, `ReadAt` | directories are created one at a time; a restart takes what it finds |
| Committed offsets (`core/offset_manager.go`) | a map, and a topic `__consumer_offsets` | `CommitOffset`, `Offset`, `restore` | the map is set under a mutex, the log written after it is released |
| Metadata (`core/metadata_manager.go`) | a map, and a topic `__topic_metadata` | `Init` (assignment), `Update`, `Get`, `PartitionsResponsibleFor` | as above; two brokers may make metadata for one topic |
| Broker (`core/broker.go`, `core/broker_client.go`) | topics, clients of the other brokers, the two managers | `CreateTopic`, `BroadcastMetadata`, `InsertMetadata`, `Produce`, `Consume`, `StartReplication`, `LoadBroker` | a create spans all brokers, without a lock and with cached connections |
| Server (`core/server.go`, `core/request.go`, `main.go`) | connections, a read and a write deadline each; a handler and a waiting goroutine per connection | accept, one request after another per connection, shutdown by a signal | only a success moves the read deadline; shutdown sets both and the handler sets one of them back; answers whose write fails are forgotten |
| Replica fetcher (`core/replica_fetcher.go`) | a partition object of its own, a client of the leader | fetch from the leader, `AppendReplicated` | two objects on one set of files; no broker answers its request; the delay is read through a nil configuration |
| Consumer (`core/client/consumer.go`, `cmd/consumer`) | next offset and a connection per partition, metadata, a bootstrap connection, one channel | `FetchAllOffsets`, `Poll`, `CommitOffset`, `Run` | what is polled, committed and delivered are three things; dead connections stay cached; partitions share a channel |
| Producer, admin client (`core/client`) | metadata, a connection per broker | `ConnectBootstrap`, `Send`, `CreateTopic`, `ListTopics`, `Close` | routing by metadata that is kept for good; answers lost after the work is done; no deadline of their own |
| Wire protocol (`core/proto`) | none | frames of requests and answers | a frame that a deadline cuts off |
| Configuration, logging, commands | none | read a file, print | none |

Clients call brokers over TCP; a connection is handled by a goroutine of the
server that calls the broker, which calls its managers and topics directly.
Brokers call each other in one case only: the broker that creates a topic sends
the metadata to every other one. Everything shared inside a broker is protected
by a mutex per partition, one per manager, and nothing for the map of topics.
Only files survive a crash.

What makes these parts correct:

- a partition is a log: offsets without holes, messages that never change, and
  nothing that was acknowledged is lost;
- a read returns the message it asked for, and readers and writers get through;
- a committed offset that was acknowledged is there after a restart;
- the copies of a partition are on different brokers, spread evenly;
- a replica serves the leader's messages, and at the leader's offsets;
- a topic that was created is known and served wherever its metadata says;
- a message that a producer got an answer for is in the log where consumers look
  for it, no message is there twice, and those of one key are in order;
- a broker that is told to stop does so, and none of its clients hang;
- a consumer gets every message, in order, and commits what it has delivered.

## Modules

| Module | Models |
|---|---|
| `Partition` | segments, handles, append, rollover, failures, crashes, reload |
| `MessageLog` | what a partition promises: a log that only grows at its end |
| `PartitionProofs` | theorems about `Partition` |
| `PartitionReplica` | the copy of a partition on one broker, as leader or as replica with its fetcher; extends `Partition` |
| `ReplicaProofs` | theorems about `PartitionReplica`; extends `PartitionProofs` |
| `PartitionReads`, `ReadsProofs` | readers and a writer at the grain of `Seek` and `Read`, and the theorem about them |
| `OffsetManager`, `MCOffsetManager` | committed offsets, in memory and on disk; extends `Partition`, which is its log |
| `OffsetStore`, `OffsetProofs` | what the offset manager promises a group, and the theorems about it |
| `Assignment` | operators: leader, replicas, who is responsible |
| `TopicAssignment`, `AssignmentProofs` | the loop of `createAndAssign`, and the theorems about it |
| `Cluster`, `ClusterProofs` | topic creation over all brokers, and the theorems about it; uses `Assignment` |
| `Server` | connections: frames, accept loop, handlers, deadlines, shutdown |
| `Producer`, `MCProducer`, `ProducerProofs` | a producer and an admin client, and the theorems about them; extends `Server` |
| `Consumer`, `MCConsumer`, `ConsumerProofs` | a consumer of several partitions, its connections, its application, and the theorems about it |

### Partition

`disk` is the two files of every segment. A record is its position and its
message (an identity and a length), the index its sequence of 4-byte words, so
that an entry that was cut in two shifts everything behind it. `logs` and
`active` are the handles. An append holds the write lock, so it is one step,
unless something goes wrong: `AppendFails(m, w)` is the error of write `w + 1`,
`AppendCrash(m, w)` the death of the process after `w` writes together with the
restart, which only reads what is on disk. `RolloverFails` is an error of
`NewLog`. A new log always has size 0 and offset 0, since `LoadLog` over files
just created gives that. `ReadAt` is an operator: it changes nothing that the
model keeps, and its interleaving is the subject of `PartitionReads`.

`maxSize` is chosen anew at each load, because the configuration may be edited
between two starts; 0 is among its values since `NewPartition` replaces it and
`LoadPartition` does not.

### PartitionReplica

A broker is the leader of a partition or a replica of it (`role`). As the leader
it takes the steps of `Partition`, and reads see what was written: `served`, the
handles that `Consume` reads through, are `logs`. As a replica it has two objects
on the same files. `LoadTopics` opens one, which serves reads, and
`StartReplication` another one for its fetcher, the only writer: `logs` moves on
and `served` stays as it was at the start. `AppendReplicated` uses the writes of
`Partition` with the leader's absolute offset in the index and in `nextOffset`.
The fetcher ends at any error; after a leader without news it asks again on the
connection that `FetchLog` has closed; and after a batch it reads its delay
through `b.cfg`, which nothing sets, so that the broker dies
(`RestartReplica`).

No handler answers `FetchLog`. The leader's side is therefore external: since
the request has no offset in it, the leader is taken to remember what it sent, to
send in offset order and nothing twice, and to leave messages out as log.go:129
foresees. A leader that sent a message again after a rollover would make a
replica serve a wrong message. `ReplicaFaults` leaves out the crash between two
words of an index entry, which `Partition` has.

### PartitionReads

A reader is a program counter with what it has found so far. Each `Seek` and
each `Read` of `LogIndex.Read` and `readAtByte` is a step on a cursor that the
readers share, as `*os.File` is; only the payload is read with `ReadAt`. A
prefix read from the wrong place is eight bytes of something else, which `make`
either panics on, ending the process, or which makes the payload read fail. The
mutex is Go's: a waiting writer keeps new readers out.

### OffsetManager

The topic `__consumer_offsets` has one partition, so the log of the offsets is
`Partition` itself, with the four writes of an append, any of which may fail or
be the last before a crash, its rollovers and its restarts. `entries` says which
key and offset a message of the log encodes. `UpdateOffset` and `PersistToLog`
are the two halves of `CommitOffset`; the mutex is free between them. A group may
commit the same offset again, or a smaller one. `PersistToLogFails` leaves what
the failed append wrote and acknowledges the commit all the same, with a warning;
`dirty` is about that. `PersistToLogCrash` is the death of the broker inside the
append. `Visited` is the loop of `restore` with its bounds as they are written,
from the absolute `baseOffset` to the relative `nextOffset` and out of the
segment at the first entry that cannot be read, and `Restored` the last entry
replayed.

`safe` remembers, per key, the last offset whose entry was written to the log
completely. `OffsetStore` is the promise: a commit changes what one key shows,
and a crash leaves every key at its last safe commit or at the one shown, never
at an older one. `OffsetManager` implements it with the map as `value`, below the
rollover limit, with a key for each connection and under the faults that
`CleanFaults` names below.

### Assignment and TopicAssignment

`n` brokers, a replication factor that `metadataManager.Init` accepts
(`rf <= n - 1`), a random first leader, and one partition per step. The
documents disagree on whether the leader counts as one of the `rf` copies; the
code and the comment on `Init` say that it does not.

### Cluster

One action for each part of `CreateTopic` and `InsertMetadata` between which
another handler, or a crash, can come: the checks; `Init`; the directory;
each partition; the reading of the metadata; each broadcast and its answer; the
registration. `closed[b]` are the peers to which `b` has a cached connection,
which is a closed one as soon as the broadcast returns. `meta` is the map,
`metaLog` the last entry of each topic in the metadata log, `dirs` what is on
disk, `topics` what is registered. `StartReplication` creates the directories it
needs after a restart; the fetchers it starts end with their first request.
The metadata of a topic is represented by who made it and by its first leader,
from which `Assignment` computes the rest. With `IOFails` every disk operation
and every dial or send may return an error: a topic or a partition that cannot be
read when a broker starts is skipped (`LoadTopics`, `skipped`), and a failing
`NewPartition` may leave its directory behind.

A broker has `MaxHandlers` handlers, so that a client's second request for a
topic can pass the checks while the first is still on its way to
`b.topics[key] = topic`, and so that different topics can be created on one broker
at the same time. In that case two broadcasts use the same clients, each with one
connection and one buffer and no lock: one closes the connection under the other,
takes its answer, or garbles its request. `shared` are the handlers to which this
happened; for them a broadcast may succeed, fail (`BroadcastFails`) or be cut off
while it waits (`BroadcastCut`), in any combination.

### Server and Producer

A connection is a record: the client's end, where the handler is in its loop, the
request that is not read yet, the one being worked on, the answer that is not
read yet, and whether the read and the write deadline have passed. A client has
one request at a time on a connection, so there is at most one frame each way.
`DeadlinePasses` is the 30 seconds; `Kick` the goroutine that waits for
`ctx.Done()` and puts both deadlines into the past; `Extend` the line that puts
the read deadline 30 seconds ahead after an answer, also when `Kick` was there
before. A write past its deadline fails, and the handler takes no notice: the
answer is lost. `CloseListener` closes the connections that nobody accepted,
`Exit` is `wg.Wait()`, `Crash` a panic or a kill, and `Start` a new process.

`Producer` says what the requests do. `Send` is the whole call: the metadata from
the bootstrap broker if there is none, which may be the fallback without
partitions ("bare") and is kept for good; the hash; the leader's connection; the
request; the answer or an error. Nothing is tried again. The caller may call
`Send` again after an error (`cmd/producer` does not). The admin client asks for
something any number of times, which is also what a busy client is for a broker
that wants to stop. Every broker appends to its copy whoever asks.

### Consumer

The goroutine of a partition in `Run` is `pc[p]`: poll, send, commit, and before
it the part of `FetchAllOffsets` for the partition. `FetchAllOffsets` visits the
partitions in the order of a map and gives up at the first error, upon which the
ones it did not get to begin at 0. A connection is none, open or dead, and dead
for ever, since `connFor` returns whatever is in the map. The same holds for the
connection to the bootstrap broker, from which the first goroutine that needs the
metadata loads it, under a lock. All goroutines send into one channel.

The server closes a connection when its deadline passes, which can happen while
the partition has no message (the server's `continue` after an error skips the
line that moves the deadline) and while the channel is full. `Produce` appends
messages meanwhile; a broker that dies may or may not have logged the commit it
was working on. A dial to a broker that runs may fail as well (`DialFails`), which
is an error like any other: `FetchAllOffsets` gives up, and what it did not get to
begins at 0.

A consumer waits for the answer to a commit, so that the request, its handling and
its answer are one step of its goroutine. When its process dies in between, the
request stays with the broker (`late`), and the handler of the old connection
carries it out at any time later, after commits of the next consumer too
(`LateCommit`): nothing orders two connections.

## Runs

Passing runs, with the distinct states TLC finds:

| Run | Instance | States | Checks |
|---|---|---|---|
| `Partition_durable` | 4 appends of 2 or 12 bytes, limit 0 or 20 | 19,490 | `TypeOK`, `AckedReadable`, `DurableInv`, and that `Partition` implements `MessageLog` |
| `Partition_copies` | leader: the same, error or crash at every write; replica: 4 messages of the leader in batches of 0 to 2 | 311,766 | `ReplicaAgrees`, `UnbrokenServed`, `StableReads` (over the handles that `Consume` reads through) |
| `Reads_lone` | 2 readers, 1 writer, 2 appends | 53,026 | `LoneReadExact`, `AppendCompletes`, `ReadReturns` |
| `Offsets_durable` | 2 connections with a key each, offsets to 2 in any order, 3 appends, failing on the first write or cut off by a crash | 518,992 | `OffsetTypeOK`, `AckedCommitSurvives`, `MemoryMatchesDisk`, and that `OffsetManager` implements `OffsetStore` |
| `Cluster_create` | 2 brokers with 2 handlers each, 3 topics | 2,143,309 | `FirstTopicEverywhere`, `MetadataIsServed` |
| `Cluster_crash` | 2 brokers with 2 handlers each, 1 topic asked for twice, 2 partitions, 1 crash, disk and network errors | 511,032 | `TypeOK`, `AckedTopicSurvives`, `CreateTerminates` |
| `Consumer_faults` | 2 partitions on 2 brokers, 2 and 1 messages, channel of 1, 1 consumer crash, 1 broker crash or failed dial | 282,460 | `CommittedIsDelivered`, `LossBounded`, `DeliveredInOrder`, `CommitsMoveForward`, `ReceivedUnlessCut` |
| `Producer_shutdown` | 2 brokers, 2 keys on 2 partitions, 2 sends, a busy admin client, 1 shutdown or crash | 170,264 | `TypeOK`, `AckedAtLeader`, `AtMostOnce`, `PerKeyOrder`, `ShutdownCompletes`, `ClientsReturn` |

Why the bounds are enough:

- `Partition_*`: a record of 2 bytes with its prefix is 10, one of 12 is 20: a
  segment rolls over after one or two records with the limits 10 (`MaxSize`) and
  20, at every append with 0. Four appends give up to four segments, a failure
  before and after a rollover, and a segment in the middle. A replica of four
  messages can leave out the first, one in the middle or the last, roll over
  before and after that, and go on in a second batch after a restart.
- `Reads_lone`: two appends of 9 or 12 bytes are in one segment or in two. Two
  readers are what a shared cursor takes; the third party is the writer.
- `Offsets_durable`: a record is 9 bytes and the limit 50 or more, so that the
  log stays in its first segment; what happens after it is `Offsets_rollover`.
  Three commits are enough to have one that failed or was cut off between two
  that were not, of the same key or of two, and to go forward and back.
- `Cluster_create`: with 3 topics on 2 brokers, a broker creates two at the same
  time or one after the other, while the other one creates a third and broadcasts
  to it; replication factor 1 makes both hold every partition, and the theorem
  covers brokers without a copy. `Cluster_crash`: both brokers may be asked for
  the topic, or one twice, one request after the other or both at a time, and one
  may die at any step.
- `Consumer_faults`: with a channel of one every result but the first waits for
  room, so that a goroutine that is cut off and one that is not compete for it, and
  one partition has two messages in a row. The bootstrap broker leads one of the
  partitions and not the other, so that each can be cut off alone. One crash of
  the consumer is what a late commit takes; the theorems cover channels of every
  size.
- `Producer_shutdown`: two sends are what an order takes, of one key or of two on
  different brokers. The broker that stops has the producer's bootstrap and the
  admin client on it, so that it waits for two handlers; the other one shows that
  a stopped broker does not concern it. One stop is enough to have a message
  stored and its answer lost, and a later send to the broker's next life.

`Assignment_factor`, below, is the one run without a deadlock check: the loop of
`createAndAssign` ends.

Runs in which TLC finds the statement violated:

| Run | Statement | What happens |
|---|---|---|
| `Reads_concurrent` | TODO.md:22, concurrent read safety | reader 1 seeks, reader 2 seeks, reader 1 reads the entry of reader 2 |
| `Offsets_rollover` | offset_manager.go:22-23, resume after a crash | `restore` compares an absolute offset with a relative bound and skips the second segment |
| `Cluster_second` | broker.go:280, metadata synced across all brokers | the second `Broadcast` writes to the connection that the first one closed |
| `Assignment_factor` | REPLICATION_CONCEPTS.md:17 and the example at metadata_manager.go:229-234, the leader is one of `replicationFactor` copies | with two brokers and the factor 1 both hold the partition |

The passing properties are stated next to these, so that they say what holds
nevertheless: a read that was alone on its segment is exact; commits survive
below the rollover limit; the first topic of a broker is everywhere. What the code
does about the replication factor is the theorem `HeldAlways`, which is the comment
on `Init` (metadata_manager.go:198).

## Fairness

Only what the Go scheduler gives is assumed: a goroutine that can take a step
takes one eventually (weak fairness).

- `PartitionReads`: every reader and the writer, each as a whole. Go's RWMutex
  keeps readers that come after a waiting writer out, which the guard of `RLock`
  says; nothing more is assumed about the order in which the lock is given.
- `Cluster`: the handler of every `CreateTopic`, and per broker the handlers of
  the metadata it received.
- `Consumer`: the start, the application's loop, and each goroutine. The latter
  are strongly fair, because a goroutine that waits for room in the channel is not
  always able to go on: others may take the room. Go's channels serve waiting
  senders in turn.
- `Producer`: the calls of the producer and the admin client that are in
  progress, every handler, the accept loop, the goroutine that waits for the
  shutdown, the closing of the listener and the end of the process; and that a
  deadline passes when nothing arrives before it. A busy client may keep a deadline
  from passing.

New calls, new messages, crashes, restarts and passing deadlines are not fair:
they may happen or not.

## Proofs

Everything below is proved for every value of the constants, under the
assumptions that the modules state (lengths are positive, limits are natural
numbers, the producer has a connection to every broker, and so on). The bounds
that keep TLC's instances finite are constants as well, so the theorems hold for
any number of appends, sends, crashes and requests. Every inductive invariant was
first checked by TLC on the instance of the component's run.

| Module | Theorem | Statement |
|---|---|---|
| `PartitionProofs` | `TypeCorrect` | `Spec => []TypeOK` |
| | `DurableCorrect` | `CleanFaults => (Spec => []DurableInv)` |
| | `AckedDurable` | `CleanFaults => (Spec => []AckedReadable)` |
| | `MessageLogImplemented` | `CleanFaults => (Spec => ImplementsMessageLog)` |
| `ReplicaProofs` | `ReplicaAlwaysAgrees` | `CleanReplica => (CopySpec => []ReplicaAgrees)` |
| | `UnbrokenAlwaysServed` | `CleanReplica => (CopySpec => []UnbrokenServed)` |
| | `ReadsAreStable` | `CopySpec => StableReads` |
| `ReadsProofs` | `LoneReadsExact` | `Spec => []LoneReadExact` |
| `OffsetProofs` | `OffsetTypeCorrect` | `OffsetSpec => []OffsetTypeOK` |
| | `AckedCommitsSurvive` | `CleanFaults => (OffsetSpec => [](OneSegment => AckedCommitSurvives))` |
| | `MemoryIsOnDisk` | `CleanFaults /\ OwnKeys => (OffsetSpec /\ []OneSegment => []MemoryMatchesDisk)` |
| | `OffsetStoreImplemented` | `CleanFaults /\ OwnKeys => (OffsetSpec /\ []OneSegment => ImplementsOffsetStore)` |
| `AssignmentProofs` | `CopiesAlwaysApart` | `Sized => (Spec => []CopiesApart)` |
| | `HeldAlways` | `Sized => (Spec => []HeldByLeaderAndReplicas)` |
| | `AlwaysBalanced` | `Sized => (Spec => []LeadersBalanced)` |
| `ClusterProofs` | `ClusterTypeCorrect` | `Spec => []TypeOK` |
| | `AckedTopicsSurvive` | `Spec => []AckedTopicSurvives` |
| | `FirstTopicsEverywhere` | `Calm => (Spec => []FirstTopicEverywhere)` |
| | `MetadataAlwaysServed` | `Calm => (Spec => []MetadataIsServed)` |
| `ProducerProofs` | `ProducerTypeCorrect` | `Spec => []TypeOK` |
| | `AckedMessagesAtLeader` | `Spec => []AckedAtLeader` |
| | `MessagesAtMostOnce` | `Spec => []AtMostOnce` |
| | `KeysInOrder` | `Spec => []PerKeyOrder` |
| `ConsumerProofs` | `InOrder` | `Spec => []DeliveredInOrder` |
| | `LossesBounded` | `Spec => []LossBounded` |
| | `CommittedDelivered` | `Spec => []CommittedIsDelivered` |
| | `CommitsForward` | `Spec => CommitsMoveForward` |

The hypotheses, which are about constants but for `OneSegment`, and why they are
there:

- `CleanFaults`: no crash separates the two words of an index entry, and an
  append fails, if at all, on its first write. All other crashes, failed
  rollovers, restarts and changes of the limit are included. Without it
  `AckedReadable` is false, and so is `AckedCommitSurvives` (see below).
- `CleanReplica`: no append of a fetcher is cut off inside its index entry. After
  such a crash the index is read shifted by a word, and a later message whose
  offset happens to be the position of a record is served as another one:
  `ReplicaAgrees` fails with `ReplicaFaults = {3}`, `Lengths = {1}`, one segment
  and `LeaderEnd = 19`. `UnbrokenServed` is proved under it too, with the
  invariant of `ReplicaAgrees`; no instance without it was found to fail.
- `OwnKeys`: no two connections commit for one group and partition. If they do,
  they may set the map in one order and append in the other.
- `OneSegment`: only the first segment of the offsets log has entries. `restore`
  skips later ones, which is what `Offsets_rollover` shows.
- `Sized`: the bound on the number of brokers is a natural number.
- `Calm`: each topic is asked for once, no broker crashes and no disk or network
  operation fails. `FirstTopicEverywhere` and `MetadataIsServed` both fail when any of the
  three is dropped, the latter for two requests with three brokers.

### Partition

`AckedReadable` is not inductive: it says nothing of messages that nobody
acknowledged, of the handles that the next append uses, or of the files that a
restart will read. `DurableInv` does, in six parts. Every index is whole, entry
`n` is for offset `n` and points at a record, and records lie below the end of
the file (`IntactDisk`); segments do not overlap (`DisjointSegments`); the
active handle is the last one and agrees with its files (`ActiveCurrent`); no
handle reaches past its index and every entry has a handle (`HandlesCover`);
every acknowledged message is stored (`Stored`); and what lies past the active
segment is the empty segment of a failed rollover, which the next append will
use (`OnlyRolledPast`). The last part is what makes a rollover safe: either the
segment does not exist, or it is empty and of the right name.

The argument: an append first rolls over, which leads to a state where nothing
lies past the active segment (`RolledSettled`); `w` writes keep the disk intact
for every `w` but 3 (`WrittenIntact`, `WriteKeepsDisk`); after all four the
handle agrees again (`WholeAppendSettled`); after a crash, loading finds the
segments in order, with the last one active (`LoadPartitionLoads`,
`LoadSettled`). `StoredIsRead` then turns a stored message into one that
`ReadAt` returns: the first handle that covers its offset is on its segment,
because segments do not overlap.

The refinement of `MessageLog` maps the messages that can be read to the abstract
log. From `DurableInv` and its successor, an append adds the message at the end or
nothing, and every other step leaves what can be read as it was.

### Replica

A replica's index has absolute offsets, so entry `n` need not be for offset `n`,
and a read of a later segment, or behind a gap, looks in the wrong place. That
what it finds is never another message is because an entry is never for an offset
below its place, and in later segments always for one above it (`InPlace`): the
comparison with the offset that was asked for fails. To keep this, the invariant
(`CopyDisk`) says that segments hold the leader's messages in offset order below
the offset that is appended next, each of them in one segment; that the batch is
in order (`BatchInv`); and that the fetcher's handle agrees with its files until
the fetcher ends (`FetcherInv`). `UnbrokenServed` also needs that an entry of the
first segment is at its own place or something below it is missing (`Gaps`), and
that the object that serves reads covers what was there at the start
(`SavedInv`).

`ReadsAreStable` has no hypothesis, so neither invariant is of use to it: indexes
may have odd lengths and entries may be wrong. `LayoutInv` keeps only what
survives every fault: records lie inside their files, segments do not overlap, and
no handle reaches past the next segment. Then a step writes behind everything that
a read depends on, and a restart finds for an offset the segment that served it
before. On a replica the reader's handles stay as they are while files grow under
them, and no index has more entries than the leader has sent offsets (`WordsInv`),
so that a restart gives an offset to the segment that it had before
(`StableInv`).

### Concurrent reads

While a reader is alone on its segment, the cursors are where its program counter
says (`OnTrack`); two readers on one segment are neither of them alone; and the
writer is alone (`LockInv`), so that neither files nor cursors move under a
reader.

### Committed offsets

`OffsetManager` takes the steps of `Partition` (`LogIsPartition`), so `DurableInv`
holds of its log. `LogInv` adds what the messages mean: every offset of the log
can be read, and for every key the last entry along the log is the safe one
(`LastEntry`); an append adds one entry at the end, and failed and interrupted ones
add nothing that can be read. With one segment the absolute and the relative bound
of `restore` are the same, it visits every entry (`RestoreFinds`), and the last one
wins. This needs nothing of the order of the offsets or of who commits. For the
map, `MemInv` says that it is ahead of the log by the commits in progress and by
those that could not be appended, which takes one connection for a key.

### Assignment

The metadata is the sequence that `createAndAssign` computes (`AssignInv`), and
`leader + 1 .. leader + rf` modulo `n` are different and not the leader, as long
as `rf < n` (`PartitionApart`). Hence a partition is held by exactly `rf + 1`
brokers. For the balance, `BalanceInv` says that `q` whole turns and `r` more partitions
have been assigned, so that a broker leads `q` partitions or `q + 1`.

### Cluster

`AckedTopicSurvives` rests on `OwnerInv`: a handler that made the directory of a
topic on a broker, its own request or one of a broadcast, is the only one that
ever did, since `os.Mkdir` fails for the next one and nothing removes directories.
So what it has made so far is on disk, no other handler will register the topic
over it, and the directories that a restart takes as topics include what was
acknowledged, though a broker may skip some when it starts. This holds with
crashes, disk errors and any number of requests.

For `Calm`, `CalmInv` follows one request per topic (`CreatedAs`): at most one
handler and one `InsertMetadata` call work on the topic at a time, each finds
itself at the stage that the tables show, and every other broker is either fresh
or done. That the first broadcast of a broker reaches everyone needs that
connections are closed only by a broadcast of this broker (`ClosedOf`), so that
the peers a first broadcast has yet to visit have none (`FirstOf`), as long as no
other broadcast of the broker runs beside it (`LoneInv`). A step on one
topic leaves what is known of the others alone (`CalmKept`).

### Producer

One frame at most is on the producer's connections, and only on the one it waits
for (`LinkInv`): a request or its answer. The message of the call in progress is
stored nowhere as long as its request is still unread or being worked on
(`FreshInv`), and logs are in the order of the calls (`StoreInv`). So an append
puts the largest number at the end of one log, whatever answers are lost later.
For `TypeOK`, a handler starts only while its broker listens (`PhaseInv`).

### Consumer

`DeliveredInOrder` needs the offset that comes after what is in the channel, which
is the goroutine's next one or the one it is about to send (`Reached`, `OrderInv`).
`CommitsMoveForward` needs that a consumer that starts while the brokers run and
answer finds the offsets of its group (`ForwardInv`). A late commit speaks of
messages that were handed over or lost with the channel, like the committed offset
itself (`DeliveryInv`). The loss at a crash is counted as the
content of the channel, which is finite and no larger than its capacity
(`LossInv`).

### Only model-checked

Liveness (`AppendCompletes`, `ReadReturns`, `CreateTerminates`,
`ReceivedUnlessCut`, `ShutdownCompletes`, `ClientsReturn`), which is beyond the
prover. All other properties of passing runs are theorems.

## Behaviour that differs from the documents, without a run of its own

Each of these can be seen with the modules as they are, by the change given:

- After a rollover `Append` returns the offset relative to its segment
  (log.go:123), which is the offset of another message, if of any; topic.go:18
  calls the offset unique within the partition. `ReturnedOffsetReadable` as an
  invariant of `Partition_durable.cfg`.
- A crash between the two words of an index entry (log_index.go:64-68) makes
  later messages of the segment unreadable. `AckedReadable` with
  `CrashPoints = {0, 1, 2, 3, 4}`.
- A failed payload or index write (log.go:108, 119) leaves the handle and the
  files in disagreement, with the same effect on later appends. `AckedReadable`
  with 1, 2 or 3 in `FailPoints`. What was readable before stays so:
  `StableReads` is checked with all of them.
- Two connections that commit for one key may set the map in one order and
  append to the log in the other (offset_manager.go:111-114).
  `MemoryMatchesDisk` in `Offsets_durable.cfg` with `KeyOf <- SharedKey`.
- An append to the offsets log that fails after its first write (log.go:108, 119),
  or is cut off inside its index entry, makes `restore` stop there
  (offset_manager.go:182), so that a restart loses the commits acknowledged after
  it; offset_manager.go:22-23 has the log "to persist in case of broker crashes".
  `AckedCommitSurvives` in `Offsets_durable.cfg` with 1, 2 or 3 in `FailPoints` or 3
  in `CrashPoints`.
- Two topics that are created on one broker at the same time share its clients
  (broker_client.go:54-77), and neither need reach the others: broker.go:280.
  `FirstTopicEverywhere` without `c.lone`.
- A broker skips a topic or a partition that it cannot read when it starts
  (topic.go:101-105, partition.go:104-108), and runs without what it had
  acknowledged. `AckedTopicSurvives` without `skipped`.
- The committed offset of a group moves back when a dial fails as the consumer
  starts (consumer.go:436), or when a commit is handled after its sender died.
  `CommitsMoveForward` without `dialFailures` or without `stray`.
- An offset is committed when the message enters the channel, before the
  application has it (consumer.go:137-139), so that a crash skips messages;
  REPLICATION_CONCEPTS.md:108 says "at-least-once delivery". `LossBounded` says how
  many are lost and fails with 0 as its bound.
- A crash during `CreateTopic` leaves a topic that lacks partitions and cannot
  be created again (topic.go:36-60). `MetadataIsServed` in `Cluster_crash.cfg`.
- `AppendReplicated` stores absolute offsets in the index (log.go:150), which
  reads take as relative, and a read looks for entry `n` at place `n`, which
  fails after a gap; log.go:129 says "So we need to support that too".
  `ReplicatedServed` as an invariant of `Partition_copies.cfg`. What the replica
  serves is right (`ReplicaAgrees`), it does not serve all it has.
- A consumer that finds no message for 30 seconds is cut off for good
  (server.go:177, consumer.go:203); BASICS.md:183 says "On reconnect: re-dial, keep
  offset unchanged — resume from same position". `ReceivedUnlessCut` without
  `conn[p] = "dead"` in `Cut` fails in `Consumer_faults.cfg`, with
  `MaxCrashes = 0` and `MaxBrokerFaults = 0` as well.

## Not modelled

- What a request that two broadcasts garble may decode to: in `Cluster` it is lost.
  The data races on the map of topics and on the map of clients may also end the
  process, which is a crash in `Cluster`.
- A failed append to the metadata log that makes later entries unreadable:
  `PersistToLog` in `Cluster` covers it by entries that are as good as not written,
  and no property depends on what is restored.
- A client's `Produce` to a replica, which appends through the object that serves
  reads (broker.go:236): the producer sends to leaders only, so the fetcher is the
  only writer of a replica in `PartitionReplica`.
- The rollover of the metadata log: it has the loop of `restore` that
  `OffsetManager` checks.
- The death of a broker between making a partition's directory and its first
  log (partition.go:57): the partition is loaded without an active log, and the
  first append to it panics.
- The server's side of `FetchLog`, which does not exist.
- `PollAll`, which no command calls; errors that a broker returns for a message it
  has (`PartitionReads` shows when); the fallback metadata without partitions for a
  consumer, which fails at every poll as the producer does at every send;
  `FetchTopicMetadata` of the producer as a call of its own.
- Several producers in a process: they share nothing.
- The gob encoding, which is a library's.
- Offsets and positions beyond 32 bits: a segment would have to be larger than
  2 GiB, with a default limit of 1 MiB.
- Configuration, logging, flags, test support: no state.

## Plan

The system is modelled as far as the list above says, and the safety properties
of the runs are proved. What could follow when the code changes: `AckedReadable`
without `CleanFaults`, once `Append` puts file and handle right after an error;
the theorems about offsets without `OneSegment`, once `restore` counts relative
offsets; and the leader's side of replication, once a broker answers `FetchLog`.
