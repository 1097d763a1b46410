------------------------------ MODULE Consumer ------------------------------
(***************************************************************************)
(* A group's consumer of some partitions of a topic, from the brokers to   *)
(* the application (core/client/consumer.go, cmd/consumer/main.go, and the *)
(* connection loop of core/server.go).  It fetches the group's offsets,    *)
(* one partition after the other, and then runs a goroutine for each       *)
(* partition with a connection of its own to the partition's leader: poll, *)
(* send the result into a channel, commit the offset, sleep and poll       *)
(* again.  All the goroutines share the channel, the metadata, which come  *)
(* from the bootstrap broker, and the connection to that broker.           *)
(*                                                                         *)
(* The server closes a connection at its read deadline, which only a       *)
(* request that succeeds pushes back: a poll that finds no message does    *)
(* not.  The client keeps a closed connection for ever.  A dial to a       *)
(* broker that runs may fail, and what a consumer sent before it died may  *)
(* be handled after its successor has started.  A message is its offset; a *)
(* partition and the committed offset are durable (Partition,              *)
(* OffsetManager).                                                         *)
(***************************************************************************)
EXTENDS Integers, Sequences, FiniteSets

CONSTANTS
    Brokers,
    Partitions,        \* the partitions that the consumer was told to read
    Leader,            \* partition -> broker, in the metadata of the topic
    Bootstrap,         \* the broker that is asked for metadata
    ChanCap,           \* capacity of the channel that Run returns
    Backlog,           \* messages in a partition at the start
    MaxMessages,       \* bound: messages in a partition
    MaxCrashes,        \* bound: crashes of the consumer process
    MaxBrokerFaults    \* bound: crashes of brokers, and dials to running brokers
                       \* that fail

ASSUME ConsumerAssumption ==
    /\ Leader \in [Partitions -> Brokers] /\ Bootstrap \in Brokers
    /\ ChanCap \in Nat \ {0}
    /\ MaxMessages \in [Partitions -> Nat] /\ Backlog \in [Partitions -> Nat]
    /\ \A p \in Partitions : Backlog[p] <= MaxMessages[p]
    /\ MaxCrashes \in Nat /\ MaxBrokerFaults \in Nat

VARIABLES
    (* the brokers *)
    up,         \* broker -> it runs
    known,      \* the bootstrap broker has the metadata of the topic
    end,        \* partition -> number of its messages
    committed,  \* partition -> the group's offset, or None
    late,       \* commits that a consumer sent and did not live to see answered
    (* the consumer *)
    metadata,   \* c.metadata is loaded
    boot,       \* the connection to the bootstrap broker: "none", "open" or "dead"
    conn,       \* partition -> its connection
    unfetched,  \* partitions whose offset FetchAllOffsets has yet to fetch
    pc,         \* partition -> its goroutine: "start", "poll", "send", "commit"
    next,       \* c.offsets
    result,     \* partition -> offset of the message to send and commit, or Err
    ch,         \* the channel
    (* history *)
    received,   \* partition -> offsets the application got
    last,       \* partition -> the last since the consumer started, or None
    dropped,    \* partition -> offsets in the channel of a consumer that crashed
    stray,      \* a late commit was handled
    crashes, brokerCrashes, dialFailures

brokerVars == <<up, known, end, committed, late>>
clientVars == <<metadata, boot, conn, unfetched>>
threadVars == <<pc, next, result>>
appVars == <<ch, received, last>>
crashVars == <<crashes, brokerCrashes, dropped, stray>>
faultVars == <<crashVars, dialFailures>>
vars == <<brokerVars, clientVars, threadVars, appVars, faultVars>>

----------------------------------------------------------------------------
None == -1
Err == -1

All(x) == [p \in Partitions |-> x]

BrokerFaults == brokerCrashes + dialFailures

Init ==
    /\ up = [b \in Brokers |-> TRUE]
    /\ known \in BOOLEAN
    /\ end = Backlog
    /\ committed = All(None)
    /\ late = {}
    /\ metadata = FALSE
    /\ boot = "none"
    /\ conn = All("none")
    /\ unfetched = Partitions
    /\ pc = All("start")
    /\ next = All(0)
    /\ result = All(Err)
    /\ ch = <<>>
    /\ received = All({})
    /\ last = All(None)
    /\ dropped = All({})
    /\ stray = FALSE
    /\ crashes = 0
    /\ brokerCrashes = 0
    /\ dialFailures = 0

\* A producer appends a message.
Produce(p) ==
    /\ end[p] < MaxMessages[p]
    /\ end' = [end EXCEPT ![p] = @ + 1]
    /\ UNCHANGED <<up, known, committed, late, clientVars, threadVars, appVars, faultVars>>

\* The metadata of the topic reaches the bootstrap broker.
TopicArrives ==
    /\ ~known
    /\ known' = TRUE
    /\ UNCHANGED <<up, end, committed, late, clientVars, threadVars, appVars, faultVars>>

----------------------------------------------------------------------------
(* Connections.                                                            *)

\* A kept connection, or a new one to a broker that runs.
Connects(c, b) == c = "open" \/ (c = "none" /\ up[b])

\* getConnection: the metadata must be loaded, and the leader reached.
Reaches(p) == metadata /\ Connects(conn[p], Leader[p])

Wants(p) ==
    \/ pc[p] = "poll"
    \/ pc[p] = "start" /\ p \in unfetched

\* fetchTopicMetadata.  Its lock is held through the request, and whoever waited
\* for it finds the metadata loaded.
FetchTopicMetadata ==
    /\ ~metadata /\ known
    /\ \E p \in Partitions : Wants(p)
    /\ Connects(boot, Bootstrap)
    /\ boot' = "open"
    /\ metadata' = TRUE
    /\ UNCHANGED <<brokerVars, conn, unfetched, threadVars, appVars, faultVars>>

\* The metadata cannot be had, from a broker that is down or does not know the
\* topic, or the leader cannot be reached.
Unreachable(p) ==
    \/ ~metadata /\ ~(known /\ Connects(boot, Bootstrap))
    \/ metadata /\ ~Connects(conn[p], Leader[p])

\* The bootstrap broker was asked in vain: its connection is kept.
Asked ==
    boot' = IF ~metadata /\ Connects(boot, Bootstrap) THEN "open" ELSE boot

\* A broker that runs is dialled and does not answer.
DialFails(p) ==
    /\ BrokerFaults < MaxBrokerFaults
    /\ dialFailures' = dialFailures + 1
    /\ \/ metadata /\ conn[p] = "none" /\ up[Leader[p]]
       \/ ~metadata /\ boot = "none" /\ up[Bootstrap]
    /\ UNCHANGED boot

\* getConnection, or the metadata request in it, returns an error.
GetConnectionFails(p) ==
    \/ Unreachable(p) /\ Asked /\ UNCHANGED dialFailures
    \/ DialFails(p)

----------------------------------------------------------------------------
(* The offsets of the group, when the consumer starts.                     *)

\* Run starts the goroutines when no offset is left to fetch.
Proceed(left) ==
    /\ unfetched' = left
    /\ pc' = IF left = {} THEN All("poll") ELSE pc

\* Mutant of FetchOffset: the committed offset is not stored in c.offsets.
FetchOffset_NotSet(p) ==
    /\ pc[p] = "start" /\ p \in unfetched
    /\ Reaches(p)
    /\ conn' = [conn EXCEPT ![p] = "open"]
    /\ Proceed(unfetched \ {p})
    /\ UNCHANGED <<brokerVars, metadata, boot, next, result, appVars, faultVars>>

\* The group's offset, or 0 if it has none; the partitions come in any order.
FetchOffset(p) ==
    /\ pc[p] = "start" /\ p \in unfetched
    /\ Reaches(p)
    /\ conn' = [conn EXCEPT ![p] = "open"]
    /\ next' = [next EXCEPT ![p] = IF committed[p] = None THEN 0 ELSE committed[p]]
    /\ Proceed(unfetched \ {p})
    /\ UNCHANGED <<brokerVars, metadata, boot, result, appVars, faultVars>>

\* FetchAllOffsets gives up at the first error: the partitions that are left
\* start from 0, those before it keep their offset.
FetchAllOffsetsFails(p) ==
    /\ pc[p] = "start" /\ p \in unfetched
    /\ GetConnectionFails(p)
    /\ Proceed({})
    /\ UNCHANGED <<brokerVars, metadata, conn, next, result, appVars, crashVars>>

----------------------------------------------------------------------------
(* The goroutine of a partition.                                           *)

Served(p) == conn' = [conn EXCEPT ![p] = "open"]

Goes(p, to) == pc' = [pc EXCEPT ![p] = to]

\* Mutant of Poll: the offset is not advanced.
Poll_Stays(p) ==
    /\ pc[p] = "poll"
    /\ Reaches(p)
    /\ next[p] < end[p]
    /\ Served(p)
    /\ result' = [result EXCEPT ![p] = next[p]]
    /\ Goes(p, "send")
    /\ UNCHANGED <<brokerVars, metadata, boot, unfetched, next, appVars, faultVars>>

Poll(p) ==
    /\ pc[p] = "poll"
    /\ Reaches(p)
    /\ next[p] < end[p]
    /\ Served(p)
    /\ result' = [result EXCEPT ![p] = next[p]]
    /\ next' = [next EXCEPT ![p] = @ + 1]
    /\ Goes(p, "send")
    /\ UNCHANGED <<brokerVars, metadata, boot, unfetched, appVars, faultVars>>

\* Not found: sleep and poll again.
PollNotFound(p) ==
    /\ pc[p] = "poll"
    /\ Reaches(p)
    /\ next[p] >= end[p]
    /\ Served(p)
    /\ UNCHANGED <<brokerVars, metadata, boot, unfetched, threadVars, appVars, faultVars>>

\* Mutant of PollFails: the message that could not be polled is passed over.
PollFails_Skips(p) ==
    /\ pc[p] = "poll"
    /\ GetConnectionFails(p)
    /\ result' = [result EXCEPT ![p] = Err]
    /\ next' = [next EXCEPT ![p] = @ + 1]
    /\ Goes(p, "send")
    /\ UNCHANGED <<brokerVars, metadata, conn, unfetched, appVars, crashVars>>

\* The error becomes the result.
PollFails(p) ==
    /\ pc[p] = "poll"
    /\ GetConnectionFails(p)
    /\ result' = [result EXCEPT ![p] = Err]
    /\ Goes(p, "send")
    /\ UNCHANGED <<brokerVars, metadata, conn, unfetched, next, appVars, crashVars>>

InChannel(p) == {ch[i].offset : i \in {j \in DOMAIN ch : ch[j].partition = p}} \ {Err}

Sent(p) == Append(ch, [partition |-> p, offset |-> result[p]])

AfterSend(p) == Goes(p, IF result[p] = Err THEN "poll" ELSE "commit")

\* Mutant of Send: a full channel takes one more.
Send_OneMore(p) ==
    /\ pc[p] = "send"
    /\ Len(ch) <= ChanCap
    /\ ch' = Sent(p)
    /\ AfterSend(p)
    /\ UNCHANGED <<brokerVars, clientVars, next, result, received, last, faultVars>>

\* Mutant of Send: a full channel drops the result.
Send_Drops(p) ==
    /\ pc[p] = "send"
    /\ ch' = IF Len(ch) < ChanCap THEN Sent(p) ELSE ch
    /\ AfterSend(p)
    /\ UNCHANGED <<brokerVars, clientVars, next, result, received, last, faultVars>>

\* The result goes into the channel as soon as there is room.
Send(p) ==
    /\ pc[p] = "send"
    /\ Len(ch) < ChanCap
    /\ ch' = Sent(p)
    /\ AfterSend(p)
    /\ UNCHANGED <<brokerVars, clientVars, next, result, received, last, faultVars>>

CommitOffset(p) ==
    /\ pc[p] = "commit"
    /\ Reaches(p)
    /\ Served(p)
    /\ committed' = [committed EXCEPT ![p] = result[p] + 1]
    /\ Goes(p, "poll")
    /\ UNCHANGED <<up, known, end, late, metadata, boot, unfetched, next, result, appVars, faultVars>>

\* The connection of the poll is dead: the commit fails with a warning and is
\* not tried again.
CommitFails(p) ==
    /\ pc[p] = "commit"
    /\ Unreachable(p)
    /\ Goes(p, "poll")
    /\ UNCHANGED <<brokerVars, clientVars, next, result, appVars, faultVars>>

\* The application takes a result out of the channel.
Receive ==
    /\ ch # <<>>
    /\ LET r == Head(ch)
       IN  IF r.offset = Err THEN UNCHANGED <<received, last>>
           ELSE /\ received' = [received EXCEPT ![r.partition] = @ \cup {r.offset}]
                /\ last' = [last EXCEPT ![r.partition] = r.offset]
    /\ ch' = Tail(ch)
    /\ UNCHANGED <<brokerVars, clientVars, threadVars, faultVars>>

----------------------------------------------------------------------------
(* Failures.                                                               *)

\* The read deadline passes: the partition has had no message for that long, or
\* the application has left the channel full.
DeadlinePasses(p) ==
    /\ conn[p] = "open"
    /\ \/ pc[p] = "poll" /\ next[p] >= end[p]
       \/ pc[p] = "send" /\ Len(ch) = ChanCap
    /\ conn' = [conn EXCEPT ![p] = "dead"]
    /\ UNCHANGED <<brokerVars, metadata, boot, unfetched, threadVars, appVars, faultVars>>

\* The same for the bootstrap broker, which has not known the topic so far.
BootDeadlinePasses ==
    /\ boot = "open" /\ ~metadata
    /\ boot' = "dead"
    /\ UNCHANGED <<brokerVars, metadata, conn, unfetched, threadVars, appVars, faultVars>>

\* Partitions whose commit request may be on its way to its leader.
Sending == {p \in Partitions : pc[p] = "commit" /\ conn[p] = "open"}

\* The consumer process dies, or is told to quit, and is started again.  The
\* brokers still have the requests that it had sent.
Crash ==
    /\ crashes < MaxCrashes
    /\ crashes' = crashes + 1
    /\ metadata' = FALSE
    /\ boot' = "none"
    /\ conn' = All("none")
    /\ unfetched' = Partitions
    /\ pc' = All("start")
    /\ next' = All(0)
    /\ result' = All(Err)
    /\ ch' = <<>>
    /\ last' = All(None)
    /\ dropped' = [p \in Partitions |-> dropped[p] \cup InChannel(p)]
    /\ \E sent \in SUBSET Sending :
          late' = late \cup {[partition |-> p, offset |-> result[p] + 1, life |-> crashes] : p \in sent}
    /\ UNCHANGED <<up, known, end, committed, received, brokerCrashes, stray, dialFailures>>

\* The handler of the old connection gets to the request, whatever the new
\* consumer has done since: connections are not ordered.
LateCommit(r) ==
    /\ late' = late \ {r}
    /\ committed' = [committed EXCEPT ![r.partition] = r.offset]
    /\ stray' = TRUE
    /\ UNCHANGED <<up, known, end, clientVars, threadVars, appVars, crashes, brokerCrashes,
                   dropped, dialFailures>>

\* A commit that the broker was working on may have reached its log.
BrokerCrash(b) ==
    /\ up[b] /\ BrokerFaults < MaxBrokerFaults
    /\ up' = [up EXCEPT ![b] = FALSE]
    /\ conn' = [p \in Partitions |->
                   IF Leader[p] = b /\ conn[p] = "open" THEN "dead" ELSE conn[p]]
    /\ boot' = IF Bootstrap = b /\ boot = "open" THEN "dead" ELSE boot
    /\ \E done \in SUBSET {p \in Sending : Leader[p] = b} :
          committed' = [p \in Partitions |-> IF p \in done THEN result[p] + 1 ELSE committed[p]]
    /\ late' = {r \in late : Leader[r.partition] # b}
    /\ brokerCrashes' = brokerCrashes + 1
    /\ UNCHANGED <<known, end, metadata, unfetched, threadVars, appVars, crashes, dropped, stray,
                   dialFailures>>

BrokerRestart(b) ==
    /\ ~up[b]
    /\ up' = [up EXCEPT ![b] = TRUE]
    /\ UNCHANGED <<known, end, committed, late, clientVars, threadVars, appVars, faultVars>>

----------------------------------------------------------------------------
Starting == FetchTopicMetadata \/ \E p \in Partitions : FetchOffset(p) \/ FetchAllOffsetsFails(p)

Goroutine(p) ==
    \/ Poll(p) \/ PollNotFound(p) \/ PollFails(p)
    \/ Send(p) \/ CommitOffset(p) \/ CommitFails(p)

Next ==
    \/ Starting \/ Receive \/ Crash \/ TopicArrives \/ BootDeadlinePasses
    \/ \E p \in Partitions : Goroutine(p) \/ Produce(p) \/ DeadlinePasses(p)
    \/ \E b \in Brokers : BrokerCrash(b) \/ BrokerRestart(b)
    \/ \E r \in late : LateCommit(r)

\* The goroutines and the application keep running, and Go's channels serve
\* waiting senders in turn.  Messages, deadlines, crashes, restarts and late
\* commits may or may not come.
Spec ==
    /\ Init /\ [][Next]_vars
    /\ WF_vars(Starting) /\ WF_vars(Receive)
    /\ \A p \in Partitions : SF_vars(Goroutine(p))

----------------------------------------------------------------------------
(* Properties.                                                             *)

Lost(p) == {o \in 0..(committed[p] - 1) : o \notin received[p] \cup InChannel(p)}

\* While the consumer process lives nothing is lost: every offset below the
\* committed one was given to the application or waits in the channel, though
\* connections die, commits fail and brokers crash.
CommittedIsDelivered == crashes = 0 => \A p \in Partitions : Lost(p) = {}

\* A crash of the consumer loses at most the messages its channel held, over
\* all its partitions.
LossBounded ==
    Cardinality(UNION {{p} \X Lost(p) : p \in Partitions}) <= crashes * ChanCap

\* The places in the channel of the messages of a partition; two of them with
\* none in between, and the one that comes out first.
Waiting(p) == {i \in DOMAIN ch : ch[i].partition = p /\ ch[i].offset # Err}

Adjacent(p, i, j) == i < j /\ \A k \in Waiting(p) : k <= i \/ k >= j

First(p, j) == \A k \in Waiting(p) : k >= j

\* Within one life of the consumer the application sees the messages of a
\* partition in offset order, without a gap or a repetition, whatever failed in
\* between and whatever the other partitions send into the same channel.
DeliveredInOrder ==
    \A p \in Partitions :
        /\ \A i, j \in Waiting(p) : Adjacent(p, i, j) => ch[j].offset = ch[i].offset + 1
        /\ \A j \in Waiting(p) : last[p] # None /\ First(p, j) => ch[j].offset = last[p] + 1

\* The committed offset of the group does not move back, however often the
\* consumer is restarted, until a broker crashes, a dial fails (the group then
\* starts from 0) or a request of a consumer that died is handled after it.
CommitsMoveForward ==
    [][brokerCrashes' = 0 /\ dialFailures' = 0 /\ ~stray'
          => \A p \in Partitions : committed'[p] >= committed[p]]_vars

\* The consumer cannot poll the partition, now or ever.
Cut(p) ==
    \/ conn[p] = "dead" \/ ~up[Leader[p]]
    \/ ~metadata /\ (boot = "dead" \/ ~up[Bootstrap] \/ ~known)

\* A message is received in the end unless the consumer cannot poll for it,
\* because a connection was closed, a broker is down or the topic unknown, or
\* unless it was in the channel of a consumer that crashed.  A message that was
\* polled is never dropped: a full channel, a slow application and whatever
\* happens to the connection after the poll only delay it, and a partition that
\* is cut off does not hold up the others.
ReceivedUnlessCut ==
    \A p \in Partitions : \A o \in 0..(MaxMessages[p] - 1) :
        o < end[p] ~> \/ o \in received[p]
                      \/ next[p] <= o /\ Cut(p)
                      \/ o \in dropped[p]
=============================================================================
