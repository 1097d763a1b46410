------------------------------ MODULE Producer ------------------------------
(***************************************************************************)
(* A producer and an admin client on the brokers of Server                 *)
(* (core/client/producer.go, core/client/admin.go, internal/utils/hash.go, *)
(* cmd/producer, Produce and GetTopicMetadata in core/broker.go and their  *)
(* handlers in core/request.go).                                           *)
(*                                                                         *)
(* Send loads the metadata of the topic from the bootstrap broker, once,   *)
(* hashes the key to a partition, and sends the message to its leader over *)
(* the connection it keeps to that broker.  It does not try again, and it  *)
(* does not replace a connection that was closed.                          *)
(*                                                                         *)
(* Every broker holds a copy of every partition and appends to it whoever  *)
(* asks.  The metadata of the topic does not change while a producer runs. *)
(***************************************************************************)
EXTENDS Server

CONSTANTS
    Producer, Admin,  \* the clients
    Keys,
    Hash,             \* fnv32a of a key
    NumPartitions,
    Leader,           \* partition -> broker, in the metadata of the topic
    Bootstrap,        \* the broker that is asked for metadata
    MaxSends          \* bound: calls of Send

Partitions == 0..(NumPartitions - 1)

ASSUME ProducerAssumption ==
    /\ NumPartitions \in Nat \ {0} /\ MaxSends \in Nat
    /\ Hash \in [Keys -> Nat]
    /\ Leader \in [Partitions -> Brokers]
    /\ Bootstrap \in Brokers
    /\ Producer # Admin
    /\ Links \subseteq {Producer, Admin} \X Brokers
    /\ {Producer} \X Brokers \subseteq Links

VARIABLES
    store,    \* broker -> partition -> messages appended, in order
    metadata, \* p.metadata[topic]: "none", "full", or "bare" (no partitions in it)
    doing,    \* the producer: "idle", "fetching" (metadata), "route", "sending",
              \* "closed"
    sends,    \* calls of Send so far: the last one is the one in progress
    key,      \* its key
    acked,    \* messages whose Send returned without an error
    asking    \* the admin client waits for an answer

vars == <<serverVars, store, metadata, doing, sends, key, acked, asking>>

----------------------------------------------------------------------------
Message == [n : 1..MaxSends, key : Keys]

PLink(b) == <<Producer, b>>
ALinks == {l \in Links : l[1] = Admin}

Init ==
    /\ ServerInit
    /\ store = [b \in Brokers |-> [p \in Partitions |-> <<>>]]
    /\ metadata = "none"
    /\ doing = "idle"
    /\ sends = 0
    /\ key = CHOOSE k \in Keys : TRUE
    /\ acked = {}
    /\ asking = FALSE

\* Mutant of PartitionFor: messages go round the partitions.
PartitionFor_RoundRobin(k) == sends % NumPartitions

PartitionFor(k) == Hash[k] % NumPartitions

----------------------------------------------------------------------------
(* The producer.                                                           *)

ConnectBootstrap ==
    /\ doing = "idle"
    /\ Dial(PLink(Bootstrap))
    /\ UNCHANGED <<store, metadata, doing, sends, key, acked, asking>>

\* Send, when the metadata is there.
Send(k) ==
    /\ doing = "idle" /\ sends < MaxSends
    /\ metadata # "none"
    /\ sends' = sends + 1
    /\ key' = k
    /\ doing' = "route"
    /\ UNCHANGED <<serverVars, store, metadata, acked, asking>>

\* Send, when the metadata has to be loaded first; an error if it cannot be.
FetchTopicMetadata(k) ==
    /\ doing = "idle" /\ sends < MaxSends
    /\ metadata = "none"
    /\ sends' = sends + 1
    /\ key' = k
    /\ \/ /\ WriteRequest(PLink(Bootstrap), Frame("getMetadata"))
          /\ doing' = "fetching"
       \/ /\ CannotReach(PLink(Bootstrap))
          /\ UNCHANGED <<serverVars, doing>>
    /\ UNCHANGED <<store, metadata, acked, asking>>

\* Whatever metadata came is kept for good.
MetadataLoaded(m) ==
    /\ doing = "fetching"
    /\ m # "error"
    /\ ReadResponse(PLink(Bootstrap), m)
    /\ metadata' = m
    /\ doing' = "route"
    /\ UNCHANGED <<store, sends, key, acked, asking>>

Request == [type |-> "produce", partition |-> PartitionFor(key),
            msg |-> [n |-> sends, key |-> key]]

\* brokerWithLeaderPartition; the metadata may lack the partition.
LeaderFor == IF metadata = "full" THEN {Leader[PartitionFor(key)]} ELSE {}

\* Mutant of Produce: over the connection to the bootstrap broker.
Produce_ToBootstrap ==
    /\ doing = "route" /\ LeaderFor # {}
    /\ WriteRequest(PLink(Bootstrap), Request)
    /\ doing' = "sending"
    /\ UNCHANGED <<store, metadata, sends, key, acked, asking>>

\* The message goes to the leader of its partition.
Produce ==
    /\ doing = "route"
    /\ \E b \in LeaderFor : WriteRequest(PLink(b), Request)
    /\ doing' = "sending"
    /\ UNCHANGED <<store, metadata, sends, key, acked, asking>>

Acknowledged ==
    /\ doing = "sending"
    /\ \E b \in Brokers : ReadResponse(PLink(b), "stored")
    /\ acked' = acked \cup {Request.msg}
    /\ doing' = "idle"
    /\ UNCHANGED <<store, metadata, sends, key, asking>>

\* The broker answered with an error.
Refused ==
    /\ doing \in {"fetching", "sending"}
    /\ \E b \in Brokers : ReadResponse(PLink(b), "error")
    /\ doing' = "idle"
    /\ UNCHANGED <<store, metadata, sends, key, acked, asking>>

\* Mutant of SendFails: connects again and sends the message once more.
SendFails_Again ==
    /\ doing = "sending"
    /\ \E b \in LeaderFor :
          /\ ReadResponseFails(PLink(b))
          /\ link' = [link EXCEPT ![PLink(b)] = NoLink]
    /\ doing' = "route"
    /\ UNCHANGED <<phase, faults, store, metadata, sends, key, acked, asking>>

\* No leader, no connection, or one that was closed: Send returns the error,
\* and the closed connection stays.
SendFails ==
    /\ \/ doing = "fetching" /\ ReadResponseFails(PLink(Bootstrap))
       \/ doing = "route" /\ \A b \in LeaderFor : CannotReach(PLink(b))
       \/ doing = "sending" /\ \E b \in LeaderFor : ReadResponseFails(PLink(b))
    /\ doing' = "idle"
    /\ UNCHANGED <<serverVars, store, metadata, sends, key, acked, asking>>

\* Close, at the end.
Close ==
    /\ doing = "idle"
    /\ link' = [l \in Links |-> IF l[1] = Producer THEN [link[l] EXCEPT !.conn = "none"]
                                ELSE link[l]]
    /\ doing' = "closed"
    /\ UNCHANGED <<phase, faults, store, metadata, sends, key, acked, asking>>

----------------------------------------------------------------------------
(* The admin client: CreateTopic and ListTopics, any number of times, and  *)
(* Close.                                                                  *)

AdminAsks(l) ==
    /\ ~asking
    /\ WriteRequest(l, Frame("admin"))
    /\ asking' = TRUE
    /\ UNCHANGED <<store, metadata, doing, sends, key, acked>>

\* An answer, or the error of a connection that was closed.
AdminReturns(l) ==
    /\ asking
    /\ link[l].ans \in {Frame("done"), Frame("error")} \/ ReadResponseFails(l)
    /\ link' = [link EXCEPT ![l].ans = None]
    /\ asking' = FALSE
    /\ UNCHANGED <<phase, faults, store, metadata, doing, sends, key, acked>>

AdminCloses(l) ==
    /\ ~asking /\ link[l].conn # "none"
    /\ link' = [link EXCEPT ![l].conn = "none"]
    /\ UNCHANGED <<phase, faults, store, metadata, doing, sends, key, acked, asking>>

----------------------------------------------------------------------------
(* The brokers.                                                            *)

Stored(l) ==
    LET r == link[l].job
    IN  [store EXCEPT ![BrokerOf(l)][r.partition] = Append(@, r.msg)]

Produces(l) == At(l, "work") /\ link[l].job.type = "produce"

\* handleProduce: the partition appends the message, or the append fails.
HandleProduce(l) ==
    /\ Produces(l)
    /\ \/ Answer(l, "stored") /\ store' = Stored(l)
       \/ Answer(l, "error") /\ UNCHANGED store
    /\ UNCHANGED <<metadata, doing, sends, key, acked, asking>>

\* handleGetMetadata: the topic's metadata, what GetTopicMetadata makes of a
\* topic that has none, or an error when there is no topic.
HandleGetMetadata(l) ==
    /\ At(l, "work") /\ link[l].job.type = "getMetadata"
    /\ \E a \in {"full", "bare", "error"} : Answer(l, a)
    /\ UNCHANGED <<store, metadata, doing, sends, key, acked, asking>>

\* handleCreateTopic and handleListTopics.
HandleAdmin(l) ==
    /\ At(l, "work") /\ link[l].job.type = "admin"
    /\ \E a \in {"done", "error"} : Answer(l, a)
    /\ UNCHANGED <<store, metadata, doing, sends, key, acked, asking>>

\* A broker that dies may have stored the message it was working on.
BrokerCrash(b) ==
    /\ Crash(b)
    /\ store' \in {store} \cup {Stored(l) : l \in {k \in Links : BrokerOf(k) = b /\ Produces(k)}}
    /\ UNCHANGED <<metadata, doing, sends, key, acked, asking>>

----------------------------------------------------------------------------
Apart == UNCHANGED <<store, metadata, doing, sends, key, acked, asking>>

ProducerStep ==
    \/ \E m \in {"full", "bare"} : MetadataLoaded(m)
    \/ Produce \/ Acknowledged \/ Refused \/ SendFails

Handler(l) ==
    \/ HandlerStep(l) /\ Apart
    \/ HandleProduce(l) \/ HandleGetMetadata(l) \/ HandleAdmin(l)

Next ==
    \/ ProducerStep \/ ConnectBootstrap \/ Close
    \/ \E k \in Keys : Send(k) \/ FetchTopicMetadata(k)
    \/ \E l \in ALinks : AdminAsks(l) \/ AdminReturns(l) \/ AdminCloses(l)
    \/ \E l \in Links :
          \/ Handler(l)
          \/ (Accept(l) \/ DeadlinePasses(l) \/ Kick(l)) /\ Apart
    \/ \E b \in Brokers :
          \/ (Stop(b) \/ CloseListener(b) \/ Exit(b) \/ Start(b)) /\ Apart
          \/ BrokerCrash(b)

\* Nothing to read: time goes by until the deadline.
Blocked(l) == At(l, "read") /\ link[l].req = None

\* Goroutines run, clients read what they wait for, and a deadline passes if
\* nothing is read until then.  Calls, signals, crashes and starts may or may
\* not come.
Spec ==
    /\ Init /\ [][Next]_vars
    /\ WF_vars(ProducerStep)
    /\ \A l \in ALinks : WF_vars(AdminReturns(l))
    /\ \A l \in Links :
          /\ WF_vars(Handler(l))
          /\ WF_vars(Accept(l) /\ Apart)
          /\ WF_vars(Kick(l) /\ Apart)
          /\ WF_vars(Blocked(l) /\ DeadlinePasses(l) /\ Apart)
    /\ \A b \in Brokers :
          /\ WF_vars(CloseListener(b) /\ Apart)
          /\ WF_vars(Exit(b) /\ Apart)

----------------------------------------------------------------------------
(* Properties.                                                             *)

\* Connections, brokers and clients are well formed, a handler without a
\* connection holds no request, and a broker that has exited has no handler,
\* one that waits for its handlers no connection that none will ever accept.
TypeOK ==
    /\ phase \in [Brokers -> {"up", "stopping", "draining", "down"}]
    /\ \A l \in Links :
          /\ link[l].conn \in {"none", "open", "dead"}
          /\ link[l].at \in {"none", "queued"} \cup Handling
          /\ At(l, "none") => link[l].req = None /\ link[l].job = None
          /\ phase[BrokerOf(l)] = "down" => At(l, "none")
          /\ phase[BrokerOf(l)] = "draining" => ~At(l, "queued")
    /\ \A b \in Brokers, p \in Partitions : store[b][p] \in Seq(Message)
    /\ metadata \in {"none", "full", "bare"}
    /\ doing \in {"idle", "closed", "fetching", "route", "sending"}
    /\ acked \subseteq Message

\* A broker that was told to stop exits, however busy its clients keep it.
ShutdownCompletes == \A b \in Fallible : phase[b] = "stopping" ~> phase[b] = "down"

\* No client waits for ever for an answer, though it has no deadline of its
\* own and a broker that is stopping writes its answers into the void.
ClientsReturn ==
    /\ doing \in {"fetching", "route", "sending"} ~> doing = "idle"
    /\ asking ~> ~asking

Copies(m) ==
    {c \in Brokers \X Partitions \X (1..MaxSends) :
        c[3] \in DOMAIN store[c[1]][c[2]] /\ store[c[1]][c[2]][c[3]] = m}

\* A message whose Send returned without an error is in the log of the leader
\* of its key's partition, where consumers look for it.
AckedAtLeader ==
    \A m \in acked :
        LET p == Hash[m.key] % NumPartitions
        IN  \E c \in Copies(m) : c[1] = Leader[p] /\ c[2] = p

\* No message is stored twice, whatever answers are lost.
AtMostOnce == \A n \in 1..MaxSends, k \in Keys : Cardinality(Copies([n |-> n, key |-> k])) <= 1

\* The messages of a key are in one log, in the order in which they were sent.
PerKeyOrder ==
    \A m1, m2 \in Message : \A c \in Copies(m1), d \in Copies(m2) :
        m1.key = m2.key /\ m1.n < m2.n => c[1] = d[1] /\ c[2] = d[2] /\ c[3] < d[3]
=============================================================================
