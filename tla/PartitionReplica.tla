-------------------------- MODULE PartitionReplica --------------------------
(***************************************************************************)
(* The copy of a partition that one broker holds, as its leader or as a    *)
(* replica (core/broker.go, core/replica_fetcher.go, core/broker_client.go,*)
(* AppendReplicated in core/partition.go and core/log.go).                 *)
(*                                                                         *)
(* A leader's copy is Partition as it is.  A replica has two objects on    *)
(* the same files: the one LoadTopics put into b.topics, which serves      *)
(* reads, and a second one that StartReplication opens for its fetcher,    *)
(* the only one that is written.  The fetcher runs from the start of the   *)
(* broker; a replica created later gets its fetcher at the next start.     *)
(*                                                                         *)
(* The leader's side of FetchLog is not in the repository: no handler has  *)
(* its message type.  The request names the replica and no offset, so the  *)
(* leader is taken to remember what it sent: it sends its messages in      *)
(* offset order, each at most once, and may leave some out (log.go:129).   *)
(***************************************************************************)
EXTENDS Partition

CONSTANTS
    ReplicaFaults, \* w: an append of the fetcher may fail or be cut off after w writes
    LeaderEnd,     \* bound: messages of the leader
    MaxBatch       \* bound: messages in one answer to FetchLog

ASSUME ReplicaAssumption ==
    /\ ReplicaFaults \subseteq 0..4
    /\ LeaderEnd \in Nat
    /\ MaxBatch \in Nat

VARIABLES
    role,    \* what this broker is for the partition: "leader" or "replica"
    served,  \* the handles that Consume reads through
    fetcher, \* "fetch", "closed" (fetch again, on a closed connection),
             \* "append" or "ended"
    batch,   \* messages of the last answer that are still to be appended
    sent,    \* offset after the last message the leader sent
    saved    \* replicated messages that were there when the broker started

replicaVars == <<role, served, fetcher, batch, sent, saved>>

----------------------------------------------------------------------------
CopyInit ==
    /\ Init
    /\ role \in {"leader", "replica"}
    /\ served = logs
    /\ fetcher = "ended"
    /\ batch = <<>>
    /\ sent = 0
    /\ saved = {}

\* Consume reads through the handles that Produce writes through.
LeaderStep ==
    /\ role = "leader"
    /\ Next
    /\ served' = logs'
    /\ UNCHANGED <<role, fetcher, batch, sent, saved>>

\* LoadTopics and StartReplication open the same files one after the other.
StartReplication ==
    /\ LoadPartition(disk')
    /\ served' = logs'
    /\ fetcher' = "fetch"
    /\ batch' = <<>>
    /\ saved' = acked

\* The message of the leader at an offset.
LeaderMessage(offset, len) == [id |-> offset + 1, len |-> len]

\* Answers to FetchLog: messages that were not sent before, in offset order.
Answers ==
    UNION {{b \in [1..n -> [offset : sent..(LeaderEnd - 1), len : Lengths]] :
              \A i, j \in 1..n : i < j => b[i].offset < b[j].offset} : n \in 0..MaxBatch}

\* The leader answers with messages, perhaps none.
FetchLog ==
    /\ role = "replica" /\ fetcher = "fetch"
    /\ \E answer \in Answers :
          /\ batch' = answer
          /\ sent' = IF answer = <<>> THEN sent ELSE answer[Len(answer)].offset + 1
    /\ fetcher' = "append"
    /\ UNCHANGED <<vars, role, served, saved>>

\* The leader has no message: the fetcher asks again at once, but FetchLog has
\* closed the connection that connect keeps.
FetchLogNotFound ==
    /\ role = "replica" /\ fetcher = "fetch"
    /\ fetcher' = "closed"
    /\ UNCHANGED <<vars, role, served, batch, sent, saved>>

\* Any other error ends the fetcher.
FetchLogFails ==
    /\ role = "replica" /\ fetcher \in {"fetch", "closed"}
    /\ fetcher' = "ended"
    /\ UNCHANGED <<vars, role, served, batch, sent, saved>>

Offset == Head(batch).offset

Fetched == LeaderMessage(Offset, Head(batch).len)

Appending == role = "replica" /\ fetcher = "append" /\ batch # <<>>

\* Mutant of AppendReplicated: the message gets the next offset of the replica.
AppendReplicated_OwnOffset ==
    /\ Appending
    /\ Attempt
    /\ disk' = DiskAfter(Fetched, Target.next, 4)
    /\ logs' = LogsAfter(Fetched, Target.next + 1, 4)
    /\ active' = Rolled.active
    /\ acked' = acked \cup {[offset |-> Offset, returned |-> Offset, msg |-> Fetched]}
    /\ batch' = Tail(batch)
    /\ UNCHANGED <<maxSize, role, served, fetcher, sent, saved>>

\* Mutant of AppendReplicated: the index gets the size after the message.
AppendReplicated_SizeAfter ==
    /\ Appending
    /\ Attempt
    /\ disk' = [Rolled.disk EXCEPT ![Target.base] =
                   Written(@, [Target EXCEPT !.size = @ + Fetched.len + PrefixWidth],
                           Fetched, Offset, 4)]
    /\ logs' = LogsAfter(Fetched, Offset + 1, 4)
    /\ active' = Rolled.active
    /\ acked' = acked \cup {[offset |-> Offset, returned |-> Offset, msg |-> Fetched]}
    /\ batch' = Tail(batch)
    /\ UNCHANGED <<maxSize, role, served, fetcher, sent, saved>>

\* partition.AppendReplicated: the index and nextOffset take the leader's
\* offset, which is absolute.
AppendReplicated ==
    /\ Appending
    /\ Attempt
    /\ disk' = DiskAfter(Fetched, Offset, 4)
    /\ logs' = LogsAfter(Fetched, Offset + 1, 4)
    /\ active' = Rolled.active
    /\ acked' = acked \cup {[offset |-> Offset, returned |-> Offset, msg |-> Fetched]}
    /\ batch' = Tail(batch)
    /\ UNCHANGED <<maxSize, role, served, fetcher, sent, saved>>

\* A write, or the rollover before it, fails: the fetcher returns the error.
AppendReplicatedFails ==
    /\ Appending
    /\ Attempt
    /\ \/ \E w \in ReplicaFaults \ {4} :
             /\ disk' = DiskAfter(Fetched, Offset, w)
             /\ logs' = LogsAfter(Fetched, Offset + 1, w)
             /\ active' = Rolled.active
       \/ /\ ShouldRoll
          /\ disk' \in {disk, Created(disk, RollBase)}
          /\ UNCHANGED <<logs, active>>
    /\ fetcher' = "ended"
    /\ batch' = <<>>
    /\ UNCHANGED <<maxSize, acked, role, served, sent, saved>>

\* The broker dies after w writes and is started again.
AppendReplicatedCrash(w) ==
    /\ Appending
    /\ Attempt
    /\ disk' = DiskAfter(Fetched, Offset, w)
    /\ StartReplication
    /\ UNCHANGED <<acked, role, sent>>

\* The broker dies and is started again.  It dies by itself when a batch is
\* done: the fetcher reads its delay through b.cfg, which nothing sets.
RestartReplica ==
    /\ role = "replica"
    /\ UNCHANGED <<disk, attempts, acked, role, sent>>
    /\ StartReplication

ReplicaStep ==
    \/ FetchLog \/ FetchLogNotFound \/ FetchLogFails
    \/ AppendReplicated \/ AppendReplicatedFails
    \/ \E w \in ReplicaFaults : AppendReplicatedCrash(w)
    \/ RestartReplica

CopyNext == LeaderStep \/ ReplicaStep

CopySpec == CopyInit /\ [][CopyNext]_<<vars, replicaVars>>

----------------------------------------------------------------------------
(* Properties.                                                             *)

\* A step never changes or hides a message that a reader could already get,
\* from a leader or from a replica: what Consume returns at an offset it
\* returns for ever, whatever append of the broker or of its fetcher fails or
\* crashes in between and however often the partition is reloaded.
StableReads ==
    [][\A o \in 0..MaxAppends :
          ReadAt(disk, served, o) \subseteq ReadAt(disk', served', o)]_<<vars, replicaVars>>

\* A replica never serves a message at an offset that is not the leader's
\* message at that offset, through rollovers, messages left out, failed
\* appends, crashes and restarts: it serves that message or an error.
ReplicaAgrees ==
    role = "replica" =>
        \A o \in 0..LeaderEnd : \A m \in ReadAt(disk, served, o) : m.id = o + 1

\* The messages of the first segment up to the first one that was left out.
Unbroken(copies) ==
    {a \in copies :
        /\ \E p \in DOMAIN disk[0].recs : disk[0].recs[p] = a.msg
        /\ \A o \in 0..a.offset : \E c \in copies : c.offset = o}

\* A replica that is started again serves what it had replicated into its
\* first segment, as far as no message is missing before it, whatever its
\* fetcher goes on to append, and however it ends.
UnbrokenServed ==
    role = "replica" =>
        \A a \in Unbroken(saved) : ReadAt(disk, served, a.offset) = {a.msg}

\* Everything that was replicated is served after the next start.
ReplicatedServed ==
    role = "replica" =>
        \A a \in saved : ReadAt(disk, served, a.offset) = {a.msg}
=============================================================================
