--------------------------- MODULE OffsetManager ---------------------------
(***************************************************************************)
(* The committed offsets of consumer groups: a map in memory and a log on  *)
(* disk, the topic __consumer_offsets (core/offset_manager.go).            *)
(*                                                                         *)
(* CommitOffset sets the map under a mutex, releases it, and then appends  *)
(* the entry to the log; the request is acknowledged even if the append    *)
(* failed.  A restart rebuilds the map by replaying the log.  Requests of  *)
(* different connections run concurrently; the requests of one connection  *)
(* are handled one after the other.                                        *)
(*                                                                         *)
(* The log is the one partition of the topic, Partition with its failing   *)
(* writes, crashes inside an append and rollovers.  A key stands for       *)
(* (group, topic, partition).                                              *)
(***************************************************************************)
EXTENDS Partition

CONSTANTS
    Committers,  \* connections that commit offsets
    Keys,        \* (group, topic, partition)
    KeyOf,       \* the key a committer commits for
    MaxOffset    \* bound: largest offset committed

ASSUME OffsetAssumption ==
    /\ KeyOf \in [Committers -> Keys]
    /\ MaxOffset \in Nat

NoOffset == -1  \* no entry in the map: Offset returns not found

VARIABLES
    offsets, \* om.offsets
    pending, \* committer -> offset whose entry is still to be appended, or NoOffset
    entries, \* id of a message of the log -> the key and the offset encoded in it
    safe,    \* key -> offset of its last entry that was written to the log completely
    dirty    \* keys whose last commit could not be appended to the log

offsetVars == <<offsets, pending, entries, safe, dirty>>

----------------------------------------------------------------------------
(* Restart.                                                                *)

\* Mutant of Visited: the last entry of a segment is not visited.
Visited_ButLast(d, b) ==
    {o \in b..(LoadLog(d, b).next - 2) : \A n \in b..o : LogReadAt(d[b], n) # {}}

\* restore visits the offsets of a segment from baseOffset, which is absolute,
\* while they are below nextOffset, which counts the entries of the segment,
\* and leaves the segment at the first that it cannot read.
Visited(d, b) ==
    {o \in b..(LoadLog(d, b).next - 1) : \A n \in b..o : LogReadAt(d[b], n) # {}}

\* Mutant of ReplayOrder: the entries of a segment are visited from its end.
ReplayOrder_Reversed(p, q) == p[1] < q[1] \/ (p[1] = q[1] /\ p[2] >= q[2])

ReplayOrder(p, q) == p[1] < q[1] \/ (p[1] = q[1] /\ p[2] <= q[2])

\* The entry that restore decodes at a place <<base, offset>>.
EntryAt(d, es, p) == es[(CHOOSE m \in LogReadAt(d[p[1]], p[2]) : TRUE).id]

Replayed(d, es, k) ==
    {p \in UNION {{b} \X Visited(d, b) : b \in DOMAIN d} : EntryAt(d, es, p).key = k}

\* What restore leaves in the map for a key: the last entry replayed wins.
Restored(d, es, k) ==
    IF Replayed(d, es, k) = {} THEN NoOffset
    ELSE EntryAt(d, es, CHOOSE p \in Replayed(d, es, k) :
                           \A q \in Replayed(d, es, k) : ReplayOrder(q, p)).offset

\* Requests in flight are lost with their connections.
Restore ==
    /\ offsets' = [k \in Keys |-> Restored(disk', entries', k)]
    /\ pending' = [c \in Committers |-> NoOffset]
    /\ dirty' = {}

----------------------------------------------------------------------------
(* Steps.                                                                  *)

OffsetInit ==
    /\ Init
    /\ offsets = [k \in Keys |-> NoOffset]
    /\ pending = [c \in Committers |-> NoOffset]
    /\ entries = <<>>
    /\ safe = [k \in Keys |-> NoOffset]
    /\ dirty = {}

\* Mutant of UpdateOffset: the map holds the next offset to consume instead.
UpdateOffset_Next(c) ==
    /\ pending[c] = NoOffset
    /\ \E o \in 0..MaxOffset :
          /\ offsets' = [offsets EXCEPT ![KeyOf[c]] = o + 1]
          /\ pending' = [pending EXCEPT ![c] = o]
    /\ UNCHANGED <<vars, entries, safe, dirty>>

\* Mutant of UpdateOffset: the maps of the group are made anew every time.
UpdateOffset_Remakes(c) ==
    /\ pending[c] = NoOffset
    /\ \E o \in 0..MaxOffset :
          /\ offsets' = [k \in Keys |-> IF k = KeyOf[c] THEN o ELSE NoOffset]
          /\ pending' = [pending EXCEPT ![c] = o]
    /\ UNCHANGED <<vars, entries, safe, dirty>>

\* CommitOffset, first half: the map, under the mutex.  The offset may be the
\* same as before, or a smaller one.
UpdateOffset(c) ==
    /\ pending[c] = NoOffset
    /\ \E o \in 0..MaxOffset :
          /\ offsets' = [offsets EXCEPT ![KeyOf[c]] = o]
          /\ pending' = [pending EXCEPT ![c] = o]
    /\ UNCHANGED <<vars, entries, safe, dirty>>

\* The message that a commit hands to the partition's Append.
Encode(c) ==
    /\ pending[c] # NoOffset
    /\ entries' = Append(entries, [key |-> KeyOf[c], offset |-> pending[c]])

Logged(c) == [safe EXCEPT ![KeyOf[c]] = pending[c]]

\* CommitOffset, second half: the log, without the mutex.
PersistToLog(c) ==
    /\ Encode(c)
    /\ \E len \in Lengths : AppendMsg(NewMessage(len))
    /\ safe' = Logged(c)
    /\ pending' = [pending EXCEPT ![c] = NoOffset]
    /\ dirty' = dirty \ {KeyOf[c]}
    /\ UNCHANGED offsets

\* The append fails, with what it has written: a warning, and the commit is
\* acknowledged all the same.
PersistToLogFails(c) ==
    /\ Encode(c)
    /\ \/ \E len \in Lengths, w \in FailPoints : AppendFails(NewMessage(len), w)
       \/ RolloverFails
    /\ pending' = [pending EXCEPT ![c] = NoOffset]
    /\ dirty' = dirty \cup {KeyOf[c]}
    /\ UNCHANGED <<offsets, safe>>

\* The broker dies after w writes of the append and is started again.
PersistToLogCrash(c) ==
    /\ Encode(c)
    /\ \E len \in Lengths, w \in CrashPoints :
          /\ AppendCrash(NewMessage(len), w)
          /\ safe' = IF w = 4 THEN Logged(c) ELSE safe
    /\ Restore

\* The broker dies between two appends and is started again.
RestartBroker ==
    /\ Restart
    /\ UNCHANGED <<entries, safe>>
    /\ Restore

OffsetNext ==
    \/ \E c \in Committers : \/ UpdateOffset(c) \/ PersistToLog(c)
                             \/ PersistToLogFails(c) \/ PersistToLogCrash(c)
    \/ RestartBroker

OffsetSpec == OffsetInit /\ [][OffsetNext]_<<vars, offsetVars>>

----------------------------------------------------------------------------
(* Properties.                                                             *)

\* Map, requests and entries are well formed, and every message handed to the
\* log has its entry.
OffsetTypeOK ==
    /\ offsets \in [Keys -> NoOffset..MaxOffset]
    /\ pending \in [Committers -> NoOffset..MaxOffset]
    /\ entries \in Seq([key : Keys, offset : 0..MaxOffset])
    /\ Len(entries) = attempts
    /\ safe \in [Keys -> NoOffset..MaxOffset]
    /\ dirty \subseteq Keys

\* A broker that is started again, after any number of failed commits and
\* crashes inside a commit, finds for every group the last offset whose entry
\* was written to the log, and no older one.
AckedCommitSurvives == \A k \in Keys : Restored(disk, entries, k) = safe[k]

Quiet(k) == \A c \in Committers : KeyOf[c] = k => pending[c] = NoOffset

\* Memory and disk agree: when no commit for a key is in progress and its last
\* one reached the log, the map holds what a restart would restore.
MemoryMatchesDisk ==
    \A k \in Keys : Quiet(k) /\ k \notin dirty => offsets[k] = Restored(disk, entries, k)

Store == INSTANCE OffsetStore WITH value <- offsets

\* The map and the log together implement OffsetStore: a commit changes what
\* one key shows, and a crash sets no key back past a commit that reached the
\* log and brings up no offset other than that one or the one shown.
ImplementsOffsetStore == Store!Spec
=============================================================================
