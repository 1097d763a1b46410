----------------------------- MODULE Partition -----------------------------
(***************************************************************************)
(* One partition of a topic: a directory of log segments, each a .log file *)
(* of length-prefixed messages and a .index file of 8-byte entries, and    *)
(* the in-memory handles the broker keeps on them (core/partition.go,      *)
(* core/log.go, core/log_index.go).                                        *)
(*                                                                         *)
(* Append and rollover run under the partition's write lock, so each is    *)
(* one step; the interleaving of readers is the subject of                 *)
(* PartitionReads.  What is not atomic is the sequence of four file writes *)
(* of one append (length prefix, payload, index offset, index position):   *)
(* any of them can fail, and the process can die between any two of them.  *)
(* A restart follows a crash in the same step, because LoadPartition only  *)
(* reads the files that the crash left behind.                             *)
(***************************************************************************)
EXTENDS Integers, Sequences, FiniteSets

CONSTANTS
    Lengths,        \* lengths of a serialized message
    RolloverLimits, \* values the configuration may give as rolloverLimit
    MaxSize,        \* the limit NewPartition puts in the place of 0
    FailPoints,     \* w: file write number w + 1 of an append may return an error
    CrashPoints,    \* w: the process may die after w file writes of an append
    MaxAppends      \* bound: number of append calls

ASSUME PartitionAssumption ==
    /\ Lengths \subseteq Nat \ {0}
    /\ RolloverLimits \subseteq Nat
    /\ MaxSize \in Nat \ {0}
    /\ FailPoints \subseteq 0..3
    /\ CrashPoints \subseteq 0..4
    /\ MaxAppends \in Nat

VARIABLES
    disk,     \* base offset of a segment -> contents of its two files
    logs,     \* p.logs: handles, in the order ReadAt scans them
    active,   \* index in logs of p.activeLog
    maxSize,  \* p.maxSize
    attempts, \* number of append calls so far; makes every message unique
    acked     \* appends that returned without an error

vars == <<disk, logs, active, maxSize, attempts, acked>>

----------------------------------------------------------------------------
PrefixWidth == 8

Message == [id : Nat, len : Lengths]

\* recs: byte position of a complete record -> its message;
\* idx: the index file as its sequence of 4-byte words.
EmptySegment == [bytes |-> 0, recs |-> <<>>, idx |-> <<>>]

Count(seg) == Len(seg.idx) \div 2

\* Mutant of LoadLog: nextOffset is the offset of the last entry.
LoadLog_LastEntry(d, base) ==
    [base |-> base, size |-> d[base].bytes, next |-> Count(d[base]) - 1]

\* A handle over the files of the segment at base: size from the log file,
\* nextOffset from the number of complete index entries.
LoadLog(d, base) ==
    [base |-> base, size |-> d[base].bytes, next |-> Count(d[base])]

\* NewLog opens the segment if its file exists and creates it otherwise; a
\* segment just created loads as size 0, nextOffset 0.
Created(d, base) ==
    [b \in DOMAIN d \cup {base} |-> IF b \in DOMAIN d THEN d[b] ELSE EmptySegment]

----------------------------------------------------------------------------
(* Reading.  A read returns the set holding the message, or {} for an      *)
(* error.                                                                  *)

IndexRead(seg, n) ==
    IF 2 * n + 2 <= Len(seg.idx) /\ seg.idx[2 * n + 1] = n
    THEN {seg.idx[2 * n + 2]} ELSE {}

\* A position that is not the start of a complete record does not decode.
ReadAtByte(seg, pos) == IF pos \in DOMAIN seg.recs THEN {seg.recs[pos]} ELSE {}

LogReadAt(seg, n) == UNION {ReadAtByte(seg, pos) : pos \in IndexRead(seg, n)}

Covers(h, offset) == h.base <= offset /\ offset < h.base + h.next

FirstCovering(hs, offset) ==
    {i \in DOMAIN hs : /\ Covers(hs[i], offset)
                       /\ \A j \in DOMAIN hs : j < i => ~Covers(hs[j], offset)}

ReadAt(d, hs, offset) ==
    UNION {LogReadAt(d[hs[i].base], offset - hs[i].base) : i \in FirstCovering(hs, offset)}

----------------------------------------------------------------------------
(* Writing.                                                                *)

\* The segment after the first w writes of an append through handle h.  The
\* log file is O_APPEND, so the record lands at the end of the file whatever
\* size the handle remembers; the index stores what the handle remembers.
Written(seg, h, m, offset, w) ==
    [bytes |-> seg.bytes + (IF w >= 1 THEN PrefixWidth ELSE 0)
                         + (IF w >= 2 THEN m.len ELSE 0),
     recs  |-> IF w < 2 THEN seg.recs
               ELSE [p \in DOMAIN seg.recs \cup {seg.bytes} |->
                        IF p = seg.bytes THEN m ELSE seg.recs[p]],
     idx   |-> IF w = 4 THEN Append(Append(seg.idx, offset), h.size)
               ELSE IF w = 3 THEN Append(seg.idx, offset) ELSE seg.idx]

\* Mutant of Advanced: the length prefix is left out of the size.
Advanced_NoPrefix(h, m, next, w) ==
    IF w < 2 THEN h ELSE [h EXCEPT !.size = h.size + m.len, !.next = next]

\* The handle is advanced after the payload and before the index is written.
Advanced(h, m, next, w) ==
    IF w < 2 THEN h
    ELSE [h EXCEPT !.size = h.size + m.len + PrefixWidth, !.next = next]

ShouldRoll == logs[active].size >= maxSize

\* Mutant of RollBase: the offset relative to the segment names the next one.
RollBase_Relative == logs[active].next

RollBase == logs[active].base + logs[active].next

\* Disk, handles and active log when an append comes to write: after the
\* rollover, if one is due.
Rolled ==
    IF ShouldRoll
    THEN LET d == Created(disk, RollBase)
         IN  [disk |-> d, logs |-> Append(logs, LoadLog(d, RollBase)),
              active |-> Len(logs) + 1]
    ELSE [disk |-> disk, logs |-> logs, active |-> active]

Target == Rolled.logs[Rolled.active]

DiskAfter(m, offset, w) ==
    [Rolled.disk EXCEPT ![Target.base] = Written(@, Target, m, offset, w)]

LogsAfter(m, next, w) ==
    [Rolled.logs EXCEPT ![Rolled.active] = Advanced(@, m, next, w)]

\* os.ReadDir: the segments in file-name order, which is base offset order.
ReadDir(bases) ==
    {f \in [1..Cardinality(bases) -> bases] :
        /\ \A b \in bases : \E i \in DOMAIN f : f[i] = b
        /\ \A i, j \in DOMAIN f : i < j => f[i] < f[j]}

\* Mutant of ActiveLog: the first segment found is the active one.
ActiveLog_First(hs) ==
    CHOOSE i \in DOMAIN hs : \A j \in DOMAIN hs : hs[i].base <= hs[j].base

\* The handle with the largest base offset.
ActiveLog(hs) ==
    CHOOSE i \in DOMAIN hs : \A j \in DOMAIN hs : hs[j].base <= hs[i].base

\* LoadPartition takes rolloverLimit as it is: only NewPartition replaces 0.
LoadPartition(d) ==
    \E files \in ReadDir(DOMAIN d) :
        /\ logs' = [i \in DOMAIN files |-> LoadLog(d, files[i])]
        /\ active' = ActiveLog(logs')
        /\ maxSize' \in RolloverLimits

----------------------------------------------------------------------------
(* Steps.                                                                  *)

NewMessage(len) == [id |-> attempts + 1, len |-> len]

Attempt == /\ attempts < MaxAppends
           /\ attempts' = attempts + 1

\* NewPartition on an empty directory.
Init ==
    /\ disk = [b \in {0} |-> EmptySegment]
    /\ logs = <<[base |-> 0, size |-> 0, next |-> 0]>>
    /\ active = 1
    /\ \E limit \in RolloverLimits : maxSize = IF limit = 0 THEN MaxSize ELSE limit
    /\ attempts = 0
    /\ acked = {}

\* All four writes succeed: the caller gets the offset relative to the segment.
AppendMsg(m) ==
    /\ Attempt
    /\ disk' = DiskAfter(m, Target.next, 4)
    /\ logs' = LogsAfter(m, Target.next + 1, 4)
    /\ active' = Rolled.active
    /\ acked' = acked \cup {[offset |-> Target.base + Target.next,
                             returned |-> Target.next, msg |-> m]}
    /\ UNCHANGED maxSize

\* Write number w + 1 returns an error, and so does Append.
AppendFails(m, w) ==
    /\ Attempt
    /\ disk' = DiskAfter(m, Target.next, w)
    /\ logs' = LogsAfter(m, Target.next + 1, w)
    /\ active' = Rolled.active
    /\ UNCHANGED <<maxSize, acked>>

\* NewLog fails during the rollover, before or after it created the log file.
RolloverFails ==
    /\ ShouldRoll
    /\ Attempt
    /\ disk' \in {disk, Created(disk, RollBase)}
    /\ UNCHANGED <<logs, active, maxSize, acked>>

\* The process dies after w writes of an append and the broker is restarted.
AppendCrash(m, w) ==
    /\ Attempt
    /\ disk' = DiskAfter(m, Target.next, w)
    /\ LoadPartition(disk')
    /\ UNCHANGED acked

\* The process stops between two appends and the broker is restarted.
Restart ==
    /\ LoadPartition(disk)
    /\ UNCHANGED <<disk, attempts, acked>>

Next ==
    \/ \E len \in Lengths :
          \/ AppendMsg(NewMessage(len))
          \/ \E w \in FailPoints : AppendFails(NewMessage(len), w)
          \/ \E w \in CrashPoints : AppendCrash(NewMessage(len), w)
    \/ RolloverFails
    \/ Restart

Spec == Init /\ [][Next]_vars

----------------------------------------------------------------------------
(* Properties.                                                             *)

IsSegment(seg) ==
    /\ seg = [bytes |-> seg.bytes, recs |-> seg.recs, idx |-> seg.idx]
    /\ seg.bytes \in Nat
    /\ DOMAIN seg.recs \subseteq Nat
    /\ seg.recs \in [DOMAIN seg.recs -> Message]
    /\ seg.idx \in Seq(Nat)

Handle == [base : Nat, size : Nat, next : Nat]

DiskOK(d) ==
    /\ DOMAIN d \subseteq Nat
    /\ IsFiniteSet(DOMAIN d)
    /\ d = [b \in DOMAIN d |-> d[b]]
    /\ \A b \in DOMAIN d : IsSegment(d[b])

HandlesOK(d, hs, a) ==
    /\ hs \in Seq(Handle)
    /\ \A i \in DOMAIN hs : hs[i].base \in DOMAIN d
    /\ a \in DOMAIN hs

\* The type invariant: segments, handles and acknowledgements are well formed,
\* every handle is on a segment that exists, and there is an active log.
TypeOK ==
    /\ DiskOK(disk)
    /\ HandlesOK(disk, logs, active)
    /\ maxSize \in Nat
    /\ attempts \in 0..MaxAppends
    /\ acked \subseteq [offset : Nat, returned : Nat, msg : Message]

\* Every message whose Append returned without an error is what ReadAt returns
\* at the offset it was stored at, across rollovers, failed appends, crashes
\* and restarts.  In particular no two of them share an offset.
AckedReadable ==
    \A a \in acked : ReadAt(disk, logs, a.offset) = {a.msg}

\* The offset that Append returned reads back the message (the property the
\* topic tests check on a partition that never rolled over).
ReturnedOffsetReadable ==
    \A a \in acked : ReadAt(disk, logs, a.returned) = {a.msg}

EndOffset == RollBase

Content == [i \in 1..EndOffset |-> ReadAt(disk, logs, i - 1)]

AbstractLog == INSTANCE MessageLog WITH
    NoMessage <- {},
    log <- Content,
    acked <- {<<a.offset, {a.msg}>> : a \in acked}

\* The partition implements an append-only message log: the offsets up to the
\* end of the active log are exactly the readable ones, an append that
\* succeeds adds one message at the end, an append that failed or crashed
\* adds one or none, and rollovers and restarts change nothing.
ImplementsMessageLog == AbstractLog!Spec

----------------------------------------------------------------------------
(* The inductive invariant behind AckedReadable and ImplementsMessageLog.  *)
(* It holds when no append is cut off between the two words of its index   *)
(* entry and none fails after its first write: 3 \notin CrashPoints and    *)
(* FailPoints \subseteq {0}.                                               *)

\* Entry n of the index describes offset n and points at a complete record.
IntactSegment(seg) ==
    /\ Len(seg.idx) = 2 * Count(seg)
    /\ \A n \in 0..(Count(seg) - 1) :
          seg.idx[2 * n + 1] = n /\ seg.idx[2 * n + 2] \in DOMAIN seg.recs
    /\ \A p \in DOMAIN seg.recs : p < seg.bytes

IntactDisk(d) == \A b \in DOMAIN d : IntactSegment(d[b])

\* No two segments hold the same offset.
DisjointSegments(d) ==
    \A b, c \in DOMAIN d : b < c => b + Count(d[b]) <= c

\* The active log is the last handle and agrees with its files.
ActiveCurrent(d, hs, a) ==
    /\ a = Len(hs)
    /\ hs[a].size = d[hs[a].base].bytes
    /\ hs[a].next = Count(d[hs[a].base])

\* No handle reaches past its index, and every stored entry has a handle.
HandlesCover(d, hs) ==
    /\ \A i \in DOMAIN hs : hs[i].next <= Count(d[hs[i].base])
    /\ \A b \in DOMAIN d : Count(d[b]) > 0 =>
          \E i \in DOMAIN hs : hs[i].base = b /\ hs[i].next = Count(d[b])

\* Some segment's index entry for the offset of a points at the message of a.
Stored(d, a) ==
    \E b \in DOMAIN d :
        /\ b <= a.offset /\ a.offset < b + Count(d[b])
        /\ d[b].recs[d[b].idx[2 * (a.offset - b) + 2]] = a.msg

\* A segment past the active log is what a failed rollover left behind: it is
\* empty, and the next append will roll onto it.
OnlyRolledPast ==
    \A b \in DOMAIN disk :
        b > logs[active].base => /\ b = RollBase
                                 /\ Count(disk[b]) = 0
                                 /\ ShouldRoll

\* The files and the handles of a partition agree after every append,
\* rollover, crash and restart (the invariant AckedReadable rests on).
DurableInv ==
    /\ IntactDisk(disk)
    /\ DisjointSegments(disk)
    /\ ActiveCurrent(disk, logs, active)
    /\ HandlesCover(disk, logs)
    /\ \A a \in acked : Stored(disk, a)
    /\ OnlyRolledPast
=============================================================================
