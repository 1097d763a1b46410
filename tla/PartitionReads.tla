--------------------------- MODULE PartitionReads ---------------------------
(***************************************************************************)
(* Concurrent readers and one writer of a partition, at the grain of the   *)
(* file operations of a read (core/partition.go ReadAt, core/log.go        *)
(* readAtByte, core/log_index.go Read).  Readers hold the partition's      *)
(* RWMutex in read mode, so several of them run these steps at once on the *)
(* same *os.File, whose cursor Seek and Read share.  Only the payload is   *)
(* read with ReadAt, which takes a position of its own.                    *)
(*                                                                         *)
(* A message is identified by its offset.  A prefix read at a place that   *)
(* is not the start of a record is eight bytes of something else: the      *)
(* allocation of that many bytes panics, or the payload read fails.        *)
(***************************************************************************)
EXTENDS Integers, Sequences, FiniteSets

CONSTANTS
    Readers,     \* goroutines that call ReadAt
    Lengths,     \* lengths of a serialized message
    Limit,       \* rollover limit, in bytes
    MaxAppends   \* bound: number of appends

ASSUME ReadsAssumption ==
    /\ IsFiniteSet(Readers)
    /\ Lengths \subseteq Nat \ {0}
    /\ Limit \in Nat \ {0}
    /\ MaxAppends \in Nat

VARIABLES
    segs,   \* the segments: base offset, records [pos, len] and file size
    idxCur, \* segment -> cursor of its index file, in 4-byte words
    logCur, \* segment -> cursor of its log file, in bytes
    rd,     \* reader -> the state of its call to ReadAt
    wr,     \* state of the writer
    up      \* the broker process is alive

vars == <<segs, idxCur, logCur, rd, wr, up>>

----------------------------------------------------------------------------
Offsets == 0..MaxAppends

NewSegment(base) == [base |-> base, recs |-> <<>>, bytes |-> 0]

Covers(seg, o) == seg.base <= o /\ o < seg.base + Len(seg.recs)

\* The index file of a segment: words 2n and 2n + 1 are the entry of record n.
Words(seg) == 2 * Len(seg.recs)

Word(seg, j) == IF j % 2 = 0 THEN j \div 2 ELSE seg.recs[(j \div 2) + 1].pos

RecordAt(seg, pos) == {k \in DOMAIN seg.recs : seg.recs[k].pos = pos}

\* What ReadAt returns when it does not return the message at some offset.
NotFound == -1
Failed == -2

Idle == [pc |-> "idle", want |-> 0, seg |-> 0, pos |-> 0, prefix |-> 0,
         got |-> NotFound, alone |-> TRUE]

OnFiles == {"readOffset", "readPos", "seekLog", "readPrefix", "readPayload"}

Init ==
    /\ segs = <<NewSegment(0)>>
    /\ idxCur = <<0>>
    /\ logCur = <<0>>
    /\ rd = [r \in Readers |-> Idle]
    /\ wr = "idle"
    /\ up = TRUE

----------------------------------------------------------------------------
(* sync.RWMutex: readers share, a pending writer keeps new readers out.    *)

Holding == {r \in Readers : rd[r].pc \notin {"idle", "wait"}}

\* A call of ReadAt arrives (Broker.Consume, on behalf of any client).
Call(r) ==
    /\ up
    /\ rd[r].pc = "idle"
    /\ \E o \in Offsets : rd' = [rd EXCEPT ![r] = [Idle EXCEPT !.pc = "wait", !.want = o]]
    /\ UNCHANGED <<segs, idxCur, logCur, wr, up>>

\* Mutant of RLock: a pending writer does not keep new readers out.
RLock_Overtakes(r) ==
    /\ up
    /\ rd[r].pc = "wait"
    /\ wr \in {"idle", "wait"}
    /\ rd' = [rd EXCEPT ![r].pc = "scan"]
    /\ UNCHANGED <<segs, idxCur, logCur, wr, up>>

RLock(r) ==
    /\ up
    /\ rd[r].pc = "wait"
    /\ wr = "idle"
    /\ rd' = [rd EXCEPT ![r].pc = "scan"]
    /\ UNCHANGED <<segs, idxCur, logCur, wr, up>>

\* The deferred RUnlock, whatever the read returned.
RUnlock(r) ==
    /\ up
    /\ rd[r].pc = "done"
    /\ rd' = [rd EXCEPT ![r] = Idle]
    /\ UNCHANGED <<segs, idxCur, logCur, wr, up>>

----------------------------------------------------------------------------
(* The steps of a read under the read lock.                                *)

Return(r, result) ==
    rd' = [rd EXCEPT ![r] = [Idle EXCEPT !.pc = "done", !.want = rd[r].want,
                                         !.got = result, !.alone = rd[r].alone]]

\* The scan of p.logs and the Seek of LogIndex.Read.
SeekIndex(r) ==
    /\ up
    /\ rd[r].pc = "scan"
    /\ \/ /\ \A s \in DOMAIN segs : ~Covers(segs[s], rd[r].want)
          /\ Return(r, NotFound)
          /\ UNCHANGED idxCur
       \/ \E s \in DOMAIN segs :
             LET others == {q \in Readers \ {r} : rd[q].pc \in OnFiles /\ rd[q].seg = s}
             IN  /\ Covers(segs[s], rd[r].want)
                 /\ idxCur' = [idxCur EXCEPT ![s] = 2 * (rd[r].want - segs[s].base)]
                 /\ rd' = [q \in Readers |->
                             IF q = r
                             THEN [rd[r] EXCEPT !.pc = "readOffset", !.seg = s,
                                                !.alone = (others = {})]
                             ELSE IF q \in others THEN [rd[q] EXCEPT !.alone = FALSE]
                             ELSE rd[q]]
    /\ UNCHANGED <<segs, logCur, wr, up>>

\* Mutant of ReadOffset: an entry of another offset is looked up again.
ReadOffset_Retries(r) ==
    LET s == rd[r].seg
        c == idxCur[s]
    IN  /\ up
        /\ rd[r].pc = "readOffset"
        /\ idxCur' = [idxCur EXCEPT ![s] = c + 1]
        /\ rd' = [rd EXCEPT ![r].pc =
                     IF c < Words(segs[s]) /\ Word(segs[s], c) = rd[r].want - segs[s].base
                     THEN "readPos" ELSE "scan"]
        /\ UNCHANGED <<segs, logCur, wr, up>>

\* Read of foundOffset at the cursor, wherever it is by now.
ReadOffset(r) ==
    LET s == rd[r].seg
        c == idxCur[s]
    IN  /\ up
        /\ rd[r].pc = "readOffset"
        /\ \/ /\ c < Words(segs[s])
              /\ idxCur' = [idxCur EXCEPT ![s] = c + 1]
              /\ IF Word(segs[s], c) = rd[r].want - segs[s].base
                 THEN rd' = [rd EXCEPT ![r].pc = "readPos"]
                 ELSE Return(r, Failed)
           \/ /\ c >= Words(segs[s])
              /\ Return(r, Failed)
              /\ UNCHANGED idxCur
        /\ UNCHANGED <<segs, logCur, wr, up>>

ReadPos(r) ==
    LET s == rd[r].seg
        c == idxCur[s]
    IN  /\ up
        /\ rd[r].pc = "readPos"
        /\ \/ /\ c < Words(segs[s])
              /\ idxCur' = [idxCur EXCEPT ![s] = c + 1]
              /\ rd' = [rd EXCEPT ![r].pc = "seekLog", ![r].pos = Word(segs[s], c)]
           \/ /\ c >= Words(segs[s])
              /\ Return(r, Failed)
              /\ UNCHANGED idxCur
        /\ UNCHANGED <<segs, logCur, wr, up>>

SeekLog(r) ==
    /\ up
    /\ rd[r].pc = "seekLog"
    /\ logCur' = [logCur EXCEPT ![rd[r].seg] = rd[r].pos]
    /\ rd' = [rd EXCEPT ![r].pc = "readPrefix"]
    /\ UNCHANGED <<segs, idxCur, wr, up>>

\* Read of the length prefix at the cursor; fewer than 8 bytes left is an error.
ReadPrefix(r) ==
    LET s == rd[r].seg
        c == logCur[s]
    IN  /\ up
        /\ rd[r].pc = "readPrefix"
        /\ \/ /\ c + 8 <= segs[s].bytes
              /\ \E k \in RecordAt(segs[s], c) :
                    rd' = [rd EXCEPT ![r].pc = "readPayload", ![r].prefix = segs[s].recs[k].len]
              /\ logCur' = [logCur EXCEPT ![s] = c + 8]
           \/ /\ c + 8 <= segs[s].bytes
              /\ RecordAt(segs[s], c) = {}
              /\ Return(r, Failed)
              /\ logCur' = [logCur EXCEPT ![s] = c + 8]
           \/ /\ c + 8 > segs[s].bytes
              /\ Return(r, Failed)
              /\ UNCHANGED logCur
        /\ UNCHANGED <<segs, idxCur, wr, up>>

\* make([]byte, prefix) with eight bytes that are not a prefix: a panic that no
\* handler recovers, so the broker dies.
ReadPrefixPanics(r) ==
    LET s == rd[r].seg
    IN  /\ up
        /\ rd[r].pc = "readPrefix"
        /\ logCur[s] + 8 <= segs[s].bytes
        /\ RecordAt(segs[s], logCur[s]) = {}
        /\ up' = FALSE
        /\ UNCHANGED <<segs, idxCur, logCur, rd, wr>>

\* pread of prefix bytes after the position this reader found in the index.
\* Trailing bytes of the next record do not disturb the decoder; a payload cut
\* short, or one past the end of the file, is an error.
ReadPayload(r) ==
    LET seg == segs[rd[r].seg]
        recs == {k \in RecordAt(seg, rd[r].pos) : rd[r].prefix >= seg.recs[k].len}
    IN  /\ up
        /\ rd[r].pc = "readPayload"
        /\ \/ /\ rd[r].pos + 8 + rd[r].prefix <= seg.bytes
              /\ \E k \in recs : Return(r, seg.base + k - 1)
           \/ /\ rd[r].pos + 8 + rd[r].prefix > seg.bytes \/ recs = {}
              /\ Return(r, Failed)
        /\ UNCHANGED <<segs, idxCur, logCur, wr, up>>

----------------------------------------------------------------------------
(* The writer: Partition.Append.                                           *)

Appended == segs[Len(segs)].base + Len(segs[Len(segs)].recs)

WantLock ==
    /\ up
    /\ wr = "idle"
    /\ Appended < MaxAppends
    /\ wr' = "wait"
    /\ UNCHANGED <<segs, idxCur, logCur, rd, up>>

\* Mutant of Lock: the writer takes the read lock.
Lock_Shared ==
    /\ up
    /\ wr = "wait"
    /\ wr' = "locked"
    /\ UNCHANGED <<segs, idxCur, logCur, rd, up>>

Lock ==
    /\ up
    /\ wr = "wait"
    /\ Holding = {}
    /\ wr' = "locked"
    /\ UNCHANGED <<segs, idxCur, logCur, rd, up>>

\* Rollover if due, then the record and its index entry; a write to a file
\* opened with O_APPEND leaves the cursor at the end of the file.
Append_ ==
    LET full == segs[Len(segs)].bytes >= Limit
        all  == IF full THEN Append(segs, NewSegment(Appended)) ELSE segs
        s    == Len(all)
    IN  /\ up
        /\ wr = "locked"
        /\ \E len \in Lengths :
             LET new == [all[s] EXCEPT !.recs = Append(@, [pos |-> all[s].bytes, len |-> len]),
                                       !.bytes = @ + 8 + len]
             IN  /\ segs' = [all EXCEPT ![s] = new]
                 /\ idxCur' = [i \in 1..s |-> IF i = s THEN Words(new) ELSE idxCur[i]]
                 /\ logCur' = [i \in 1..s |-> IF i = s THEN new.bytes ELSE logCur[i]]
        /\ wr' = "unlock"
        /\ UNCHANGED <<rd, up>>

Unlock ==
    /\ up
    /\ wr = "unlock"
    /\ wr' = "idle"
    /\ UNCHANGED <<segs, idxCur, logCur, rd, up>>

----------------------------------------------------------------------------
\* The broker is started again: files as they are, cursors at zero.
Restart ==
    /\ ~up
    /\ idxCur' = [s \in DOMAIN segs |-> 0]
    /\ logCur' = [s \in DOMAIN segs |-> 0]
    /\ rd' = [r \in Readers |-> Idle]
    /\ wr' = "idle"
    /\ up' = TRUE
    /\ UNCHANGED segs

ReadStep(r) ==
    \/ RLock(r) \/ SeekIndex(r) \/ ReadOffset(r) \/ ReadPos(r) \/ SeekLog(r)
    \/ ReadPrefix(r) \/ ReadPrefixPanics(r) \/ ReadPayload(r) \/ RUnlock(r)

WriteStep == Lock \/ Append_ \/ Unlock

Next ==
    \/ \E r \in Readers : Call(r) \/ ReadStep(r)
    \/ WantLock \/ WriteStep
    \/ Restart

\* A goroutine that can take its next step is scheduled eventually; calls of
\* ReadAt and Append may or may not come.
Spec ==
    /\ Init /\ [][Next]_vars
    /\ \A r \in Readers : WF_vars(ReadStep(r))
    /\ WF_vars(WriteStep)

----------------------------------------------------------------------------
(* Properties.                                                             *)

\* A read that shared its segment's file cursors with no other read returns
\* the message at the offset it asked for, or "not found" if there was none:
\* the lock keeps the writer's cursor moves and rollovers away from readers.
LoneReadExact ==
    \A r \in Readers :
        rd[r].pc = "done" /\ rd[r].alone =>
            \/ rd[r].got = rd[r].want
            \/ rd[r].got = NotFound /\ rd[r].want >= Appended

\* The lock is always given back: a pending append gets through unless the
\* broker dies first, whatever the readers before it returned.
AppendCompletes == wr = "wait" ~> (wr = "idle" \/ ~up)

\* A call of ReadAt returns unless the broker dies first.
ReadReturns == \A r \in Readers : rd[r].pc = "wait" ~> (rd[r].pc = "idle" \/ ~up)

\* Every read returns the message at the offset it asked for, however many
\* readers run: what the RWMutex is there for.
ConcurrentReadExact ==
    \A r \in Readers :
        rd[r].pc = "done" => rd[r].got \in {rd[r].want, NotFound}
=============================================================================
