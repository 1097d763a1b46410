---------------------------- MODULE ReadsProofs ----------------------------
(***************************************************************************)
(* A machine-checked proof about PartitionReads, for any readers, message  *)
(* lengths, rollover limit and number of appends.                          *)
(***************************************************************************)
EXTENDS PartitionReads, SequenceTheorems, TLAPS

----------------------------------------------------------------------------
(* The invariant.                                                          *)

Record == [pos : Nat, len : Nat]
Segment == [base : Nat, recs : Seq(Record), bytes : Nat]

Reader == [pc : {"idle", "wait", "scan", "done"} \cup OnFiles, want : Nat, seg : Nat, pos : Nat,
           prefix : Nat, got : Int, alone : BOOLEAN]

TypeInv ==
    /\ segs \in Seq(Segment) /\ Len(segs) >= 1
    /\ idxCur \in [1..Len(segs) -> Nat]
    /\ logCur \in [1..Len(segs) -> Nat]
    /\ rd \in [Readers -> Reader]
    /\ wr \in {"idle", "wait", "locked", "unlock"}
    /\ up \in BOOLEAN

\* Records lie behind each other in the file.
Laid(seg) ==
    \A k \in 1..Len(seg.recs) :
        /\ seg.recs[k].pos + 8 + seg.recs[k].len <= seg.bytes
        /\ \A j \in 1..Len(seg.recs) : j < k => seg.recs[j].pos < seg.recs[k].pos

\* Every offset up to the end is in a segment.
SegInv ==
    /\ \A s \in 1..Len(segs) : Laid(segs[s])
    /\ \A o \in Nat : o < Appended => \E s \in 1..Len(segs) : Covers(segs[s], o)

\* The writer is alone.
LockInv == wr \in {"locked", "unlock"} => Holding = {}

\* The number of the wanted record in its segment.
Place(k, sg) == k.want - sg[k.seg].base

\* The cursors and what was read through them, for a reader k that shared them
\* with nobody.
OnTrack(k, sg, ic, lc) ==
    /\ k.pc = "readOffset" => ic[k.seg] = 2 * Place(k, sg)
    /\ k.pc = "readPos" => ic[k.seg] = 2 * Place(k, sg) + 1
    /\ k.pc \in {"seekLog", "readPrefix", "readPayload"}
          => k.pos = sg[k.seg].recs[Place(k, sg) + 1].pos
    /\ k.pc = "readPrefix" => lc[k.seg] = k.pos
    /\ k.pc = "readPayload" => k.prefix = sg[k.seg].recs[Place(k, sg) + 1].len

Exact(k, end) == k.got = k.want \/ (k.got = NotFound /\ k.want >= end)

ReadInv ==
    /\ \A r \in Readers :
          /\ rd[r].pc \in OnFiles => /\ rd[r].seg \in 1..Len(segs)
                                     /\ Covers(segs[rd[r].seg], rd[r].want)
          /\ rd[r].pc \in OnFiles /\ rd[r].alone => OnTrack(rd[r], segs, idxCur, logCur)
          /\ rd[r].pc = "done" /\ rd[r].alone => Exact(rd[r], Appended)
    /\ \A r, q \in Readers :
          r # q /\ rd[r].pc \in OnFiles /\ rd[q].pc \in OnFiles /\ rd[r].seg = rd[q].seg
             => ~rd[r].alone

Inv == TypeInv /\ SegInv /\ LockInv /\ ReadInv

----------------------------------------------------------------------------
(* Segments.                                                               *)

LEMMA Halves ==
    ASSUME NEW n \in Nat
    PROVE  /\ (2 * n) % 2 = 0 /\ (2 * n) \div 2 = n
           /\ (2 * n + 1) % 2 = 1 /\ (2 * n + 1) \div 2 = n
OBVIOUS

\* The index entry and the record of an offset that the segment covers.
LEMMA CoveredRecord ==
    ASSUME NEW seg \in Segment, Laid(seg), NEW o \in Nat, Covers(seg, o)
    PROVE  LET n == o - seg.base
           IN  /\ n \in Nat /\ n + 1 \in 1..Len(seg.recs) /\ 2 * n + 1 < Words(seg)
               /\ Word(seg, 2 * n) = n /\ Word(seg, 2 * n + 1) = seg.recs[n + 1].pos
               /\ seg.recs[n + 1].pos \in Nat /\ seg.recs[n + 1].len \in Nat
               /\ seg.recs[n + 1].pos + 8 + seg.recs[n + 1].len <= seg.bytes
               /\ RecordAt(seg, seg.recs[n + 1].pos) = {n + 1}
<1> DEFINE n == o - seg.base
<1>1. seg.base \in Nat /\ seg.recs \in Seq(Record) /\ seg.bytes \in Nat
  BY DEF Segment
<1>2. Len(seg.recs) \in Nat /\ DOMAIN seg.recs = 1..Len(seg.recs)
  BY <1>1
<1>3. n \in Nat /\ n + 1 \in 1..Len(seg.recs) /\ 2 * n + 1 < Words(seg)
  BY <1>1, <1>2 DEF Covers, Words
<1>4. seg.recs[n + 1] \in Record
  BY <1>1, <1>3
<1>5. seg.recs[n + 1].pos \in Nat /\ seg.recs[n + 1].len \in Nat
  BY <1>4 DEF Record
<1> HIDE DEF n
<1>6. Word(seg, 2 * n) = n /\ Word(seg, 2 * n + 1) = seg.recs[n + 1].pos
  BY <1>3, Halves DEF Word
<1>7. seg.recs[n + 1].pos + 8 + seg.recs[n + 1].len <= seg.bytes
  BY <1>3 DEF Laid
<1>8. \A j \in 1..Len(seg.recs) : seg.recs[j].pos \in Nat
  <2> SUFFICES ASSUME NEW j \in 1..Len(seg.recs)
               PROVE  seg.recs[j].pos \in Nat
    OBVIOUS
  <2>1. seg.recs[j] \in Record
    BY <1>1
  <2> QED
    BY <2>1 DEF Record
<1>9. ASSUME NEW j \in 1..Len(seg.recs), seg.recs[j].pos = seg.recs[n + 1].pos
      PROVE  j = n + 1
  <2>1. ~(j < n + 1) /\ ~(n + 1 < j)
    BY <1>3, <1>5, <1>8, <1>9 DEF Laid
  <2> QED
    BY <1>2, <1>3, <2>1
<1>10. RecordAt(seg, seg.recs[n + 1].pos) = {n + 1}
  BY <1>2, <1>3, <1>9 DEF RecordAt
<1> QED
  BY <1>3, <1>5, <1>6, <1>7, <1>10 DEF n

\* The record that a reader on the files is after.
LEMMA WantedRecord ==
    ASSUME Inv, NEW r \in Readers, rd[r].pc \in OnFiles
    PROVE  LET seg == segs[rd[r].seg]
               n == Place(rd[r], segs)
           IN  /\ rd[r].seg \in 1..Len(segs) /\ seg \in Segment
               /\ n \in Nat /\ n = rd[r].want - seg.base /\ 2 * n + 1 < Words(seg)
               /\ n + 1 \in 1..Len(seg.recs)
               /\ Word(seg, 2 * n) = n /\ Word(seg, 2 * n + 1) = seg.recs[n + 1].pos
               /\ seg.recs[n + 1].pos \in Nat /\ seg.recs[n + 1].len \in Nat
               /\ seg.recs[n + 1].pos + 8 + seg.recs[n + 1].len <= seg.bytes
               /\ RecordAt(seg, seg.recs[n + 1].pos) = {n + 1}
<1>1. rd[r].seg \in 1..Len(segs) /\ Covers(segs[rd[r].seg], rd[r].want)
  BY DEF Inv, ReadInv
<1>2. segs[rd[r].seg] \in Segment
  BY <1>1 DEF Inv, TypeInv
<1>3. Laid(segs[rd[r].seg])
  BY <1>1 DEF Inv, SegInv
<1>4. rd[r].want \in Nat
  <2>1. rd[r] \in Reader
    BY DEF Inv, TypeInv
  <2> QED
    BY <2>1 DEF Reader
<1> QED
  BY <1>1, <1>2, <1>3, <1>4, CoveredRecord DEF Place

----------------------------------------------------------------------------
(* The steps of a reader.                                                  *)

\* A reader that uses the cursors of its segment: nobody else who does counts
\* as alone.
LEMMA ReaderMoves ==
    ASSUME Inv, UNCHANGED <<segs, wr>>, up' \in BOOLEAN,
           idxCur' \in [1..Len(segs) -> Nat], logCur' \in [1..Len(segs) -> Nat],
           NEW r \in Readers, rd[r].pc \in OnFiles,
           \A s \in 1..Len(segs) : s # rd[r].seg => idxCur'[s] = idxCur[s] /\ logCur'[s] = logCur[s],
           NEW k \in Reader, rd' = [rd EXCEPT ![r] = k],
           k.want = rd[r].want, k.alone = rd[r].alone,
           \/ /\ k.pc \in OnFiles /\ k.seg = rd[r].seg
              /\ k.alone => OnTrack(k, segs, idxCur', logCur')
           \/ k.pc = "done" /\ (k.alone => Exact(k, Appended))
    PROVE  Inv'
<1>1. rd'[r] = k /\ \A q \in Readers : q # r => rd'[q] = rd[q]
  BY DEF Inv, TypeInv
<1>2. TypeInv'
  BY DEF Inv, TypeInv
<1>3. SegInv'
  BY DEF Inv, SegInv, Appended
<1>4. LockInv'
  <2>1. r \in Holding
    BY DEF Holding, OnFiles
  <2> QED
    BY <2>1 DEF Inv, LockInv
<1>5. ReadInv'
  <2>0. Appended' = Appended
    BY DEF Appended
  <2>1. ASSUME NEW q \in Readers
        PROVE  /\ rd'[q].pc \in OnFiles => /\ rd'[q].seg \in 1..Len(segs)
                                           /\ Covers(segs[rd'[q].seg], rd'[q].want)
               /\ rd'[q].pc \in OnFiles /\ rd'[q].alone => OnTrack(rd'[q], segs, idxCur', logCur')
               /\ rd'[q].pc = "done" /\ rd'[q].alone => Exact(rd'[q], Appended)
    <3>1. CASE q = r
      <4>1. rd[r].seg \in 1..Len(segs) /\ Covers(segs[rd[r].seg], rd[r].want)
        BY DEF Inv, ReadInv
      <4>2. "done" \notin OnFiles
        BY DEF OnFiles
      <4> QED
        BY <1>1, <3>1, <4>1, <4>2
    <3>2. CASE q # r
      <4>1. rd'[q] = rd[q]
        BY <1>1, <3>2
      <4>2. ASSUME rd[q].pc \in OnFiles, rd[q].alone
            PROVE  OnTrack(rd[q], segs, idxCur', logCur')
        <5>1. rd[q].seg # rd[r].seg /\ rd[q].seg \in 1..Len(segs)
          BY <3>2, <4>2 DEF Inv, ReadInv
        <5>2. OnTrack(rd[q], segs, idxCur, logCur)
          BY <4>2 DEF Inv, ReadInv
        <5>3. idxCur'[rd[q].seg] = idxCur[rd[q].seg] /\ logCur'[rd[q].seg] = logCur[rd[q].seg]
          BY <5>1
        <5> QED
          BY <5>2, <5>3 DEF OnTrack
      <4> QED
        BY <4>1, <4>2 DEF Inv, ReadInv
    <3> QED
      BY <3>1, <3>2
  <2>2. ASSUME NEW q1 \in Readers, NEW q2 \in Readers, q1 # q2, rd'[q1].pc \in OnFiles,
               rd'[q2].pc \in OnFiles, rd'[q1].seg = rd'[q2].seg
        PROVE  ~rd'[q1].alone
    <3>1. "done" \notin OnFiles
      BY DEF OnFiles
    <3>2. \A q \in {q1, q2} : rd'[q].pc \in OnFiles => /\ rd[q].pc \in OnFiles
                                                       /\ rd[q].seg = rd'[q].seg
                                                       /\ rd[q].alone = rd'[q].alone
      BY <1>1, <3>1
    <3> QED
      BY <2>2, <3>2 DEF Inv, ReadInv
  <2>3. /\ \A q \in Readers :
              /\ rd'[q].pc \in OnFiles => /\ rd'[q].seg \in 1..Len(segs)
                                          /\ Covers(segs[rd'[q].seg], rd'[q].want)
              /\ rd'[q].pc \in OnFiles /\ rd'[q].alone => OnTrack(rd'[q], segs, idxCur', logCur')
              /\ rd'[q].pc = "done" /\ rd'[q].alone => Exact(rd'[q], Appended)
        /\ \A q1, q2 \in Readers :
              q1 # q2 /\ rd'[q1].pc \in OnFiles /\ rd'[q2].pc \in OnFiles /\ rd'[q1].seg = rd'[q2].seg
                 => ~rd'[q1].alone
    BY <2>1, <2>2
  <2> QED
    BY <2>0, <2>3, Zenon DEF ReadInv
<1> QED
  BY <1>2, <1>3, <1>4, <1>5 DEF Inv

LEMMA ReturnMoves ==
    ASSUME Inv, UNCHANGED <<segs, wr>>, up' \in BOOLEAN,
           idxCur' \in [1..Len(segs) -> Nat], logCur' \in [1..Len(segs) -> Nat],
           NEW r \in Readers, rd[r].pc \in OnFiles,
           \A s \in 1..Len(segs) : s # rd[r].seg => idxCur'[s] = idxCur[s] /\ logCur'[s] = logCur[s],
           NEW res \in Int, Return(r, res), rd[r].alone => res = rd[r].want
    PROVE  Inv'
<1> DEFINE k == [Idle EXCEPT !.pc = "done", !.want = rd[r].want, !.got = res, !.alone = rd[r].alone]
<1>1. rd[r].want \in Nat /\ rd[r].alone \in BOOLEAN
  <2>1. rd[r] \in Reader
    BY DEF Inv, TypeInv
  <2> QED
    BY <2>1 DEF Reader
<1>2. k \in Reader
  BY <1>1 DEF Idle, Reader, NotFound
<1>3. k.pc = "done" /\ k.want = rd[r].want /\ k.got = res /\ k.alone = rd[r].alone
  BY DEF Idle
<1>4. k.alone => Exact(k, Appended)
  BY <1>3 DEF Exact
<1>5. rd' = [rd EXCEPT ![r] = k]
  BY DEF Return
<1> HIDE DEF k
<1> QED
  BY <1>2, <1>3, <1>4, <1>5, ReaderMoves

LEMMA ReaderFields ==
    ASSUME Inv, NEW r \in Readers
    PROVE  /\ rd[r] \in Reader
           /\ rd[r].pc \in {"idle", "wait", "scan", "done"} \cup OnFiles
           /\ rd[r].want \in Nat /\ rd[r].seg \in Nat /\ rd[r].pos \in Nat /\ rd[r].prefix \in Nat
           /\ rd[r].got \in Int /\ rd[r].alone \in BOOLEAN
<1>1. rd[r] \in Reader
  BY DEF Inv, TypeInv
<1> QED
  BY <1>1 DEF Reader

LEMMA ReadOffsetKeeps ==
    ASSUME Inv, NEW r \in Readers, ReadOffset(r)
    PROVE  Inv'
<1> DEFINE s == rd[r].seg
           c == idxCur[s]
           n == Place(rd[r], segs)
<1>1. rd[r].pc = "readOffset" /\ rd[r].pc \in OnFiles /\ UNCHANGED <<segs, logCur, wr, up>>
  BY DEF ReadOffset, OnFiles
<1>2. /\ s \in 1..Len(segs) /\ n \in Nat /\ n = rd[r].want - segs[s].base
      /\ 2 * n + 1 < Words(segs[s]) /\ Word(segs[s], 2 * n) = n
      /\ segs[s] \in Segment
  BY <1>1, WantedRecord
<1>3. c \in Nat /\ Words(segs[s]) \in Nat
  <2>1. Len(segs[s].recs) \in Nat
    BY <1>2 DEF Segment
  <2> QED
    BY <1>2, <2>1 DEF Inv, TypeInv, Words
<1>4. rd[r].alone => c = 2 * n
  BY <1>1 DEF Inv, ReadInv, OnTrack
<1>5. rd[r] \in Reader
  BY ReaderFields
<1>6. Failed \in Int /\ logCur' \in [1..Len(segs) -> Nat] /\ up' \in BOOLEAN
  BY <1>1 DEF Failed, Inv, TypeInv
<1>7. CASE c < Words(segs[s]) /\ idxCur' = [idxCur EXCEPT ![s] = c + 1]
  <2>1. /\ idxCur' \in [1..Len(segs) -> Nat] /\ idxCur'[s] = c + 1
        /\ \A t \in 1..Len(segs) : t # s => idxCur'[t] = idxCur[t]
    BY <1>2, <1>3, <1>7 DEF Inv, TypeInv
  <2>2. CASE Word(segs[s], c) = rd[r].want - segs[s].base /\ rd' = [rd EXCEPT ![r].pc = "readPos"]
    <3> DEFINE k == [rd[r] EXCEPT !.pc = "readPos"]
    <3>1. k \in Reader
      BY <1>5 DEF Reader, OnFiles
    <3>2. /\ k.pc = "readPos" /\ k.want = rd[r].want /\ k.alone = rd[r].alone /\ k.seg = s
      BY <1>5 DEF Reader
    <3>3. rd' = [rd EXCEPT ![r] = k]
      BY <2>2 DEF Inv, TypeInv
    <3> HIDE DEF k
    <3>4. Place(k, segs) = n /\ k.pc \in OnFiles
      BY <3>2 DEF Place, OnFiles
    <3>5. k.alone => OnTrack(k, segs, idxCur', logCur')
      BY <1>4, <2>1, <3>2, <3>4 DEF OnTrack
    <3> QED
      BY <1>1, <1>6, <2>1, <3>1, <3>2, <3>3, <3>4, <3>5, ReaderMoves
  <2>3. CASE Word(segs[s], c) # rd[r].want - segs[s].base /\ Return(r, Failed)
    <3>1. ~rd[r].alone
      BY <1>2, <1>4, <2>3
    <3> QED
      BY <1>1, <1>6, <2>1, <2>3, <3>1, ReturnMoves
  <2> QED
    BY <1>7, <1>3, <2>2, <2>3 DEF ReadOffset
<1>8. CASE c >= Words(segs[s]) /\ Return(r, Failed) /\ UNCHANGED idxCur
  <2>1. ~rd[r].alone
    BY <1>2, <1>3, <1>4, <1>8
  <2>2. idxCur' \in [1..Len(segs) -> Nat]
    BY <1>8 DEF Inv, TypeInv
  <2> QED
    BY <1>1, <1>6, <1>8, <2>1, <2>2, ReturnMoves
<1> QED
  BY <1>7, <1>8 DEF ReadOffset

LEMMA ReadPosKeeps ==
    ASSUME Inv, NEW r \in Readers, ReadPos(r)
    PROVE  Inv'
<1> DEFINE s == rd[r].seg
           c == idxCur[s]
           n == Place(rd[r], segs)
<1>1. rd[r].pc = "readPos" /\ rd[r].pc \in OnFiles /\ UNCHANGED <<segs, logCur, wr, up>>
  BY DEF ReadPos, OnFiles
<1>2. /\ s \in 1..Len(segs) /\ n \in Nat /\ n = rd[r].want - segs[s].base
      /\ 2 * n + 1 < Words(segs[s]) /\ Word(segs[s], 2 * n + 1) = segs[s].recs[n + 1].pos
      /\ segs[s] \in Segment
  BY <1>1, WantedRecord
<1>3. c \in Nat /\ Len(segs[s].recs) \in Nat /\ Words(segs[s]) = 2 * Len(segs[s].recs)
  <2>1. Len(segs[s].recs) \in Nat
    BY <1>2 DEF Segment
  <2> QED
    BY <1>2, <2>1 DEF Inv, TypeInv, Words
<1>4. rd[r].alone => c = 2 * n + 1
  BY <1>1 DEF Inv, ReadInv, OnTrack
<1>5. rd[r] \in Reader
  BY ReaderFields
<1>6. Failed \in Int /\ logCur' \in [1..Len(segs) -> Nat] /\ up' \in BOOLEAN
  BY <1>1 DEF Failed, Inv, TypeInv
<1>7. CASE /\ c < Words(segs[s]) /\ idxCur' = [idxCur EXCEPT ![s] = c + 1]
           /\ rd' = [rd EXCEPT ![r].pc = "seekLog", ![r].pos = Word(segs[s], c)]
  <2>1. /\ idxCur' \in [1..Len(segs) -> Nat] /\ idxCur'[s] = c + 1
        /\ \A t \in 1..Len(segs) : t # s => idxCur'[t] = idxCur[t]
    BY <1>2, <1>3, <1>7 DEF Inv, TypeInv
  <2>2. Word(segs[s], c) \in Nat
    <3>1. c \div 2 \in Nat /\ (c \div 2) + 1 \in 1..Len(segs[s].recs)
      BY <1>3, <1>7
    <3>2. segs[s].recs[(c \div 2) + 1] \in Record
      <4>1. segs[s].recs \in Seq(Record)
        BY <1>2 DEF Segment
      <4> QED
        BY <3>1, <4>1, ElementOfSeq
    <3>3. segs[s].recs[(c \div 2) + 1].pos \in Nat
      BY <3>2 DEF Record
    <3> QED
      BY <3>1, <3>3 DEF Word
  <2> DEFINE w == Word(segs[s], c)
             k == [rd[r] EXCEPT !.pc = "seekLog", !.pos = w]
  <2>3. rd' = [rd EXCEPT ![r] = k]
    BY <1>7 DEF Inv, TypeInv
  <2>4. w \in Nat /\ (rd[r].alone => w = segs[s].recs[n + 1].pos)
    BY <1>2, <1>4, <2>2
  <2> HIDE DEF w
  <2>5. k \in Reader
    BY <1>5, <2>4 DEF Reader, OnFiles
  <2>6. /\ k.pc = "seekLog" /\ k.want = rd[r].want /\ k.alone = rd[r].alone /\ k.seg = s /\ k.pos = w
    BY <1>5 DEF Reader
  <2> HIDE DEF k
  <2>7. Place(k, segs) = n /\ k.pc \in OnFiles
    BY <2>6 DEF Place, OnFiles
  <2>8. k.alone => OnTrack(k, segs, idxCur', logCur')
    BY <2>4, <2>6, <2>7 DEF OnTrack
  <2> QED
    BY <1>1, <1>6, <2>1, <2>3, <2>5, <2>6, <2>7, <2>8, ReaderMoves
<1>8. CASE c >= Words(segs[s]) /\ Return(r, Failed) /\ UNCHANGED idxCur
  <2>1. ~rd[r].alone
    BY <1>2, <1>3, <1>4, <1>8
  <2>2. idxCur' \in [1..Len(segs) -> Nat]
    BY <1>8 DEF Inv, TypeInv
  <2> QED
    BY <1>1, <1>6, <1>8, <2>1, <2>2, ReturnMoves
<1> QED
  BY <1>7, <1>8 DEF ReadPos

LEMMA SeekLogKeeps ==
    ASSUME Inv, NEW r \in Readers, SeekLog(r)
    PROVE  Inv'
<1> DEFINE s == rd[r].seg
           k == [rd[r] EXCEPT !.pc = "readPrefix"]
<1>1. rd[r].pc = "seekLog" /\ rd[r].pc \in OnFiles /\ UNCHANGED <<segs, idxCur, wr, up>>
  BY DEF SeekLog, OnFiles
<1>2. s \in 1..Len(segs)
  BY <1>1, WantedRecord
<1>3. rd[r] \in Reader /\ rd[r].pos \in Nat
  BY ReaderFields
<1>4. /\ logCur' \in [1..Len(segs) -> Nat] /\ logCur'[s] = rd[r].pos
      /\ \A t \in 1..Len(segs) : t # s => logCur'[t] = logCur[t]
  BY <1>2, <1>3 DEF SeekLog, Inv, TypeInv
<1>5. k \in Reader
  BY <1>3 DEF Reader, OnFiles
<1>6. /\ k.pc = "readPrefix" /\ k.want = rd[r].want /\ k.alone = rd[r].alone /\ k.seg = s
      /\ k.pos = rd[r].pos
  BY <1>3 DEF Reader
<1>7. rd' = [rd EXCEPT ![r] = k]
  BY DEF SeekLog, Inv, TypeInv
<1>8. idxCur' \in [1..Len(segs) -> Nat] /\ up' \in BOOLEAN
  BY <1>1 DEF Inv, TypeInv
<1> HIDE DEF k
<1>9. Place(k, segs) = Place(rd[r], segs) /\ k.pc \in OnFiles
  BY <1>6 DEF Place, OnFiles
<1>10. k.alone => OnTrack(k, segs, idxCur', logCur')
  <2>1. rd[r].alone => rd[r].pos = segs[s].recs[Place(rd[r], segs) + 1].pos
    BY <1>1 DEF Inv, ReadInv, OnTrack
  <2> QED
    BY <1>4, <1>6, <1>9, <2>1 DEF OnTrack
<1> QED
  BY <1>1, <1>4, <1>5, <1>6, <1>7, <1>8, <1>9, <1>10, ReaderMoves

LEMMA ReadPrefixKeeps ==
    ASSUME Inv, NEW r \in Readers, ReadPrefix(r)
    PROVE  Inv'
<1> DEFINE s == rd[r].seg
           c == logCur[s]
           n == Place(rd[r], segs)
<1>1. rd[r].pc = "readPrefix" /\ rd[r].pc \in OnFiles /\ UNCHANGED <<segs, idxCur, wr, up>>
  BY DEF ReadPrefix, OnFiles
<1>2. /\ s \in 1..Len(segs) /\ n \in Nat /\ segs[s] \in Segment
      /\ segs[s].recs[n + 1].pos \in Nat /\ segs[s].recs[n + 1].len \in Nat
      /\ segs[s].recs[n + 1].pos + 8 + segs[s].recs[n + 1].len <= segs[s].bytes
      /\ RecordAt(segs[s], segs[s].recs[n + 1].pos) = {n + 1}
  BY <1>1, WantedRecord
<1>3. c \in Nat /\ segs[s].bytes \in Nat
  BY <1>2 DEF Inv, TypeInv, Segment
<1>0. segs[s].recs \in Seq(Record)
  BY <1>2 DEF Segment
<1>4. rd[r].alone => rd[r].pos = c /\ c = segs[s].recs[n + 1].pos
  BY <1>1 DEF Inv, ReadInv, OnTrack
<1>5. rd[r].alone => RecordAt(segs[s], c) = {n + 1} /\ c + 8 <= segs[s].bytes
  <2>1. \A p, l, z \in Nat : p + 8 + l <= z => p + 8 <= z
    OBVIOUS
  <2>2. segs[s].recs[n + 1].pos + 8 <= segs[s].bytes
    BY <1>2, <1>3, <2>1
  <2> QED
    BY <1>2, <1>4, <2>2
<1>6. rd[r] \in Reader
  BY ReaderFields
<1>7. Failed \in Int /\ idxCur' \in [1..Len(segs) -> Nat] /\ up' \in BOOLEAN
  BY <1>1 DEF Failed, Inv, TypeInv
<1>8. ASSUME logCur' = [logCur EXCEPT ![s] = c + 8]
      PROVE  /\ logCur' \in [1..Len(segs) -> Nat]
             /\ \A t \in 1..Len(segs) : t # s => logCur'[t] = logCur[t]
  <2>1. logCur \in [1..Len(segs) -> Nat] /\ c + 8 \in Nat
    BY <1>3 DEF Inv, TypeInv
  <2> QED
    BY <1>2, <1>8, <2>1
<1>9. CASE /\ \E k \in RecordAt(segs[s], c) :
                 rd' = [rd EXCEPT ![r].pc = "readPayload", ![r].prefix = segs[s].recs[k].len]
           /\ logCur' = [logCur EXCEPT ![s] = c + 8]
  <2>1. PICK i \in RecordAt(segs[s], c) :
               rd' = [rd EXCEPT ![r].pc = "readPayload", ![r].prefix = segs[s].recs[i].len]
    BY <1>9
  <2>2. segs[s].recs[i].len \in Nat
    <3>1. i \in 1..Len(segs[s].recs)
      BY <1>0 DEF RecordAt
    <3>2. segs[s].recs[i] \in Record
      BY <1>0, <3>1
    <3> QED
      BY <3>2 DEF Record
  <2> DEFINE w == segs[s].recs[i].len
             k == [rd[r] EXCEPT !.pc = "readPayload", !.prefix = w]
  <2>3. rd' = [rd EXCEPT ![r] = k]
    BY <2>1 DEF Inv, TypeInv
  <2>4. w \in Nat /\ (rd[r].alone => w = segs[s].recs[n + 1].len)
    BY <1>5, <2>2
  <2> HIDE DEF w
  <2>5. k \in Reader
    BY <1>6, <2>4 DEF Reader, OnFiles
  <2>6. /\ k.pc = "readPayload" /\ k.want = rd[r].want /\ k.alone = rd[r].alone /\ k.seg = s
        /\ k.pos = rd[r].pos /\ k.prefix = w
    BY <1>6 DEF Reader
  <2> HIDE DEF k
  <2>7. Place(k, segs) = n /\ k.pc \in OnFiles
    BY <2>6 DEF Place, OnFiles
  <2>8. k.alone => OnTrack(k, segs, idxCur', logCur')
    BY <1>4, <2>4, <2>6, <2>7 DEF OnTrack
  <2> QED
    BY <1>1, <1>7, <1>8, <1>9, <2>3, <2>5, <2>6, <2>7, <2>8, ReaderMoves
<1>10. CASE RecordAt(segs[s], c) = {} /\ Return(r, Failed) /\ logCur' = [logCur EXCEPT ![s] = c + 8]
  <2>1. ~rd[r].alone
    BY <1>5, <1>10
  <2> QED
    BY <1>1, <1>7, <1>8, <1>10, <2>1, ReturnMoves
<1>11. CASE c + 8 > segs[s].bytes /\ Return(r, Failed) /\ UNCHANGED logCur
  <2>1. ~rd[r].alone
    BY <1>3, <1>5, <1>11
  <2>2. logCur' \in [1..Len(segs) -> Nat]
    BY <1>11 DEF Inv, TypeInv
  <2> QED
    BY <1>1, <1>7, <1>11, <2>1, <2>2, ReturnMoves
<1> QED
  BY <1>9, <1>10, <1>11 DEF ReadPrefix

LEMMA ReadPayloadKeeps ==
    ASSUME Inv, NEW r \in Readers, ReadPayload(r)
    PROVE  Inv'
<1> DEFINE s == rd[r].seg
           n == Place(rd[r], segs)
           recs == {k \in RecordAt(segs[s], rd[r].pos) : rd[r].prefix >= segs[s].recs[k].len}
<1>1. rd[r].pc = "readPayload" /\ rd[r].pc \in OnFiles /\ UNCHANGED <<segs, idxCur, logCur, wr, up>>
  BY DEF ReadPayload, OnFiles
<1>2. /\ s \in 1..Len(segs) /\ n \in Nat /\ n = rd[r].want - segs[s].base /\ segs[s] \in Segment
      /\ segs[s].recs[n + 1].pos \in Nat /\ segs[s].recs[n + 1].len \in Nat
      /\ segs[s].recs[n + 1].pos + 8 + segs[s].recs[n + 1].len <= segs[s].bytes
      /\ RecordAt(segs[s], segs[s].recs[n + 1].pos) = {n + 1}
  BY <1>1, WantedRecord
<1>3. segs[s].bytes \in Nat /\ segs[s].base \in Nat
  BY <1>2 DEF Segment
<1>0. segs[s].recs \in Seq(Record)
  BY <1>2 DEF Segment
<1>4. rd[r].alone => /\ rd[r].pos = segs[s].recs[n + 1].pos
                     /\ rd[r].prefix = segs[s].recs[n + 1].len
  BY <1>1 DEF Inv, ReadInv, OnTrack
<1>5. rd[r].alone => recs = {n + 1} /\ ~(rd[r].pos + 8 + rd[r].prefix > segs[s].bytes)
  <2>1. ASSUME rd[r].alone
        PROVE  recs = {n + 1}
    <3>1. RecordAt(segs[s], rd[r].pos) = {n + 1}
      BY <1>2, <1>4, <2>1
    <3>2. rd[r].prefix >= segs[s].recs[n + 1].len
      <4>1. \A l \in Nat : l >= l
        OBVIOUS
      <4>2. segs[s].recs[n + 1].len \in Nat
        BY <1>2
      <4> QED
        BY <1>4, <2>1, <4>1, <4>2
    <3> QED
      BY <3>1, <3>2
  <2>2. ASSUME rd[r].alone
        PROVE  ~(rd[r].pos + 8 + rd[r].prefix > segs[s].bytes)
    <3>1. \A p, l, z \in Nat : p + 8 + l <= z => ~(p + 8 + l > z)
      OBVIOUS
    <3> QED
      BY <1>2, <1>3, <1>4, <2>2, <3>1
  <2> QED
    BY <2>1, <2>2
<1>6. /\ idxCur' \in [1..Len(segs) -> Nat] /\ logCur' \in [1..Len(segs) -> Nat] /\ up' \in BOOLEAN
      /\ Failed \in Int /\ rd[r].want \in Nat
  BY <1>1, ReaderFields DEF Failed, Inv, TypeInv
<1>7. CASE \E k \in recs : Return(r, segs[s].base + k - 1)
  <2>1. PICK k \in recs : Return(r, segs[s].base + k - 1)
    BY <1>7
  <2>2. k \in 1..Len(segs[s].recs)
    BY <1>0 DEF RecordAt
  <2>3. segs[s].base + k - 1 \in Int
    BY <1>3, <2>2
  <2>4. rd[r].alone => segs[s].base + k - 1 = rd[r].want
    <3>1. rd[r].alone => k = n + 1
      BY <1>5
    <3>2. n = rd[r].want - segs[s].base /\ segs[s].base \in Nat /\ rd[r].want \in Nat
      BY <1>2, <1>3, <1>6, Zenon
    <3> HIDE DEF n, s
    <3> QED
      BY <3>1, <3>2
  <2> HIDE DEF recs
  <2> QED
    BY <1>1, <1>6, <2>1, <2>3, <2>4, ReturnMoves
<1>8. CASE Return(r, Failed) /\ (rd[r].pos + 8 + rd[r].prefix > segs[s].bytes \/ recs = {})
  <2>1. ~rd[r].alone
    BY <1>5, <1>8
  <2> QED
    BY <1>1, <1>6, <1>8, <2>1, ReturnMoves
<1> QED
  BY <1>7, <1>8 DEF ReadPayload

\* A reader that is not on the files, and does not get there.
LEMMA OffFilesMoves ==
    ASSUME Inv, UNCHANGED <<segs, idxCur, logCur, wr, up>>,
           NEW r \in Readers, rd[r].pc \notin OnFiles,
           NEW k \in Reader, rd' = [rd EXCEPT ![r] = k],
           k.pc \in {"idle", "wait", "scan", "done"},
           k.pc = "done" /\ k.alone => Exact(k, Appended),
           wr = "idle" \/ r \in Holding \/ k.pc \in {"idle", "wait"}
    PROVE  Inv'
<1>1. rd'[r] = k /\ \A q \in Readers : q # r => rd'[q] = rd[q]
  BY DEF Inv, TypeInv
<1>2. TypeInv'
  BY DEF Inv, TypeInv
<1>3. SegInv'
  BY DEF Inv, SegInv, Appended
<1>4. LockInv'
  <2>1. Holding' \subseteq Holding \/ wr = "idle"
    BY <1>1 DEF Holding
  <2> QED
    BY <2>1 DEF Inv, LockInv
<1>5. ReadInv'
  <2>1. Appended' = Appended /\ k.pc \notin OnFiles
    BY DEF Appended, OnFiles
  <2>2. \A q \in Readers :
           /\ rd'[q].pc \in OnFiles => q # r /\ rd'[q] = rd[q]
           /\ rd'[q].pc = "done" /\ rd'[q].alone => Exact(rd'[q], Appended)
    BY <1>1, <2>1 DEF Inv, ReadInv
  <2>3. \A q \in Readers :
           /\ rd'[q].pc \in OnFiles => /\ rd'[q].seg \in 1..Len(segs)
                                       /\ Covers(segs[rd'[q].seg], rd'[q].want)
           /\ rd'[q].pc \in OnFiles /\ rd'[q].alone => OnTrack(rd'[q], segs, idxCur, logCur)
    BY <2>2 DEF Inv, ReadInv
  <2>4. \A q1, q2 \in Readers :
           q1 # q2 /\ rd'[q1].pc \in OnFiles /\ rd'[q2].pc \in OnFiles /\ rd'[q1].seg = rd'[q2].seg
              => ~rd'[q1].alone
    BY <2>2 DEF Inv, ReadInv
  <2>5. UNCHANGED <<segs, idxCur, logCur>>
    OBVIOUS
  <2> QED
    BY <2>1, <2>2, <2>3, <2>4, <2>5 DEF ReadInv
<1> QED
  BY <1>2, <1>3, <1>4, <1>5 DEF Inv

LEMMA IdleType == Idle \in Reader /\ Idle.pc = "idle"
BY DEF Idle, Reader, NotFound

LEMMA CallKeeps ==
    ASSUME Inv, NEW r \in Readers, Call(r)
    PROVE  Inv'
<1>1. PICK o \in Offsets : rd' = [rd EXCEPT ![r] = [Idle EXCEPT !.pc = "wait", !.want = o]]
  BY DEF Call
<1> DEFINE k == [Idle EXCEPT !.pc = "wait", !.want = o]
<1>2. o \in Nat
  BY ReadsAssumption DEF Offsets
<1>3. k \in Reader /\ k.pc = "wait"
  <2>1. k \in Reader
    BY <1>2, IdleType DEF Reader
  <2>2. k.pc = "wait"
    BY DEF Idle
  <2> QED
    BY <2>1, <2>2
<1>4. rd[r].pc \notin OnFiles /\ UNCHANGED <<segs, idxCur, logCur, wr, up>>
  BY DEF Call, OnFiles
<1> HIDE DEF k
<1> QED
  BY <1>1, <1>3, <1>4, OffFilesMoves DEF k

LEMMA RLockKeeps ==
    ASSUME Inv, NEW r \in Readers, RLock(r)
    PROVE  Inv'
<1> DEFINE k == [rd[r] EXCEPT !.pc = "scan"]
<1>1. rd[r] \in Reader
  BY ReaderFields
<1>2. k \in Reader /\ k.pc = "scan"
  BY <1>1 DEF Reader
<1>3. rd[r].pc \notin OnFiles /\ wr = "idle" /\ UNCHANGED <<segs, idxCur, logCur, wr, up>>
  BY DEF RLock, OnFiles
<1>4. rd' = [rd EXCEPT ![r] = k]
  BY DEF RLock, Inv, TypeInv
<1> HIDE DEF k
<1> QED
  BY <1>2, <1>3, <1>4, OffFilesMoves

LEMMA RUnlockKeeps ==
    ASSUME Inv, NEW r \in Readers, RUnlock(r)
    PROVE  Inv'
<1>1. /\ rd[r].pc \notin OnFiles /\ UNCHANGED <<segs, idxCur, logCur, wr, up>>
      /\ rd' = [rd EXCEPT ![r] = Idle]
  BY DEF RUnlock, OnFiles
<1> QED
  BY <1>1, IdleType, OffFilesMoves

\* The scan finds a segment for every offset there is.
LEMMA NotFoundKeeps ==
    ASSUME Inv, NEW r \in Readers, rd[r].pc = "scan", UNCHANGED <<segs, idxCur, logCur, wr, up>>,
           \A s \in DOMAIN segs : ~Covers(segs[s], rd[r].want), Return(r, NotFound)
    PROVE  Inv'
<1> DEFINE k == [Idle EXCEPT !.pc = "done", !.want = rd[r].want, !.got = NotFound,
                             !.alone = rd[r].alone]
<1>1. rd[r].want \in Nat /\ rd[r].alone \in BOOLEAN
  BY ReaderFields
<1>2. k \in Reader
  <2>1. NotFound \in Int
    BY DEF NotFound
  <2> QED
    BY <1>1, <2>1 DEF Idle, Reader
<1>3. k.pc = "done" /\ k.want = rd[r].want /\ k.got = NotFound
  BY DEF Idle
<1>4. ~(rd[r].want < Appended) /\ Appended \in Int
  <2>1. DOMAIN segs = 1..Len(segs) /\ Len(segs) \in 1..Len(segs)
    BY DEF Inv, TypeInv
  <2>2. ~(rd[r].want < Appended)
    BY <1>1, <2>1 DEF Inv, SegInv
  <2>3. segs[Len(segs)] \in Segment
    BY <2>1 DEF Inv, TypeInv
  <2>4. segs[Len(segs)].base \in Nat /\ Len(segs[Len(segs)].recs) \in Nat
    BY <2>3 DEF Segment
  <2> QED
    BY <2>2, <2>4 DEF Appended
<1>5. Exact(k, Appended)
  BY <1>1, <1>3, <1>4 DEF Exact
<1>6. rd[r].pc \notin OnFiles /\ r \in Holding
  BY DEF OnFiles, Holding
<1>7. rd' = [rd EXCEPT ![r] = k]
  BY DEF Return
<1> HIDE DEF k
<1> QED
  BY <1>2, <1>3, <1>5, <1>6, <1>7, OffFilesMoves

Others(r, s) == {q \in Readers \ {r} : rd[q].pc \in OnFiles /\ rd[q].seg = s}

Arrives(r, s) ==
    /\ idxCur' = [idxCur EXCEPT ![s] = 2 * (rd[r].want - segs[s].base)]
    /\ rd' = [q \in Readers |->
                IF q = r
                THEN [rd[r] EXCEPT !.pc = "readOffset", !.seg = s, !.alone = (Others(r, s) = {})]
                ELSE IF q \in Others(r, s) THEN [rd[q] EXCEPT !.alone = FALSE]
                ELSE rd[q]]

\* A reader comes to the files of a segment; from then on, neither it nor the
\* readers that are there are alone.
LEMMA FoundKeeps ==
    ASSUME Inv, NEW r \in Readers, rd[r].pc = "scan", UNCHANGED <<segs, logCur, wr, up>>,
           NEW s \in DOMAIN segs, Covers(segs[s], rd[r].want),
           Arrives(r, s)
    PROVE  Inv'
<1> DEFINE n == rd[r].want - segs[s].base
<1>1. s \in 1..Len(segs) /\ s \in Nat /\ segs[s] \in Segment
  <2>1. segs \in Seq(Segment)
    BY DEF Inv, TypeInv
  <2> QED
    BY <2>1
<1>2. rd[r].want \in Nat /\ rd[r] \in Reader
  BY ReaderFields
<1>3. n \in Nat
  <2>1. segs[s].base \in Nat /\ segs[s].base <= rd[r].want
    BY <1>1 DEF Covers, Segment
  <2> QED
    BY <1>2, <2>1
<1>4. /\ idxCur' \in [1..Len(segs) -> Nat] /\ idxCur'[s] = 2 * n
      /\ \A t \in 1..Len(segs) : t # s => idxCur'[t] = idxCur[t]
  <2>1. idxCur \in [1..Len(segs) -> Nat] /\ 2 * n \in Nat
    BY <1>3 DEF Inv, TypeInv
  <2> QED
    BY <1>1, <2>1 DEF Arrives
<1>5. /\ rd'[r] \in Reader /\ rd'[r].pc = "readOffset" /\ rd'[r].seg = s
      /\ rd'[r].want = rd[r].want /\ rd'[r].alone = (Others(r, s) = {})
  <2>1. (Others(r, s) = {}) \in BOOLEAN
    OBVIOUS
  <2> DEFINE a == (Others(r, s) = {})
             k == [rd[r] EXCEPT !.pc = "readOffset", !.seg = s, !.alone = a]
  <2>2. rd'[r] = k
    BY DEF Arrives
  <2>3. a \in BOOLEAN
    BY <2>1
  <2> HIDE DEF a
  <2>4. k \in Reader
    BY <1>1, <1>2, <2>3 DEF Reader, OnFiles
  <2>5. k.pc = "readOffset" /\ k.seg = s /\ k.want = rd[r].want /\ k.alone = a
    BY <1>2 DEF Reader
  <2> HIDE DEF k
  <2> QED
    BY <2>2, <2>4, <2>5 DEF a
<1>6. ASSUME NEW q \in Readers, q # r
      PROVE  /\ rd'[q] \in Reader /\ rd'[q].pc = rd[q].pc /\ rd'[q].seg = rd[q].seg
             /\ rd'[q].want = rd[q].want
             /\ rd'[q].alone => rd'[q] = rd[q] /\ q \notin Others(r, s)
  <2>1. rd[q] \in Reader
    BY ReaderFields
  <2>2. CASE q \in Others(r, s)
    <3>1. rd'[q] = [rd[q] EXCEPT !.alone = FALSE]
      BY <1>6, <2>2 DEF Arrives
    <3> QED
      BY <2>1, <3>1 DEF Reader
  <2>3. CASE q \notin Others(r, s)
    BY <1>6, <2>1, <2>3 DEF Arrives
  <2> QED
    BY <2>2, <2>3
<1>7. TypeInv'
  <2>1. rd' \in [Readers -> Reader]
    BY <1>5, <1>6 DEF Arrives
  <2> QED
    BY <1>4, <2>1 DEF Inv, TypeInv
<1>8. SegInv'
  BY DEF Inv, SegInv, Appended
<1>9. LockInv'
  <2>1. r \in Holding
    BY DEF Holding
  <2> QED
    BY <2>1 DEF Inv, LockInv
<1>10. ReadInv'
  <2>0. Appended' = Appended /\ "readOffset" \in OnFiles /\ "done" \notin OnFiles
    BY DEF Appended, OnFiles
  <2>1. ASSUME NEW q \in Readers
        PROVE  /\ rd'[q].pc \in OnFiles => /\ rd'[q].seg \in 1..Len(segs)
                                           /\ Covers(segs[rd'[q].seg], rd'[q].want)
               /\ rd'[q].pc \in OnFiles /\ rd'[q].alone => OnTrack(rd'[q], segs, idxCur', logCur)
               /\ rd'[q].pc = "done" /\ rd'[q].alone => Exact(rd'[q], Appended)
    <3>1. CASE q = r
      <4>1. Place(rd'[r], segs) = n
        BY <1>5 DEF Place
      <4>2. OnTrack(rd'[r], segs, idxCur', logCur)
        BY <1>4, <1>5, <4>1 DEF OnTrack
      <4> QED
        BY <1>1, <1>5, <2>0, <3>1, <4>2
    <3>2. CASE q # r
      <4>1. ASSUME rd'[q].pc \in OnFiles, rd'[q].alone
            PROVE  OnTrack(rd'[q], segs, idxCur', logCur)
        <5>1. rd'[q] = rd[q] /\ rd[q].seg # s
          BY <1>6, <3>2, <4>1 DEF Others
        <5>2. OnTrack(rd[q], segs, idxCur, logCur) /\ rd[q].seg \in 1..Len(segs)
          BY <4>1, <5>1 DEF Inv, ReadInv
        <5>3. idxCur'[rd[q].seg] = idxCur[rd[q].seg]
          BY <1>4, <5>1, <5>2
        <5> QED
          BY <5>1, <5>2, <5>3 DEF OnTrack
      <4> QED
        BY <1>6, <3>2, <4>1 DEF Inv, ReadInv
    <3> QED
      BY <3>1, <3>2
  <2>2. ASSUME NEW q1 \in Readers, NEW q2 \in Readers, q1 # q2, rd'[q1].pc \in OnFiles,
               rd'[q2].pc \in OnFiles, rd'[q1].seg = rd'[q2].seg
        PROVE  ~rd'[q1].alone
    <3>1. CASE q1 = r
      <4>1. q2 \in Others(r, s)
        BY <1>5, <1>6, <2>2, <3>1 DEF Others
      <4> QED
        BY <1>5, <3>1, <4>1
    <3>2. CASE q2 = r
      <4>1. q1 \in Others(r, s)
        BY <1>5, <1>6, <2>2, <3>2 DEF Others
      <4> QED
        BY <1>6, <2>2, <3>2, <4>1
    <3>3. CASE q1 # r /\ q2 # r
      BY <1>6, <2>2, <3>3 DEF Inv, ReadInv
    <3> QED
      BY <3>1, <3>2, <3>3
  <2>3. /\ \A q \in Readers :
              /\ rd'[q].pc \in OnFiles => /\ rd'[q].seg \in 1..Len(segs)
                                          /\ Covers(segs[rd'[q].seg], rd'[q].want)
              /\ rd'[q].pc \in OnFiles /\ rd'[q].alone => OnTrack(rd'[q], segs, idxCur', logCur)
              /\ rd'[q].pc = "done" /\ rd'[q].alone => Exact(rd'[q], Appended)
        /\ \A q1, q2 \in Readers :
              q1 # q2 /\ rd'[q1].pc \in OnFiles /\ rd'[q2].pc \in OnFiles /\ rd'[q1].seg = rd'[q2].seg
                 => ~rd'[q1].alone
        /\ UNCHANGED <<segs, logCur>>
    BY <2>1, <2>2
  <2> QED
    BY <2>0, <2>3, Zenon DEF ReadInv
<1> QED
  BY <1>7, <1>8, <1>9, <1>10 DEF Inv

LEMMA SeekIndexKeeps ==
    ASSUME Inv, NEW r \in Readers, SeekIndex(r)
    PROVE  Inv'
<1>1. rd[r].pc = "scan" /\ UNCHANGED <<segs, logCur, wr, up>>
  BY DEF SeekIndex
<1>2. CASE /\ \A s \in DOMAIN segs : ~Covers(segs[s], rd[r].want)
           /\ Return(r, NotFound) /\ UNCHANGED idxCur
  BY <1>1, <1>2, NotFoundKeeps
<1>3. CASE \E s \in DOMAIN segs :
             LET others == {q \in Readers \ {r} : rd[q].pc \in OnFiles /\ rd[q].seg = s}
             IN  /\ Covers(segs[s], rd[r].want)
                 /\ idxCur' = [idxCur EXCEPT ![s] = 2 * (rd[r].want - segs[s].base)]
                 /\ rd' = [q \in Readers |->
                             IF q = r
                             THEN [rd[r] EXCEPT !.pc = "readOffset", !.seg = s,
                                                !.alone = (others = {})]
                             ELSE IF q \in others THEN [rd[q] EXCEPT !.alone = FALSE]
                             ELSE rd[q]]
  <2>1. PICK s \in DOMAIN segs :
             LET others == {q \in Readers \ {r} : rd[q].pc \in OnFiles /\ rd[q].seg = s}
             IN  /\ Covers(segs[s], rd[r].want)
                 /\ idxCur' = [idxCur EXCEPT ![s] = 2 * (rd[r].want - segs[s].base)]
                 /\ rd' = [q \in Readers |->
                             IF q = r
                             THEN [rd[r] EXCEPT !.pc = "readOffset", !.seg = s,
                                                !.alone = (others = {})]
                             ELSE IF q \in others THEN [rd[q] EXCEPT !.alone = FALSE]
                             ELSE rd[q]]
    BY <1>3
  <2>2. Arrives(r, s)
    BY <2>1 DEF Arrives, Others
  <2> QED
    BY <1>1, <2>1, <2>2, FoundKeeps
<1> QED
  BY <1>2, <1>3 DEF SeekIndex

----------------------------------------------------------------------------
(* The writer.                                                             *)

\* The steps that change the lock, or end the process, and nothing else.
LEMMA LockMoves ==
    ASSUME Inv, UNCHANGED <<segs, idxCur, logCur, rd>>,
           wr' \in {"idle", "wait", "locked", "unlock"}, up' \in BOOLEAN, LockInv'
    PROVE  Inv'
<1>1. Appended' = Appended
  BY DEF Appended
<1>2. TypeInv' /\ SegInv'
  BY <1>1 DEF Inv, TypeInv, SegInv
<1>3. ReadInv'
  BY <1>1 DEF Inv, ReadInv
<1> QED
  BY <1>2, <1>3 DEF Inv

LEMMA LockStepsKeep ==
    ASSUME Inv, WantLock \/ Lock \/ Unlock \/ \E r \in Readers : ReadPrefixPanics(r)
    PROVE  Inv'
<1>1. /\ UNCHANGED <<segs, idxCur, logCur, rd>>
      /\ wr' \in {"idle", "wait", "locked", "unlock"} /\ up' \in BOOLEAN
  BY DEF WantLock, Lock, Unlock, ReadPrefixPanics, Inv, TypeInv
<1>2. Holding' = Holding
  BY <1>1 DEF Holding
<1>3. LockInv'
  BY <1>2 DEF WantLock, Lock, Unlock, ReadPrefixPanics, Inv, LockInv
<1> QED
  BY <1>1, <1>3, LockMoves

\* A record behind the others.
LEMMA LaidAppend ==
    ASSUME NEW seg \in Segment, Laid(seg), NEW len \in Nat
    PROVE  LET new == [seg EXCEPT !.recs = Append(@, [pos |-> seg.bytes, len |-> len]),
                                  !.bytes = @ + 8 + len]
           IN  /\ new \in Segment /\ Laid(new) /\ new.base = seg.base
               /\ Len(new.recs) = Len(seg.recs) + 1
<1> DEFINE rec == [pos |-> seg.bytes, len |-> len]
           rs == Append(seg.recs, rec)
           bs == seg.bytes + 8 + len
           new == [seg EXCEPT !.recs = rs, !.bytes = bs]
<1>1. seg.base \in Nat /\ seg.bytes \in Nat
  BY DEF Segment
<1>2. seg.recs \in Seq(Record)
  BY DEF Segment
<1>3. rec \in Record /\ rec.pos = seg.bytes /\ rec.len = len
  BY <1>1 DEF Record
<1>4. bs \in Nat
  BY <1>1
<1> HIDE DEF rec
<1>5. rs \in Seq(Record) /\ Len(rs) = Len(seg.recs) + 1 /\ rs[Len(seg.recs) + 1] = rec
  BY <1>2, <1>3
<1>6. Len(seg.recs) \in Nat /\ \A i \in 1..Len(seg.recs) : rs[i] = seg.recs[i]
  BY <1>2, <1>3
<1> HIDE DEF rs, bs
<1>7. new \in Segment /\ new.base = seg.base /\ new.recs = rs /\ new.bytes = bs
  BY <1>4, <1>5 DEF Segment
<1>8. \A i \in 1..Len(seg.recs) : seg.recs[i].pos \in Nat /\ seg.recs[i].len \in Nat
  <2> SUFFICES ASSUME NEW i \in 1..Len(seg.recs)
               PROVE  seg.recs[i].pos \in Nat /\ seg.recs[i].len \in Nat
    OBVIOUS
  <2>1. seg.recs[i] \in Record
    BY <1>2
  <2> QED
    BY <2>1 DEF Record
<1>9. \A i \in 1..Len(seg.recs) : /\ seg.recs[i].pos + 8 + seg.recs[i].len <= seg.bytes
                                  /\ seg.recs[i].pos < seg.bytes
  <2> SUFFICES ASSUME NEW i \in 1..Len(seg.recs)
               PROVE  /\ seg.recs[i].pos + 8 + seg.recs[i].len <= seg.bytes
                      /\ seg.recs[i].pos < seg.bytes
    OBVIOUS
  <2>1. seg.recs[i].pos + 8 + seg.recs[i].len <= seg.bytes
    BY DEF Laid
  <2> QED
    BY <1>1, <1>8, <2>1
<1>10. Laid(new)
  <2> SUFFICES ASSUME NEW k \in 1..(Len(seg.recs) + 1)
               PROVE  /\ rs[k].pos + 8 + rs[k].len <= bs
                      /\ \A j \in 1..(Len(seg.recs) + 1) : j < k => rs[j].pos < rs[k].pos
    BY <1>5, <1>7 DEF Laid
  <2>1. CASE k \in 1..Len(seg.recs)
    <3>1. rs[k].pos + 8 + rs[k].len <= seg.bytes /\ rs[k].pos \in Nat /\ rs[k].len \in Nat
      BY <1>6, <1>8, <1>9, <2>1
    <3>2. rs[k].pos + 8 + rs[k].len <= bs
      BY <1>1, <3>1 DEF bs
    <3>3. ASSUME NEW j \in 1..(Len(seg.recs) + 1), j < k
          PROVE  rs[j].pos < rs[k].pos
      <4>1. j \in 1..Len(seg.recs)
        BY <1>6, <2>1, <3>3
      <4> QED
        BY <1>6, <2>1, <3>3, <4>1 DEF Laid
    <3> QED
      BY <3>2, <3>3
  <2>2. CASE k = Len(seg.recs) + 1
    <3>1. rs[k].pos = seg.bytes /\ rs[k].len = len
      BY <1>3, <1>5, <2>2
    <3>2. rs[k].pos + 8 + rs[k].len <= bs
      BY <1>1, <3>1 DEF bs
    <3>3. ASSUME NEW j \in 1..(Len(seg.recs) + 1), j < k
          PROVE  rs[j].pos < rs[k].pos
      <4>1. j \in 1..Len(seg.recs)
        BY <1>6, <2>2, <3>3
      <4> QED
        BY <1>6, <1>9, <3>1, <4>1
    <3> QED
      BY <3>2, <3>3
  <2> QED
    BY <1>6, <2>1, <2>2
<1>11. new = [seg EXCEPT !.recs = Append(@, [pos |-> seg.bytes, len |-> len]), !.bytes = @ + 8 + len]
  BY DEF rs, bs, rec
<1> HIDE DEF new
<1> QED
  BY <1>5, <1>7, <1>10, <1>11

\* The segments after a rollover, if one is due: the last one ends where the
\* log ended before.
Rolled == IF segs[Len(segs)].bytes >= Limit THEN Append(segs, NewSegment(Appended)) ELSE segs

LEMMA RolledFacts ==
    ASSUME Inv
    PROVE  /\ Rolled \in Seq(Segment) /\ Len(Rolled) \in Nat /\ Len(Rolled) >= 1
           /\ \A i \in 1..Len(Rolled) : Laid(Rolled[i])
           /\ \A o \in Nat : o < Appended => \E i \in 1..Len(Rolled) : Covers(Rolled[i], o)
           /\ Rolled[Len(Rolled)].base + Len(Rolled[Len(Rolled)].recs) = Appended
           /\ \A i \in 1..Len(Rolled) : i # Len(Rolled) => i \in 1..Len(segs)
           /\ Appended \in Nat
<1>1. segs \in Seq(Segment) /\ Len(segs) \in Nat /\ Len(segs) >= 1
  BY DEF Inv, TypeInv
<1>2. Appended \in Nat
  <2>1. segs[Len(segs)] \in Segment
    BY <1>1
  <2>2. segs[Len(segs)].base \in Nat /\ Len(segs[Len(segs)].recs) \in Nat
    BY <2>1 DEF Segment
  <2> QED
    BY <2>2 DEF Appended
<1>3. CASE Rolled = segs
  BY <1>1, <1>2, <1>3 DEF Inv, SegInv, Appended
<1>4. CASE Rolled = Append(segs, NewSegment(Appended))
  <2> DEFINE e == NewSegment(Appended)
  <2>1. e.base = Appended /\ e.recs = <<>> /\ Len(e.recs) = 0
    BY DEF NewSegment
  <2>2. e \in Segment
    BY <1>2 DEF NewSegment, Segment
  <2>3. Laid(e)
    BY <2>1 DEF Laid
  <2> HIDE DEF e
  <2>4. /\ Rolled \in Seq(Segment) /\ Len(Rolled) = Len(segs) + 1
        /\ Rolled[Len(segs) + 1] = e /\ \A i \in 1..Len(segs) : Rolled[i] = segs[i]
    BY <1>1, <1>4, <2>2 DEF e
  <2>5. \A i \in 1..(Len(segs) + 1) : i \in 1..Len(segs) \/ i = Len(segs) + 1
    BY <1>1
  <2>6. \A i \in 1..Len(Rolled) : Laid(Rolled[i])
    BY <2>3, <2>4, <2>5 DEF Inv, SegInv
  <2>7. ASSUME NEW o \in Nat, o < Appended
        PROVE  \E i \in 1..Len(Rolled) : Covers(Rolled[i], o)
    <3>1. PICK i \in 1..Len(segs) : Covers(segs[i], o)
      BY <2>7 DEF Inv, SegInv
    <3>2. i \in 1..Len(Rolled) /\ Rolled[i] = segs[i]
      BY <1>1, <2>4
    <3> QED
      BY <3>1, <3>2
  <2>8. Rolled[Len(Rolled)].base + Len(Rolled[Len(Rolled)].recs) = Appended
    BY <1>2, <2>1, <2>4
  <2>9. Len(Rolled) \in Nat /\ Len(Rolled) >= 1
    BY <1>1, <2>4
  <2>10. \A i \in 1..Len(Rolled) : i # Len(Rolled) => i \in 1..Len(segs)
    BY <2>4, <2>5
  <2> QED
    BY <1>2, <2>4, <2>6, <2>7, <2>8, <2>9, <2>10
<1> QED
  BY <1>3, <1>4 DEF Rolled

LEMMA AppendKeeps ==
    ASSUME Inv, Append_
    PROVE  Inv'
<1> DEFINE s == Len(Rolled)
<1>1. PICK len \in Lengths :
         LET new == [Rolled[s] EXCEPT !.recs = Append(@, [pos |-> Rolled[s].bytes, len |-> len]),
                                      !.bytes = @ + 8 + len]
         IN  /\ segs' = [Rolled EXCEPT ![s] = new]
             /\ idxCur' = [i \in 1..s |-> IF i = s THEN Words(new) ELSE idxCur[i]]
             /\ logCur' = [i \in 1..s |-> IF i = s THEN new.bytes ELSE logCur[i]]
  BY DEF Append_, Rolled
<1> DEFINE last == Rolled[s]
           new == [last EXCEPT !.recs = Append(@, [pos |-> last.bytes, len |-> len]),
                               !.bytes = @ + 8 + len]
<1>2. /\ segs' = [Rolled EXCEPT ![s] = new]
      /\ idxCur' = [i \in 1..s |-> IF i = s THEN Words(new) ELSE idxCur[i]]
      /\ logCur' = [i \in 1..s |-> IF i = s THEN new.bytes ELSE logCur[i]]
  BY <1>1
<1>3. wr = "locked" /\ wr' = "unlock" /\ UNCHANGED <<rd, up>>
  BY DEF Append_
<1>4. len \in Nat
  BY ReadsAssumption
<1>5. s \in 1..s /\ last \in Segment /\ Laid(last)
  BY RolledFacts
<1>6. new \in Segment /\ Laid(new) /\ new.base = last.base /\ Len(new.recs) = Len(last.recs) + 1
  BY <1>4, <1>5, LaidAppend
<1> HIDE DEF new
<1>7. Words(new) \in Nat /\ new.bytes \in Nat
  <2>1. Len(new.recs) \in Nat /\ new.bytes \in Nat
    BY <1>6 DEF Segment
  <2> QED
    BY <2>1 DEF Words
<1>8. /\ segs' \in Seq(Segment) /\ Len(segs') = s /\ segs'[s] = new
      /\ \A i \in 1..s : i # s => segs'[i] = Rolled[i]
  BY <1>2, <1>5, <1>6, RolledFacts
<1>9. TypeInv'
  <2>1. idxCur' \in [1..s -> Nat]
    BY <1>2, <1>7, RolledFacts DEF Inv, TypeInv
  <2>2. logCur' \in [1..s -> Nat]
    BY <1>2, <1>7, RolledFacts DEF Inv, TypeInv
  <2>3. Len(segs') >= 1
    BY <1>8, RolledFacts
  <2> QED
    BY <1>3, <1>8, <2>1, <2>2, <2>3 DEF Inv, TypeInv
<1>10. Appended' = Appended + 1
  <2>1. Appended' = new.base + Len(new.recs)
    BY <1>8 DEF Appended
  <2>2. last.base \in Nat /\ Len(last.recs) \in Nat
    BY <1>5 DEF Segment
  <2>3. last.base + Len(last.recs) = Appended
    BY RolledFacts
  <2> QED
    BY <1>6, <2>1, <2>2, <2>3
<1>11. SegInv'
  <2>1. \A i \in 1..Len(segs') : Laid(segs'[i])
    BY <1>6, <1>8, RolledFacts
  <2>2. ASSUME NEW o \in Nat, o < Appended + 1
        PROVE  \E i \in 1..s : Covers(segs'[i], o)
    <3>1. last.base \in Nat /\ Len(last.recs) \in Nat /\ last.base + Len(last.recs) = Appended
      <4>1. last.base \in Nat /\ Len(last.recs) \in Nat
        BY <1>5 DEF Segment
      <4> QED
        BY <4>1, RolledFacts
    <3> HIDE DEF last
    <3>2. ASSUME last.base <= o
          PROVE  Covers(new, o)
      BY <1>6, <2>2, <3>1, <3>2 DEF Covers
    <3>3. CASE last.base <= o
      BY <1>5, <1>8, <3>2, <3>3
    <3>4. CASE ~(last.base <= o)
      <4>1. o < Appended
        BY <3>1, <3>4
      <4>2. PICK i \in 1..s : Covers(Rolled[i], o)
        BY <4>1, RolledFacts
      <4>3. i # s
        BY <3>4, <4>2 DEF Covers, last
      <4> QED
        BY <1>8, <4>2, <4>3
    <3> QED
      BY <3>3, <3>4
  <2> HIDE DEF s
  <2> QED
    BY <1>8, <1>10, <2>1, <2>2 DEF SegInv
<1>12. Holding = {} /\ Holding' = {}
  BY <1>3 DEF Inv, LockInv, Holding
<1>13. LockInv'
  BY <1>12 DEF LockInv
<1>14. ReadInv'
  <2>1. \A r \in Readers : rd'[r].pc \in {"idle", "wait"}
    BY <1>12 DEF Holding
  <2>2. \A r \in Readers : rd'[r].pc \notin OnFiles /\ rd'[r].pc # "done"
    BY <2>1 DEF OnFiles
  <2> QED
    BY <2>2 DEF ReadInv
<1> QED
  BY <1>9, <1>11, <1>13, <1>14 DEF Inv

LEMMA RestartKeeps ==
    ASSUME Inv, Restart
    PROVE  Inv'
<1>1. \A r \in Readers : rd'[r] = Idle
  BY DEF Restart
<1>2. \A r \in Readers : rd'[r].pc \notin OnFiles /\ rd'[r].pc # "done"
  BY <1>1, IdleType DEF OnFiles
<1>3. ReadInv'
  BY <1>2 DEF ReadInv
<1>4. TypeInv'
  <2>1. rd' \in [Readers -> Reader]
    BY IdleType DEF Restart
  <2>2. DOMAIN segs = 1..Len(segs)
    BY DEF Inv, TypeInv
  <2>3. idxCur' \in [1..Len(segs) -> Nat] /\ logCur' \in [1..Len(segs) -> Nat]
    BY <2>2 DEF Restart
  <2> QED
    BY <2>1, <2>3 DEF Restart, Inv, TypeInv
<1>5. SegInv' /\ LockInv'
  BY DEF Restart, Inv, SegInv, LockInv, Appended
<1> QED
  BY <1>3, <1>4, <1>5 DEF Inv

----------------------------------------------------------------------------
(* The theorem.                                                            *)

LEMMA InitInv == Init => Inv
<1> SUFFICES ASSUME Init
             PROVE  Inv
  OBVIOUS
<1>1. \A r \in Readers : rd[r].pc = "idle"
  BY IdleType DEF Init
<1>2. LockInv /\ ReadInv
  BY <1>1 DEF Init, LockInv, ReadInv, OnFiles
<1>3. Len(segs) = 1 /\ segs[1] = NewSegment(0) /\ Len(NewSegment(0).recs) = 0
      /\ NewSegment(0).base = 0
  BY DEF Init, NewSegment
<1>4. Appended = 0
  BY <1>3 DEF Appended
<1>5. SegInv
  BY <1>3, <1>4 DEF SegInv, Laid
<1>6. TypeInv
  <2>1. NewSegment(0) \in Segment
    BY DEF NewSegment, Segment
  <2>2. segs \in Seq(Segment)
    BY <2>1 DEF Init
  <2>3. idxCur \in [1..1 -> Nat] /\ logCur \in [1..1 -> Nat]
    BY DEF Init
  <2>4. rd \in [Readers -> Reader]
    BY IdleType DEF Init
  <2> QED
    BY <1>3, <2>2, <2>3, <2>4 DEF Init, TypeInv
<1> QED
  BY <1>2, <1>5, <1>6 DEF Inv

LEMMA NextInv == Inv /\ [Next]_vars => Inv'
<1> SUFFICES ASSUME Inv, [Next]_vars
             PROVE  Inv'
  OBVIOUS
<1>1. ASSUME NEW r \in Readers, Call(r) \/ ReadStep(r)
      PROVE  Inv'
  BY <1>1, CallKeeps, RLockKeeps, SeekIndexKeeps, ReadOffsetKeeps, ReadPosKeeps, SeekLogKeeps,
     ReadPrefixKeeps, LockStepsKeep, ReadPayloadKeeps, RUnlockKeeps DEF ReadStep
<1>2. CASE WantLock \/ WriteStep
  BY <1>2, LockStepsKeep, AppendKeeps DEF WriteStep
<1>3. CASE Restart
  BY <1>3, RestartKeeps
<1>4. CASE UNCHANGED vars
  <2>1. LockInv'
    BY <1>4 DEF vars, Inv, LockInv, Holding
  <2> QED
    BY <1>4, <2>1, LockMoves DEF vars, Inv, TypeInv
<1> QED
  BY <1>1, <1>2, <1>3, <1>4 DEF Next

\* A read that shares the cursors of its segment with no other read returns the
\* message at the offset it asked for, or "not found" if there is none, however
\* many appends and rollovers come between reads (ReadAt of core/partition.go,
\* readAtByte of core/log.go, Read of core/log_index.go).
THEOREM LoneReadsExact == Spec => []LoneReadExact
<1>1. Inv => LoneReadExact
  BY DEF Inv, ReadInv, Exact, LoneReadExact
<1> QED
  BY InitInv, NextInv, <1>1, PTL DEF Spec
=============================================================================
