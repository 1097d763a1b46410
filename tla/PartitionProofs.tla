-------------------------- MODULE PartitionProofs --------------------------
(***************************************************************************)
(* Machine-checked proofs about Partition, for every set of message        *)
(* lengths and rollover limits and any number of appends.                  *)
(***************************************************************************)
EXTENDS Partition, FiniteSetTheorems, WellFoundedInduction, TLAPS

----------------------------------------------------------------------------
(* Facts about the operators.                                              *)

\* Integer halves: the number of entries in a run of index words (LogIndex.Count).
LEMMA HalfOf ==
    ASSUME NEW n \in Nat
    PROVE  /\ n \div 2 \in Nat
           /\ 2 * (n \div 2) <= n /\ n <= 2 * (n \div 2) + 1
  OBVIOUS

\* The entry count of a segment is a natural number that its words bound.
LEMMA CountType ==
    ASSUME NEW seg, IsSegment(seg)
    PROVE  /\ Count(seg) \in Nat
           /\ 2 * Count(seg) <= Len(seg.idx)
           /\ Len(seg.idx) \in Nat
  <1>1. Len(seg.idx) \in Nat
    BY DEF IsSegment
  <1> QED  BY ONLY <1>1, HalfOf DEF Count

\* A segment that NewLog just created is well formed and has no entries.
LEMMA EmptySegmentType == IsSegment(EmptySegment) /\ Count(EmptySegment) = 0
  BY DEF EmptySegment, IsSegment, Count

\* Any number of the writes of an append leaves a well-formed segment.
LEMMA WrittenType ==
    ASSUME NEW seg, IsSegment(seg), NEW h \in Handle, NEW m \in Message,
           NEW o \in Nat, NEW w \in 0..4
    PROVE  IsSegment(Written(seg, h, m, o, w))
  <1>0. m.len \in Nat /\ h.size \in Nat
    BY PartitionAssumption DEF Message, Handle
  <1>1. (Written(seg, h, m, o, w)).bytes \in Nat
    BY <1>0 DEF Written, IsSegment, PrefixWidth
  <1>2. /\ DOMAIN (Written(seg, h, m, o, w)).recs \subseteq Nat
        /\ (Written(seg, h, m, o, w)).recs \in [DOMAIN (Written(seg, h, m, o, w)).recs -> Message]
    BY DEF Written, IsSegment
  <1>3. (Written(seg, h, m, o, w)).idx \in Seq(Nat)
    BY <1>0 DEF Written, IsSegment
  <1> QED  BY <1>1, <1>2, <1>3 DEF IsSegment, Written

\* NewLog leaves a well-formed directory that has the segment it was asked for.
LEMMA CreatedType ==
    ASSUME NEW d, DiskOK(d), NEW base \in Nat
    PROVE  /\ DiskOK(Created(d, base))
           /\ DOMAIN Created(d, base) = DOMAIN d \cup {base}
           /\ \A b \in DOMAIN d : Created(d, base)[b] = d[b]
           /\ base \notin DOMAIN d => Created(d, base)[base] = EmptySegment
  <1>1. DOMAIN Created(d, base) = DOMAIN d \cup {base}
    BY DEF Created
  <1>2. IsFiniteSet(DOMAIN d \cup {base})
    BY FS_AddElement DEF DiskOK
  <1>3. \A b \in DOMAIN Created(d, base) : IsSegment(Created(d, base)[b])
    BY EmptySegmentType DEF Created, DiskOK
  <1> QED  BY <1>1, <1>2, <1>3 DEF Created, DiskOK

\* LoadLog returns a well-formed handle on the segment.
LEMMA LoadLogType ==
    ASSUME NEW d, DiskOK(d), NEW b \in DOMAIN d
    PROVE  LoadLog(d, b) \in Handle
  <1>1. b \in Nat /\ IsSegment(d[b])
    BY DEF DiskOK
  <1>2. d[b].bytes \in Nat /\ Count(d[b]) \in Nat
    BY <1>1, CountType DEF IsSegment
  <1> QED  BY <1>1, <1>2 DEF LoadLog, Handle

\* Writing to one segment leaves a well-formed directory.
LEMMA UpdatedDiskType ==
    ASSUME NEW d, DiskOK(d), NEW b \in DOMAIN d, NEW seg, IsSegment(seg)
    PROVE  DiskOK([d EXCEPT ![b] = seg])
  BY DEF DiskOK

----------------------------------------------------------------------------
(* Type correctness.                                                       *)

\* The offset that names the next segment is a natural number.
LEMMA RollBaseType == TypeOK => RollBase \in Nat /\ logs[active] \in Handle
  <1> SUFFICES ASSUME TypeOK PROVE RollBase \in Nat /\ logs[active] \in Handle
    OBVIOUS
  <1>1. logs \in Seq(Handle) /\ active \in DOMAIN logs
    BY DEF TypeOK, HandlesOK
  <1>2. logs[active] \in Handle
    BY <1>1
  <1> QED  BY <1>2 DEF RollBase, Handle

\* The state an append writes to, after the rollover if one was due.
LEMMA RolledType ==
    ASSUME TypeOK
    PROVE  /\ DiskOK(Rolled.disk)
           /\ HandlesOK(Rolled.disk, Rolled.logs, Rolled.active)
           /\ Target \in Handle
           /\ Target.base \in DOMAIN Rolled.disk
  <1>1. CASE ShouldRoll
    <2> DEFINE d == Created(disk, RollBase)
               h == LoadLog(d, RollBase)
    <2>1. Rolled = [disk |-> d, logs |-> Append(logs, h), active |-> Len(logs) + 1]
      BY <1>1 DEF Rolled
    <2>2. DiskOK(d) /\ DOMAIN d = DOMAIN disk \cup {RollBase}
      BY CreatedType, RollBaseType DEF TypeOK
    <2>3. h \in Handle /\ h.base = RollBase
      BY <2>2, LoadLogType DEF LoadLog
    <2>4. HandlesOK(d, Append(logs, h), Len(logs) + 1)
      <3> HIDE DEF d, h
      <3>1. logs \in Seq(Handle) /\ \A i \in DOMAIN logs : logs[i].base \in DOMAIN disk
        BY DEF TypeOK, HandlesOK
      <3> QED  BY <3>1, <2>2, <2>3 DEF HandlesOK
    <2>5. Target = Append(logs, h)[Len(logs) + 1]
      BY <2>1 DEF Target
    <2> HIDE DEF d, h
    <2>6. Append(logs, h)[Len(logs) + 1] = h
      BY <2>3 DEF TypeOK, HandlesOK
    <2> QED  BY <2>1, <2>2, <2>3, <2>4, <2>5, <2>6
  <1>2. CASE ~ShouldRoll
    <2>1. Rolled = [disk |-> disk, logs |-> logs, active |-> active]
      BY <1>2 DEF Rolled
    <2>2. Target = logs[active]
      BY <2>1 DEF Target
    <2> QED  BY <2>1, <2>2, RollBaseType DEF TypeOK, HandlesOK
  <1> QED  BY <1>1, <1>2

\* What the files and the handles look like after w writes of an append that
\* puts o into the index and next into the handle.
LEMMA AfterTypeAt ==
    ASSUME TypeOK, NEW m \in Message, NEW o \in Nat, NEW next \in Nat, NEW w \in 0..4
    PROVE  /\ DiskOK(DiskAfter(m, o, w))
           /\ DOMAIN DiskAfter(m, o, w) = DOMAIN Rolled.disk
           /\ HandlesOK(DiskAfter(m, o, w), LogsAfter(m, next, w), Rolled.active)
  <1> DEFINE h == Target
             seg == Written(Rolled.disk[h.base], h, m, o, w)
             d == DiskAfter(m, o, w)
             hs == LogsAfter(m, next, w)
             g == Advanced(h, m, next, w)
  <1>1. /\ DiskOK(Rolled.disk) /\ h \in Handle /\ h.base \in DOMAIN Rolled.disk
        /\ HandlesOK(Rolled.disk, Rolled.logs, Rolled.active)
    BY RolledType
  <1>2. d = [Rolled.disk EXCEPT ![h.base] = seg]
    BY DEF DiskAfter
  <1>3. IsSegment(seg)
    BY <1>1, WrittenType DEF DiskOK, Handle
  <1>4. DiskOK(d) /\ DOMAIN d = DOMAIN Rolled.disk
    BY <1>1, <1>2, <1>3, UpdatedDiskType
  <1>5. g \in Handle /\ g.base = h.base
    <2>1. m.len \in Nat
      BY PartitionAssumption DEF Message
    <2>2. /\ h = [base |-> h.base, size |-> h.size, next |-> h.next]
          /\ h.base \in Nat /\ h.size \in Nat /\ h.next \in Nat
      BY <1>1 DEF Handle
    <2>3. CASE w < 2
      BY <1>1, <2>3 DEF Advanced
    <2>4. CASE ~(w < 2)
      <3>1. g = [base |-> h.base, size |-> h.size + m.len + PrefixWidth, next |-> next]
        BY <2>2, <2>4 DEF Advanced
      <3> QED  BY <2>1, <2>2, <3>1 DEF Handle, PrefixWidth
    <2> QED  BY <2>3, <2>4
  <1>6. hs = [Rolled.logs EXCEPT ![Rolled.active] = g]
    BY DEF LogsAfter, Target
  <1>7. HandlesOK(d, hs, Rolled.active)
    <2> HIDE DEF d, hs, g
    <2> QED  BY <1>1, <1>4, <1>5, <1>6 DEF HandlesOK, Target
  <1> QED  BY <1>4, <1>7

\* The same for the append of a leader.
LEMMA AfterType ==
    ASSUME TypeOK, NEW m \in Message, NEW w \in 0..4
    PROVE  /\ DiskOK(DiskAfter(m, Target.next, w))
           /\ DOMAIN DiskAfter(m, Target.next, w) = DOMAIN Rolled.disk
           /\ HandlesOK(DiskAfter(m, Target.next, w),
                        LogsAfter(m, Target.next + 1, w), Rolled.active)
  <1>1. Target.next \in Nat /\ Target.next + 1 \in Nat
    BY RolledType DEF Handle
  <1> QED  BY <1>1, AfterTypeAt

\* LoadPartition opens every segment once, in the order of their offsets, and
\* the last one is the active log.
LEMMA LoadPartitionLoads ==
    ASSUME NEW d, DiskOK(d), DOMAIN d # {}, LoadPartition(d)
    PROVE  /\ HandlesOK(d, logs', active')
           /\ active' = Len(logs')
           /\ \A i \in DOMAIN logs' : logs'[i] = LoadLog(d, logs'[i].base)
           /\ \A b \in DOMAIN d : \E i \in DOMAIN logs' : logs'[i].base = b
           /\ \A b \in DOMAIN d : b <= logs'[active'].base
           /\ maxSize' \in Nat
  <1> DEFINE n == Cardinality(DOMAIN d)
  <1>1. PICK files \in ReadDir(DOMAIN d) :
            /\ logs' = [i \in DOMAIN files |-> LoadLog(d, files[i])]
            /\ active' = ActiveLog(logs')
            /\ maxSize' \in RolloverLimits
    BY DEF LoadPartition
  <1>2. n \in Nat /\ n # 0
    BY FS_CardinalityType, FS_EmptySet DEF DiskOK
  <1>3. /\ files \in [1..n -> DOMAIN d]
        /\ \A b \in DOMAIN d : \E i \in 1..n : files[i] = b
        /\ \A i, j \in 1..n : i < j => files[i] < files[j]
    BY DEF ReadDir
  <1> HIDE DEF n
  <1>4. logs' \in Seq(Handle) /\ Len(logs') = n
    <2>1. \A i \in 1..n : LoadLog(d, files[i]) \in Handle
      BY <1>3, LoadLogType
    <2>2. logs' \in [1..n -> Handle]
      BY <1>1, <1>3, <2>1
    <2> QED  BY <1>2, <2>2
  <1>5. \A i \in 1..n : logs'[i] = LoadLog(d, files[i]) /\ logs'[i].base = files[i]
    BY <1>1, <1>3 DEF LoadLog
  <1>6. \A j \in 1..n : logs'[j].base <= logs'[n].base
    <2>1. \A j \in 1..n : files[j] \in Nat
      BY <1>3 DEF DiskOK
    <2>2. \A j \in 1..n : files[j] <= files[n]
      BY <1>2, <1>3, <2>1
    <2> QED  BY <2>2, <1>5, <1>2
  <1>7. \A i \in 1..n : (\A j \in 1..n : logs'[j].base <= logs'[i].base) => i = n
    <2>1. \A i \in 1..n : files[i] \in Nat
      BY <1>3 DEF DiskOK
    <2>2. \A i \in 1..n : i # n => files[i] < files[n]
      BY <1>2, <1>3
    <2> QED  BY <1>2, <1>5, <2>1, <2>2
  <1>8. active' = n
    <2>1. DOMAIN logs' = 1..n
      BY <1>4
    <2>2. n \in 1..n
      BY <1>2
    <2> QED  BY <1>1, <1>6, <1>7, <2>1, <2>2, Zenon DEF ActiveLog
  <1>9. \A b \in DOMAIN d : b <= logs'[n].base
    BY <1>3, <1>5, <1>6
  <1>10. DOMAIN logs' = 1..n
    BY <1>4
  <1>11. maxSize' \in Nat
    BY <1>1, PartitionAssumption
  <1> QED  BY <1>2, <1>3, <1>4, <1>5, <1>8, <1>9, <1>10, <1>11 DEF HandlesOK

\* Every step of the partition keeps the type invariant.
LEMMA TypeInductive == TypeOK /\ [Next]_vars => TypeOK'
  <1> SUFFICES ASSUME TypeOK, [Next]_vars PROVE TypeOK'
    OBVIOUS
  <1>0. \A len \in Lengths : NewMessage(len) \in Message
    BY DEF NewMessage, Message, TypeOK
  <1>a. Attempt => attempts' \in 0..MaxAppends
    BY PartitionAssumption DEF Attempt, TypeOK
  <1>1. ASSUME NEW len \in Lengths, AppendMsg(NewMessage(len)) PROVE TypeOK'
    <2> DEFINE m == NewMessage(len)
    <2>1. m \in Message
      BY <1>0
    <2>2. DiskOK(disk') /\ HandlesOK(disk', logs', active')
      BY <1>1, <2>1, AfterType DEF AppendMsg
    <2>3. acked' \subseteq [offset : Nat, returned : Nat, msg : Message]
      BY <1>1, <2>1, RolledType DEF AppendMsg, TypeOK, Handle
    <2> QED  BY <1>a, <1>1, <2>2, <2>3 DEF AppendMsg, TypeOK
  <1>2. ASSUME NEW len \in Lengths, NEW w \in FailPoints, AppendFails(NewMessage(len), w)
        PROVE  TypeOK'
    <2>1. w \in 0..4
      BY PartitionAssumption
    <2>2. DiskOK(disk') /\ HandlesOK(disk', logs', active')
      BY <1>0, <1>2, <2>1, AfterType DEF AppendFails
    <2> QED  BY <1>a, <1>2, <2>2 DEF AppendFails, TypeOK
  <1>3. ASSUME NEW len \in Lengths, NEW w \in CrashPoints, AppendCrash(NewMessage(len), w)
        PROVE  TypeOK'
    <2>1. w \in 0..4
      BY PartitionAssumption
    <2>2. DiskOK(disk') /\ DOMAIN disk' # {}
      BY <1>0, <1>3, <2>1, AfterType, RolledType DEF AppendCrash
    <2>3. HandlesOK(disk', logs', active') /\ maxSize' \in Nat
      BY <1>3, <2>2, LoadPartitionLoads DEF AppendCrash
    <2> QED  BY <1>a, <1>3, <2>2, <2>3 DEF AppendCrash, TypeOK
  <1>4. CASE RolloverFails
    <2>1. DiskOK(disk') /\ DOMAIN disk \subseteq DOMAIN disk'
      BY <1>4, CreatedType, RollBaseType DEF RolloverFails, TypeOK
    <2>2. HandlesOK(disk', logs', active')
      BY <1>4, <2>1 DEF RolloverFails, TypeOK, HandlesOK
    <2> QED  BY <1>a, <1>4, <2>1, <2>2 DEF RolloverFails, TypeOK
  <1>5. CASE Restart
    <2>1. DiskOK(disk) /\ DOMAIN disk # {}
      BY DEF TypeOK, HandlesOK
    <2>2. HandlesOK(disk, logs', active') /\ maxSize' \in Nat
      BY <1>5, <2>1, LoadPartitionLoads DEF Restart
    <2> QED  BY <1>5, <2>1, <2>2 DEF Restart, TypeOK
  <1>6. CASE UNCHANGED vars
    BY <1>6 DEF vars, TypeOK
  <1> QED  BY <1>1, <1>2, <1>3, <1>4, <1>5, <1>6 DEF Next

\* A new partition satisfies the type invariant.
LEMMA InitType == Init => TypeOK
  <1> SUFFICES ASSUME Init PROVE TypeOK
    OBVIOUS
  <1>1. DiskOK(disk)
    <2>1. disk = [b \in {0} |-> EmptySegment] /\ DOMAIN disk = {0} /\ disk[0] = EmptySegment
      BY DEF Init
    <2>2. IsFiniteSet({0})
      BY FS_Singleton
    <2> QED  BY <2>1, <2>2, EmptySegmentType DEF DiskOK
  <1>2. HandlesOK(disk, logs, active)
    BY DEF Init, HandlesOK, Handle
  <1> QED  BY <1>1, <1>2, PartitionAssumption DEF Init, TypeOK

\* The type invariant holds in every reachable state of the partition,
\* whatever fails or crashes: there is always an active log, and no handle is
\* on a segment that is not on disk.
THEOREM TypeCorrect == Spec => []TypeOK
  BY InitType, TypeInductive, PTL DEF Spec

----------------------------------------------------------------------------
(* Durability of acknowledged messages.                                    *)

\* No append is cut off inside its index entry and none fails after its first
\* write; every other crash and every failed rollover is allowed.
CleanFaults == 3 \notin CrashPoints /\ FailPoints \subseteq {0}

\* DurableInv when no failed rollover is pending.
Settled(d, hs, a) ==
    /\ IntactDisk(d)
    /\ DisjointSegments(d)
    /\ ActiveCurrent(d, hs, a)
    /\ HandlesCover(d, hs)
    /\ \A b \in DOMAIN d : b <= hs[a].base

\* The two words of an index entry, and the words before them.
LEMMA AppendTwice ==
    ASSUME NEW s \in Seq(Nat), NEW x \in Nat, NEW y \in Nat
    PROVE  /\ Len(Append(Append(s, x), y)) = Len(s) + 2
           /\ \A i \in 1..Len(s) : Append(Append(s, x), y)[i] = s[i]
           /\ Append(Append(s, x), y)[Len(s) + 1] = x
           /\ Append(Append(s, x), y)[Len(s) + 2] = y
  OBVIOUS

\* A segment that NewLog just created is intact.
LEMMA EmptySegmentIntact == IntactSegment(EmptySegment)
  BY EmptySegmentType DEF EmptySegment, IntactSegment

\* new is seg after w writes of an append of m: an intact segment with the
\* entry of m if all four were made, and with every entry that seg had.
ExtendedBy(seg, new, m, w) ==
    /\ IntactSegment(new)
    /\ Count(new) = Count(seg) + (IF w = 4 THEN 1 ELSE 0)
    /\ \A n \in 0..(Count(seg) - 1) :
          new.recs[new.idx[2 * n + 2]] = seg.recs[seg.idx[2 * n + 2]]
    /\ w = 4 => new.recs[new.idx[2 * Count(seg) + 2]] = m

\* A whole append extends an intact segment by the entry of its message; one
\* that stops before the index adds no entry.  Neither disturbs an older one.
LEMMA WrittenIntact ==
    ASSUME NEW seg, IsSegment(seg), IntactSegment(seg),
           NEW h \in Handle, h.size = seg.bytes, h.next = Count(seg),
           NEW m \in Message, NEW w \in {0, 1, 2, 4}
    PROVE  ExtendedBy(seg, Written(seg, h, m, h.next, w), m, w)
  <1> DEFINE new == Written(seg, h, m, h.next, w)
             k == Count(seg)
  <1>1. /\ seg.bytes \in Nat /\ seg.idx \in Seq(Nat) /\ DOMAIN seg.recs \subseteq Nat
        /\ k \in Nat /\ Len(seg.idx) = 2 * k /\ m.len \in Nat \ {0}
    BY CountType, PartitionAssumption DEF IsSegment, IntactSegment, Message
  <1>2. /\ \A n \in 0..(k - 1) : seg.idx[2 * n + 1] = n /\ seg.idx[2 * n + 2] \in DOMAIN seg.recs
        /\ \A p \in DOMAIN seg.recs : p < seg.bytes
    BY DEF IntactSegment
  <1>3. /\ new.bytes = seg.bytes + (IF w >= 1 THEN 8 ELSE 0) + (IF w >= 2 THEN m.len ELSE 0)
        /\ w < 2 => new.recs = seg.recs
        /\ ~(w < 2) => new.recs = [p \in DOMAIN seg.recs \cup {seg.bytes} |->
                                     IF p = seg.bytes THEN m ELSE seg.recs[p]]
        /\ w # 4 => new.idx = seg.idx
        /\ w = 4 => new.idx = Append(Append(seg.idx, k), seg.bytes)
    BY DEF Written, PrefixWidth
  <1> HIDE DEF new, k
  <1>4. /\ DOMAIN seg.recs \subseteq DOMAIN new.recs
        /\ \A p \in DOMAIN seg.recs : new.recs[p] = seg.recs[p]
        /\ w = 4 => seg.bytes \in DOMAIN new.recs /\ new.recs[seg.bytes] = m
    <2>1. CASE w < 2
      BY <2>1, <1>3
    <2>2. CASE ~(w < 2)
      <3>1. \A p \in DOMAIN seg.recs : p # seg.bytes
        BY <1>1, <1>2
      <3>2. new.recs = [p \in DOMAIN seg.recs \cup {seg.bytes} |->
                           IF p = seg.bytes THEN m ELSE seg.recs[p]]
        BY <2>2, <1>3
      <3> QED  BY <3>1, <3>2
    <2> QED  BY <2>1, <2>2
  <1>5. \A p \in DOMAIN new.recs : p < new.bytes
    <2>1. CASE w < 2
      BY <2>1, <1>1, <1>2, <1>3
    <2>2. CASE ~(w < 2)
      <3>1. new.bytes > seg.bytes
        BY <2>2, <1>1, <1>3
      <3>2. DOMAIN new.recs = DOMAIN seg.recs \cup {seg.bytes}
        BY <2>2, <1>3
      <3>3. new.bytes \in Nat
        BY <1>1, <1>3
      <3> QED  BY <3>1, <3>2, <3>3, <1>1, <1>2
    <2> QED  BY <2>1, <2>2
  <1>6. CASE w # 4
    <2>1. Count(new) = k
      BY <1>3, <1>6 DEF Count, k
    <2>2. IntactSegment(new)
      BY <1>1, <1>2, <1>3, <1>4, <1>5, <1>6, <2>1 DEF IntactSegment
    <2>3. \A n \in 0..(k - 1) : new.recs[new.idx[2 * n + 2]] = seg.recs[seg.idx[2 * n + 2]]
      BY <1>2, <1>3, <1>4, <1>6
    <2> QED  BY <1>1, <1>6, <2>1, <2>2, <2>3 DEF new, k, ExtendedBy
  <1>7. CASE w = 4
    <2>1. /\ Len(new.idx) = 2 * k + 2
          /\ \A i \in 1..(2 * k) : new.idx[i] = seg.idx[i]
          /\ new.idx[2 * k + 1] = k /\ new.idx[2 * k + 2] = seg.bytes
      <3>1. new.idx = Append(Append(seg.idx, k), seg.bytes)
        BY <1>3, <1>7
      <3> DEFINE s == Append(Append(seg.idx, k), seg.bytes)
      <3>2. /\ Len(s) = Len(seg.idx) + 2
            /\ \A i \in 1..Len(seg.idx) : s[i] = seg.idx[i]
            /\ s[Len(seg.idx) + 1] = k /\ s[Len(seg.idx) + 2] = seg.bytes
        <4>1. seg.idx \in Seq(Nat) /\ k \in Nat /\ seg.bytes \in Nat
          BY <1>1
        <4> HIDE DEF k
        <4> QED  BY ONLY <4>1, AppendTwice
      <3> HIDE DEF s
      <3>3. new.idx = s /\ Len(seg.idx) = 2 * k
        BY <1>1, <3>1 DEF s
      <3> QED  BY <3>2, <3>3
    <2>2. Count(new) = k + 1
      <3>1. (2 * k + 2) \div 2 = k + 1
        BY <1>1
      <3> QED  BY <2>1, <3>1 DEF Count
    <2>3. \A n \in 0..(k - 1) : /\ new.idx[2 * n + 1] = seg.idx[2 * n + 1]
                                 /\ new.idx[2 * n + 2] = seg.idx[2 * n + 2]
      BY <1>1, <2>1
    <2>4. \A n \in 0..k : new.idx[2 * n + 1] = n /\ new.idx[2 * n + 2] \in DOMAIN new.recs
      <3> SUFFICES ASSUME NEW n \in 0..k
                   PROVE  new.idx[2 * n + 1] = n /\ new.idx[2 * n + 2] \in DOMAIN new.recs
        OBVIOUS
      <3>1. CASE n = k
        BY <3>1, <2>1, <1>4, <1>7
      <3>2. CASE n # k
        <4>1. n \in 0..(k - 1)
          BY <3>2, <1>1
        <4> QED  BY <4>1, <2>3, <1>2, <1>4
      <3> QED  BY <3>1, <3>2
    <2>5. IntactSegment(new)
      BY <1>1, <1>5, <2>1, <2>2, <2>4 DEF IntactSegment
    <2>6. \A n \in 0..(k - 1) : new.recs[new.idx[2 * n + 2]] = seg.recs[seg.idx[2 * n + 2]]
      BY <1>2, <1>4, <2>3
    <2> QED  BY <1>4, <1>7, <2>1, <2>2, <2>5, <2>6 DEF new, k, ExtendedBy
  <1> QED  BY <1>6, <1>7

\* A rollover leaves no segment past the log that the append writes to.
LEMMA RolledSettled ==
    ASSUME TypeOK, DurableInv
    PROVE  Settled(Rolled.disk, Rolled.logs, Rolled.active)
  <1> DEFINE act == logs[active]
  <1>1. /\ DiskOK(disk) /\ logs \in Seq(Handle) /\ active \in DOMAIN logs
        /\ \A i \in DOMAIN logs : logs[i].base \in DOMAIN disk
        /\ act \in Handle /\ RollBase \in Nat
    BY RollBaseType DEF TypeOK, HandlesOK
  <1>2. /\ IntactDisk(disk) /\ DisjointSegments(disk) /\ HandlesCover(disk, logs)
        /\ active = Len(logs)
        /\ act.size = disk[act.base].bytes /\ act.next = Count(disk[act.base])
    BY DEF DurableInv, ActiveCurrent
  <1>3. \A b \in DOMAIN disk : b \in Nat /\ IsSegment(disk[b]) /\ Count(disk[b]) \in Nat
    BY <1>1, CountType DEF DiskOK
  <1>4. act.base \in DOMAIN disk /\ act.base \in Nat /\ act.next \in Nat
    BY <1>1 DEF Handle
  <1>5. CASE ShouldRoll
    <2> DEFINE d == Created(disk, RollBase)
               h == LoadLog(d, RollBase)
               hs == Append(logs, h)
    <2>1. Rolled = [disk |-> d, logs |-> hs, active |-> Len(logs) + 1]
      BY <1>5 DEF Rolled
    <2>2. /\ DiskOK(d) /\ DOMAIN d = DOMAIN disk \cup {RollBase}
          /\ \A b \in DOMAIN disk : d[b] = disk[b]
          /\ RollBase \notin DOMAIN disk => d[RollBase] = EmptySegment
      BY <1>1, CreatedType
    <2>3. h = [base |-> RollBase, size |-> d[RollBase].bytes, next |-> Count(d[RollBase])]
      BY DEF LoadLog
    <2>4. h \in Handle
      BY <2>2, LoadLogType
    <2> HIDE DEF d, h
    <2>5. /\ Len(hs) = Len(logs) + 1 /\ DOMAIN hs = DOMAIN logs \cup {Len(logs) + 1}
          /\ hs[Len(logs) + 1] = h
          /\ \A i \in DOMAIN logs : hs[i] = logs[i]
      BY <1>1, <2>4
    <2> HIDE DEF hs
    <2>6. RollBase = act.base + act.next
      BY DEF RollBase
    <2>7. \A b \in DOMAIN disk : b <= act.base \/ b = RollBase
      BY <1>3, <1>4 DEF DurableInv, OnlyRolledPast
    <2>8. \A b \in DOMAIN disk : b # RollBase => b + Count(disk[b]) <= RollBase
      BY <1>2, <1>3, <1>4, <2>6, <2>7 DEF DisjointSegments
    <2>9. \A b \in DOMAIN d : b <= RollBase
      BY <1>3, <1>4, <2>2, <2>6, <2>7
    <2>10. IntactDisk(d)
      BY <1>2, <2>2, EmptySegmentIntact DEF IntactDisk
    <2>11. DisjointSegments(d)
      <3> SUFFICES ASSUME NEW b \in DOMAIN d, NEW c \in DOMAIN d, b < c
                   PROVE  b + Count(d[b]) <= c
        BY DEF DisjointSegments
      <3>1. b \in DOMAIN disk /\ d[b] = disk[b] /\ b # RollBase
        BY <2>2, <2>9, <1>1, <1>3
      <3>2. CASE c \in DOMAIN disk
        BY <3>1, <3>2, <1>2 DEF DisjointSegments
      <3>3. CASE c = RollBase
        BY <3>1, <3>3, <2>8
      <3> QED  BY <3>2, <3>3, <2>2
    <2>12. ActiveCurrent(d, hs, Len(logs) + 1)
      BY <2>3, <2>5 DEF ActiveCurrent
    <2>13. HandlesCover(d, hs)
      <3>1. \A i \in DOMAIN hs : hs[i].next <= Count(d[hs[i].base])
        <4> SUFFICES ASSUME NEW i \in DOMAIN hs PROVE hs[i].next <= Count(d[hs[i].base])
          OBVIOUS
        <4>1. CASE i \in DOMAIN logs
          BY <4>1, <1>1, <1>2, <2>2, <2>5 DEF HandlesCover
        <4>2. CASE i = Len(logs) + 1
          <5>1. Count(d[RollBase]) \in Nat
            BY <2>2, CountType DEF DiskOK
          <5> QED  BY <4>2, <5>1, <2>3, <2>5
        <4> QED  BY <4>1, <4>2, <2>5
      <3>2. ASSUME NEW b \in DOMAIN d, Count(d[b]) > 0
            PROVE  \E i \in DOMAIN hs : hs[i].base = b /\ hs[i].next = Count(d[b])
        <4>1. b \in DOMAIN disk /\ d[b] = disk[b]
          BY <3>2, <2>2, EmptySegmentType
        <4>2. PICK i \in DOMAIN logs : logs[i].base = b /\ logs[i].next = Count(disk[b])
          BY <3>2, <4>1, <1>2 DEF HandlesCover
        <4> QED  BY <4>1, <4>2, <2>5
      <3> QED  BY <3>1, <3>2 DEF HandlesCover
    <2>14. \A b \in DOMAIN d : b <= hs[Len(logs) + 1].base
      BY <2>3, <2>5, <2>9
    <2> QED  BY <2>1, <2>10, <2>11, <2>12, <2>13, <2>14 DEF Settled
  <1>6. CASE ~ShouldRoll
    <2>1. Rolled = [disk |-> disk, logs |-> logs, active |-> active]
      BY <1>6 DEF Rolled
    <2>2. \A b \in DOMAIN disk : b <= act.base
      BY <1>3, <1>4, <1>6 DEF DurableInv, OnlyRolledPast
    <2> QED  BY <2>1, <2>2 DEF Settled, DurableInv
  <1> QED  BY <1>5, <1>6

\* A rollover loses no stored message.
LEMMA RolledStored ==
    ASSUME TypeOK, NEW a, Stored(disk, a)
    PROVE  Stored(Rolled.disk, a)
  <1>1. /\ DOMAIN disk \subseteq DOMAIN Rolled.disk
        /\ \A b \in DOMAIN disk : Rolled.disk[b] = disk[b]
    <2>1. CASE ShouldRoll
      <3>1. Rolled.disk = Created(disk, RollBase)
        BY <2>1 DEF Rolled
      <3>2. DiskOK(disk) /\ RollBase \in Nat
        BY RollBaseType DEF TypeOK
      <3>3. /\ DOMAIN Created(disk, RollBase) = DOMAIN disk \cup {RollBase}
            /\ \A b \in DOMAIN disk : Created(disk, RollBase)[b] = disk[b]
        BY <3>2, CreatedType
      <3> QED  BY <3>1, <3>3
    <2>2. CASE ~ShouldRoll
      BY <2>2 DEF Rolled
    <2> QED  BY <2>1, <2>2
  <1> QED  BY <1>1 DEF Stored

\* Loading an intact directory gives handles that agree with it.
LEMMA LoadSettled ==
    ASSUME NEW d, DiskOK(d), DOMAIN d # {}, IntactDisk(d), DisjointSegments(d),
           LoadPartition(d)
    PROVE  Settled(d, logs', active')
  <1>1. /\ HandlesOK(d, logs', active')
        /\ active' = Len(logs')
        /\ \A i \in DOMAIN logs' : logs'[i] = LoadLog(d, logs'[i].base)
        /\ \A b \in DOMAIN d : \E i \in DOMAIN logs' : logs'[i].base = b
        /\ \A b \in DOMAIN d : b <= logs'[active'].base
    BY LoadPartitionLoads
  <1>2. \A i \in DOMAIN logs' : /\ logs'[i].size = d[logs'[i].base].bytes
                                 /\ logs'[i].next = Count(d[logs'[i].base])
    BY <1>1 DEF LoadLog
  <1>3. \A i \in DOMAIN logs' : Count(d[logs'[i].base]) \in Nat
    BY <1>1, CountType DEF DiskOK, HandlesOK
  <1>4. ActiveCurrent(d, logs', active')
    BY <1>1, <1>2 DEF ActiveCurrent, HandlesOK
  <1>5. HandlesCover(d, logs')
    <2>1. \A i \in DOMAIN logs' : logs'[i].next <= Count(d[logs'[i].base])
      BY <1>2, <1>3
    <2>2. \A b \in DOMAIN d : \E i \in DOMAIN logs' :
              logs'[i].base = b /\ logs'[i].next = Count(d[b])
      BY <1>1, <1>2
    <2> QED  BY <2>1, <2>2, Zenon DEF HandlesCover
  <1> QED  BY <1>1, <1>4, <1>5 DEF Settled

\* e is the directory d after w writes of an append of m through handle h.
KeptBy(d, e, h, m, w) ==
    /\ IntactDisk(e) /\ DisjointSegments(e)
    /\ DOMAIN e = DOMAIN d
    /\ \A b \in DOMAIN d : b # h.base => e[b] = d[b]
    /\ Count(e[h.base]) = Count(d[h.base]) + (IF w = 4 THEN 1 ELSE 0)
    /\ \A x : x.offset \in Nat /\ Stored(d, x) => Stored(e, x)
    /\ \A x : w = 4 /\ x.offset = h.base + h.next /\ x.msg = m => Stored(e, x)

\* The first w writes of an append keep the directory intact, keep its segments
\* disjoint and keep every message stored in it.
LEMMA WriteKeepsDisk ==
    ASSUME NEW d, NEW hs, NEW a, DiskOK(d), HandlesOK(d, hs, a), Settled(d, hs, a),
           NEW m \in Message, NEW w \in {0, 1, 2, 4},
           NEW h, h = hs[a],
           NEW e, e = [d EXCEPT ![h.base] = Written(d[h.base], h, m, h.next, w)]
    PROVE  KeptBy(d, e, h, m, w)
  <1> DEFINE seg == d[h.base]
             new == Written(seg, h, m, h.next, w)
             k == Count(seg)
  <1>1. h \in Handle /\ h.base \in DOMAIN d /\ h.base \in Nat /\ h.next \in Nat
    <2>1. hs \in Seq(Handle) /\ a \in DOMAIN hs
      BY DEF HandlesOK
    <2>2. h \in Handle
      BY <2>1
    <2> QED  BY <2>1, <2>2 DEF HandlesOK, Handle
  <1>2. \A b \in DOMAIN d : b \in Nat /\ IsSegment(d[b]) /\ Count(d[b]) \in Nat
    BY CountType DEF DiskOK
  <1>3. /\ IntactSegment(seg) /\ h.size = seg.bytes /\ h.next = k
        /\ \A b \in DOMAIN d : b <= h.base
    BY <1>1 DEF Settled, IntactDisk, ActiveCurrent
  <1>4. /\ IntactSegment(new)
        /\ Count(new) = k + (IF w = 4 THEN 1 ELSE 0)
        /\ \A n \in 0..(k - 1) : new.recs[new.idx[2 * n + 2]] = seg.recs[seg.idx[2 * n + 2]]
        /\ w = 4 => new.recs[new.idx[2 * k + 2]] = m
    <2>1. ExtendedBy(seg, new, m, w)
      BY <1>1, <1>2, <1>3, WrittenIntact
    <2> QED  BY <2>1 DEF ExtendedBy
  <1>5. /\ DOMAIN e = DOMAIN d /\ e[h.base] = new
        /\ \A b \in DOMAIN d : b # h.base => e[b] = d[b]
    <2>1. d = [b \in DOMAIN d |-> d[b]]
      BY DEF DiskOK
    <2> QED  BY <1>1, <2>1
  <1> HIDE DEF seg, new, k
  <1>6. seg = d[h.base]
    BY DEF seg
  <1>7. IntactDisk(e)
    BY <1>4, <1>5 DEF IntactDisk, Settled
  <1>8. DisjointSegments(e)
    <2> SUFFICES ASSUME NEW b \in DOMAIN e, NEW c \in DOMAIN e, b < c
                 PROVE  b + Count(e[b]) <= c
      BY DEF DisjointSegments
    <2>1. b \in DOMAIN d /\ c \in DOMAIN d /\ b # h.base /\ e[b] = d[b]
      BY <1>1, <1>2, <1>3, <1>5
    <2> QED  BY <2>1 DEF Settled, DisjointSegments
  <1>9. k \in Nat
    BY <1>1, <1>2, <1>6 DEF k
  <1>10. ASSUME NEW x, x.offset \in Nat, Stored(d, x) PROVE Stored(e, x)
    <2>1. PICK b \in DOMAIN d : /\ b <= x.offset /\ x.offset < b + Count(d[b])
                                /\ d[b].recs[d[b].idx[2 * (x.offset - b) + 2]] = x.msg
      BY <1>10 DEF Stored
    <2>2. CASE b # h.base
      BY <2>1, <2>2, <1>5 DEF Stored
    <2>3. CASE b = h.base
      <3> DEFINE n == x.offset - b
      <3>1. n \in 0..(k - 1)
        BY <2>1, <2>3, <1>2, <1>6, <1>9, <1>10 DEF k
      <3>2. new.recs[new.idx[2 * n + 2]] = x.msg
        BY <3>1, <2>1, <2>3, <1>4, <1>6
      <3>3. x.offset < b + Count(new)
        BY <3>1, <1>1, <1>4, <1>9, <1>10, <2>3
      <3> QED  BY <2>1, <2>3, <3>2, <3>3, <1>5 DEF Stored
    <2> QED  BY <2>2, <2>3
  <1>11. ASSUME NEW x, w = 4, x.offset = h.base + h.next, x.msg = m PROVE Stored(e, x)
    <2>1. x.offset - h.base = k
      BY <1>1, <1>3, <1>9, <1>11
    <2>2. h.base <= x.offset /\ x.offset < h.base + Count(new)
      BY <1>1, <1>3, <1>4, <1>9, <1>11
    <2>3. new.recs[new.idx[2 * (x.offset - h.base) + 2]] = x.msg
      BY <2>1, <1>4, <1>11
    <2> QED  BY <2>2, <2>3, <1>1, <1>5 DEF Stored
  <1>12. \A x : x.offset \in Nat /\ Stored(d, x) => Stored(e, x)
    BY <1>10
  <1>13. \A x : w = 4 /\ x.offset = h.base + h.next /\ x.msg = m => Stored(e, x)
    BY <1>11
  <1>14. Count(e[h.base]) = Count(d[h.base]) + (IF w = 4 THEN 1 ELSE 0)
    BY <1>4, <1>5, <1>6 DEF k
  <1> QED  BY <1>5, <1>7, <1>8, <1>12, <1>13, <1>14 DEF KeptBy

\* After the whole append the handles agree with the files again.
LEMMA WholeAppendSettled ==
    ASSUME NEW d, NEW hs, NEW a, DiskOK(d), HandlesOK(d, hs, a), Settled(d, hs, a),
           NEW m \in Message
    PROVE  LET h == hs[a]
           IN  Settled([d EXCEPT ![h.base] = Written(d[h.base], h, m, h.next, 4)],
                       [hs EXCEPT ![a] = Advanced(h, m, h.next + 1, 4)], a)
  <1> DEFINE h == hs[a]
             new == Written(d[h.base], h, m, h.next, 4)
             e == [d EXCEPT ![h.base] = new]
             g == Advanced(h, m, h.next + 1, 4)
             gs == [hs EXCEPT ![a] = g]
  <1>1. hs \in Seq(Handle) /\ a \in DOMAIN hs /\ h.base \in DOMAIN d
    BY DEF HandlesOK
  <1>2. /\ h \in Handle /\ h = [base |-> h.base, size |-> h.size, next |-> h.next]
        /\ h.next \in Nat
    <2>1. h \in Handle
      BY <1>1
    <2> QED  BY <2>1 DEF Handle
  <1>3. /\ IntactDisk(e) /\ DisjointSegments(e) /\ DOMAIN e = DOMAIN d
        /\ \A b \in DOMAIN d : b # h.base => e[b] = d[b]
        /\ Count(e[h.base]) = Count(d[h.base]) + 1
    <2>1. h = hs[a] /\ e = [d EXCEPT ![h.base] = Written(d[h.base], h, m, h.next, 4)]
      OBVIOUS
    <2> HIDE DEF h, e
    <2>2. KeptBy(d, e, h, m, 4)
      BY <2>1, WriteKeepsDisk
    <2> QED  BY <2>2 DEF KeptBy
  <1>4. g.base = h.base /\ g.size = h.size + m.len + 8 /\ g.next = h.next + 1
    BY <1>2 DEF Advanced, PrefixWidth
  <1>5. e[h.base].bytes = d[h.base].bytes + 8 + m.len
    <2>1. e[h.base] = new
      BY <1>1
    <2> QED  BY <2>1 DEF Written, PrefixWidth
  <1>6. /\ Len(gs) = Len(hs) /\ DOMAIN gs = DOMAIN hs /\ gs[a] = g
        /\ \A i \in DOMAIN hs : i # a => gs[i] = hs[i]
    BY <1>1
  <1>7. /\ a = Len(hs) /\ h.size = d[h.base].bytes /\ h.next = Count(d[h.base])
        /\ \A b \in DOMAIN d : b <= h.base
    BY DEF Settled, ActiveCurrent
  <1>8. \A b \in DOMAIN d : Count(d[b]) \in Nat /\ d[b].bytes \in Nat
    BY CountType DEF DiskOK, IsSegment
  <1>9. m.len \in Nat
    BY PartitionAssumption DEF Message
  <1>10. HandlesCover(d, hs)
    BY DEF Settled
  <1> HIDE DEF e, g, gs, h
  <1>11. ActiveCurrent(e, gs, a)
    BY <1>1, <1>3, <1>4, <1>5, <1>6, <1>7, <1>8, <1>9 DEF ActiveCurrent
  <1>12. \A i \in DOMAIN gs : gs[i].next <= Count(e[gs[i].base])
    <2> SUFFICES ASSUME NEW i \in DOMAIN hs PROVE gs[i].next <= Count(e[gs[i].base])
      BY <1>6
    <2>1. hs[i].base \in DOMAIN d /\ hs[i] \in Handle
      BY <1>1 DEF HandlesOK
    <2>2. hs[i].next \in Nat /\ hs[i].next <= Count(d[hs[i].base])
      BY <1>10, <2>1 DEF HandlesCover, Handle
    <2>3. CASE i = a
      BY <2>3, <1>1, <1>2, <1>3, <1>4, <1>6, <1>7, <1>8
    <2>4. CASE i # a
      BY <2>1, <2>2, <2>4, <1>3, <1>6, <1>8
    <2> QED  BY <2>3, <2>4
  <1>13. ASSUME NEW b \in DOMAIN e, Count(e[b]) > 0
         PROVE  \E i \in DOMAIN gs : gs[i].base = b /\ gs[i].next = Count(e[b])
    <2>1. CASE b = h.base
      BY <2>1, <1>1, <1>3, <1>4, <1>6, <1>7
    <2>2. CASE b # h.base
      <3>1. b \in DOMAIN d /\ e[b] = d[b]
        BY <2>2, <1>3
      <3>2. PICK i \in DOMAIN hs : hs[i].base = b /\ hs[i].next = Count(d[b])
        BY <3>1, <1>10, <1>13 DEF HandlesCover
      <3>3. i # a
        BY <2>2, <3>2 DEF h
      <3> QED  BY <3>1, <3>2, <3>3, <1>6
    <2> QED  BY <2>1, <2>2
  <1>14. HandlesCover(e, gs)
    BY <1>12, <1>13 DEF HandlesCover
  <1>15. \A b \in DOMAIN e : b <= gs[a].base
    BY <1>3, <1>4, <1>6, <1>7
  <1> QED  BY <1>3, <1>11, <1>14, <1>15 DEF Settled, h, e, g, gs, new

\* Files and handles that agree after a step satisfy DurableInv.
LEMMA SettledGivesDurable ==
    ASSUME TypeOK', Settled(disk', logs', active'),
           \A a \in acked' : Stored(disk', a)
    PROVE  DurableInv'
  <1>1. \A b \in DOMAIN disk' : ~(b > logs'[active'].base)
    <2>1. DOMAIN disk' \subseteq Nat /\ logs'[active'].base \in DOMAIN disk'
      BY DEF TypeOK, DiskOK, HandlesOK
    <2> QED  BY <2>1 DEF Settled
  <1>2. OnlyRolledPast'
    BY <1>1 DEF OnlyRolledPast
  <1> QED  BY <1>2 DEF Settled, DurableInv

\* Every step of the partition keeps DurableInv when the faults are clean.
LEMMA DurableInductive ==
    ASSUME CleanFaults, TypeOK, DurableInv, [Next]_vars
    PROVE  DurableInv'
  <1>0. TypeOK'
    BY TypeInductive
  <1> DEFINE d == Rolled.disk
             hs == Rolled.logs
             a == Rolled.active
             h == hs[a]
  <1>1. DiskOK(d) /\ HandlesOK(d, hs, a) /\ Settled(d, hs, a) /\ h = Target
    BY RolledType, RolledSettled DEF Target
  <1>2. \A x \in acked : x.offset \in Nat /\ Stored(d, x)
    BY RolledStored DEF DurableInv, TypeOK
  <1>3. \A len \in Lengths : NewMessage(len) \in Message
    BY DEF NewMessage, Message, TypeOK
  <1>4. \A m, w : DiskAfter(m, Target.next, w) =
                     [d EXCEPT ![h.base] = Written(d[h.base], h, m, h.next, w)]
    BY <1>1 DEF DiskAfter
  <1>5. \A m, w : LogsAfter(m, Target.next + 1, w) =
                     [hs EXCEPT ![a] = Advanced(h, m, h.next + 1, w)]
    BY <1>1 DEF LogsAfter
  <1> HIDE DEF d, hs, a, h
  <1>6. ASSUME NEW len \in Lengths, AppendMsg(NewMessage(len)) PROVE DurableInv'
    <2> DEFINE m == NewMessage(len)
    <2>1. m \in Message
      BY <1>3
    <2>2. /\ disk' = [d EXCEPT ![h.base] = Written(d[h.base], h, m, h.next, 4)]
          /\ logs' = [hs EXCEPT ![a] = Advanced(h, m, h.next + 1, 4)]
          /\ active' = a
          /\ acked' = acked \cup {[offset |-> h.base + h.next, returned |-> h.next, msg |-> m]}
      BY <1>1, <1>4, <1>5, <1>6 DEF AppendMsg, a
    <2> HIDE DEF m
    <2>3. h = hs[a]
      BY DEF h
    <2>4. Settled(disk', logs', active')
      BY <1>1, <2>1, <2>2, <2>3, WholeAppendSettled
    <2>5. /\ \A x : x.offset \in Nat /\ Stored(d, x) => Stored(disk', x)
          /\ \A x : x.offset = h.base + h.next /\ x.msg = m => Stored(disk', x)
      <3>1. KeptBy(d, disk', h, m, 4)
        BY <1>1, <2>1, <2>2, <2>3, WriteKeepsDisk
      <3> QED  BY <3>1 DEF KeptBy
    <2>6. \A x \in acked' : Stored(disk', x)
      <3> DEFINE r == [offset |-> h.base + h.next, returned |-> h.next, msg |-> m]
      <3>1. r.offset = h.base + h.next /\ r.msg = m
        OBVIOUS
      <3> HIDE DEF r
      <3>2. Stored(disk', r)
        BY <2>5, <3>1
      <3>3. \A x \in acked : Stored(disk', x)
        BY <1>2, <2>5
      <3>4. acked' = acked \cup {r}
        BY <2>2 DEF r
      <3> QED  BY <3>2, <3>3, <3>4
    <2> QED  BY <1>0, <2>4, <2>6, SettledGivesDurable
  <1>7. ASSUME NEW len \in Lengths, NEW w \in FailPoints, AppendFails(NewMessage(len), w)
        PROVE  DurableInv'
    <2> DEFINE m == NewMessage(len)
    <2>1. w = 0
      BY DEF CleanFaults
    <2>2. h \in Handle /\ h.base \in DOMAIN d
      BY <1>1, RolledType DEF d
    <2>3. Written(d[h.base], h, m, h.next, 0) = d[h.base]
      <3>1. IsSegment(d[h.base])
        BY <1>1, <2>2 DEF DiskOK
      <3> QED  BY <3>1 DEF Written, IsSegment
    <2>4. disk' = d /\ logs' = hs /\ active' = a
      <3>1. disk' = [d EXCEPT ![h.base] = d[h.base]]
        BY <1>4, <1>7, <2>1, <2>3 DEF AppendFails
      <3>2. logs' = [hs EXCEPT ![a] = h]
        <4>1. Advanced(h, m, h.next + 1, 0) = h
          BY DEF Advanced
        <4>2. logs' = [hs EXCEPT ![a] = Advanced(h, m, h.next + 1, 0)]
          BY <1>5, <1>7, <2>1 DEF AppendFails
        <4> QED  BY <4>1, <4>2, Zenon
      <3>3. disk' = d
        BY <1>1, <3>1 DEF DiskOK
      <3>4. logs' = hs
        BY <1>1, <3>2 DEF HandlesOK, h
      <3> QED  BY <3>3, <3>4, <1>7 DEF AppendFails, a
    <2>5. \A x \in acked' : Stored(disk', x)
      BY <1>2, <1>7, <2>4 DEF AppendFails
    <2> QED  BY <1>0, <1>1, <2>4, <2>5, SettledGivesDurable
  <1>8. ASSUME NEW len \in Lengths, NEW w \in CrashPoints, AppendCrash(NewMessage(len), w)
        PROVE  DurableInv'
    <2> DEFINE m == NewMessage(len)
    <2>1. w \in {0, 1, 2, 4} /\ m \in Message
      BY <1>3, PartitionAssumption DEF CleanFaults
    <2>2. disk' = [d EXCEPT ![h.base] = Written(d[h.base], h, m, h.next, w)]
      BY <1>4, <1>8 DEF AppendCrash
    <2> HIDE DEF m
    <2>3. h = hs[a]
      BY DEF h
    <2>4. /\ IntactDisk(disk') /\ DisjointSegments(disk')
          /\ \A x : x.offset \in Nat /\ Stored(d, x) => Stored(disk', x)
      <3>1. KeptBy(d, disk', h, m, w)
        BY <1>1, <2>1, <2>2, <2>3, WriteKeepsDisk
      <3> QED  BY <3>1 DEF KeptBy
    <2>5. DiskOK(disk') /\ DOMAIN disk' # {}
      BY <1>0 DEF TypeOK, HandlesOK
    <2>6. Settled(disk', logs', active')
      BY <1>8, <2>4, <2>5, LoadSettled DEF AppendCrash
    <2>7. \A x \in acked' : Stored(disk', x)
      BY <1>2, <1>8, <2>4 DEF AppendCrash
    <2> QED  BY <1>0, <2>6, <2>7, SettledGivesDurable
  <1>9. CASE RolloverFails
    <2>1. /\ logs' = logs /\ active' = active /\ maxSize' = maxSize /\ acked' = acked
          /\ ShouldRoll
          /\ disk' = disk \/ disk' = Created(disk, RollBase)
      BY <1>9 DEF RolloverFails
    <2>2. /\ Rolled.disk = Created(disk, RollBase)
          /\ Rolled.active = Len(logs) + 1
          /\ Rolled.logs = Append(logs, LoadLog(Created(disk, RollBase), RollBase))
      BY <2>1 DEF Rolled
    <2>3. CASE disk' = disk
      BY <2>1, <2>3 DEF DurableInv, OnlyRolledPast, RollBase, ShouldRoll
    <2>4. CASE disk' = Created(disk, RollBase)
      <3>1. /\ IntactDisk(disk') /\ DisjointSegments(disk')
            /\ \A x \in acked' : Stored(disk', x)
        BY <1>1, <1>2, <2>1, <2>2, <2>4 DEF Settled, d
      <3>2. /\ DOMAIN disk' = DOMAIN disk \cup {RollBase}
            /\ \A b \in DOMAIN disk : disk'[b] = disk[b]
            /\ RollBase \notin DOMAIN disk => disk'[RollBase] = EmptySegment
        <4>1. DiskOK(disk) /\ RollBase \in Nat
          BY RollBaseType DEF TypeOK
        <4> QED  BY <2>4, <4>1, CreatedType
      <3>3. /\ ActiveCurrent(disk, logs, active) /\ HandlesCover(disk, logs) /\ OnlyRolledPast
            /\ HandlesOK(disk, logs, active)
        BY DEF DurableInv, TypeOK
      <3>4. ActiveCurrent(disk', logs, active)
        BY <3>2, <3>3 DEF ActiveCurrent, HandlesOK
      <3>5. HandlesCover(disk', logs)
        <4>1. \A i \in DOMAIN logs : logs[i].next <= Count(disk'[logs[i].base])
          BY <3>2, <3>3 DEF HandlesCover, HandlesOK
        <4>2. \A b \in DOMAIN disk' : Count(disk'[b]) > 0 => b \in DOMAIN disk
          BY <3>2, EmptySegmentType
        <4>3. \A b \in DOMAIN disk' : Count(disk'[b]) > 0 =>
                 \E i \in DOMAIN logs : logs[i].base = b /\ logs[i].next = Count(disk'[b])
          BY <3>2, <3>3, <4>2 DEF HandlesCover
        <4> QED  BY <4>1, <4>3 DEF HandlesCover
      <3>6. \A b \in DOMAIN disk' : b > logs[active].base =>
                b = RollBase /\ Count(disk'[b]) = 0 /\ ShouldRoll
        BY <2>1, <3>2, <3>3, EmptySegmentType DEF OnlyRolledPast
      <3>7. RollBase' = RollBase /\ ShouldRoll' = ShouldRoll
        BY <2>1 DEF RollBase, ShouldRoll
      <3>8. OnlyRolledPast'
        BY <2>1, <3>6, <3>7 DEF OnlyRolledPast
      <3> QED  BY <2>1, <3>1, <3>4, <3>5, <3>8 DEF DurableInv
    <2> QED  BY <2>1, <2>3, <2>4
  <1>10. CASE Restart
    <2>1. /\ DiskOK(disk) /\ DOMAIN disk # {}
          /\ IntactDisk(disk) /\ DisjointSegments(disk)
      BY DEF TypeOK, HandlesOK, DurableInv
    <2>2. Settled(disk, logs', active')
      BY <1>10, <2>1, LoadSettled DEF Restart
    <2>3. \A x \in acked' : Stored(disk', x)
      BY <1>10 DEF Restart, DurableInv
    <2> QED  BY <1>0, <1>10, <2>2, <2>3, SettledGivesDurable DEF Restart
  <1>11. CASE UNCHANGED vars
    BY <1>11 DEF vars, DurableInv, OnlyRolledPast, RollBase, ShouldRoll
  <1> QED  BY <1>6, <1>7, <1>8, <1>9, <1>10, <1>11 DEF Next

----------------------------------------------------------------------------

\* A scan that meets a covering handle meets a first one.
LEMMA FirstCoveringExists ==
    ASSUME NEW hs \in Seq(Handle), NEW o, NEW i \in DOMAIN hs, Covers(hs[i], o)
    PROVE  FirstCovering(hs, o) # {}
  <1> DEFINE T == {j \in DOMAIN hs : Covers(hs[j], o)}
             R == OpToRel(<, Nat)
  <1>1. IsWellFoundedOn(R, Nat)
    BY NatLessThanWellFounded
  <1>2. T \subseteq Nat /\ T # {}
    OBVIOUS
  <1>3. PICK j \in T : \A k \in T : <<k, j>> \notin R
    <2> HIDE DEF R, T
    <2> QED  BY <1>1, <1>2, WFMin
  <1>4. \A k \in T : ~(k < j)
    BY <1>2, <1>3 DEF OpToRel
  <1>5. j \in FirstCovering(hs, o)
    BY <1>4 DEF FirstCovering
  <1> QED  BY <1>5

\* The part of DurableInv that a reader depends on.
Consistent(d, hs, a) ==
    /\ DiskOK(d) /\ HandlesOK(d, hs, a)
    /\ IntactDisk(d) /\ DisjointSegments(d) /\ HandlesCover(d, hs)

\* What is stored is what a reader finds: only one segment can hold the offset.
LEMMA StoredIsRead ==
    ASSUME NEW d, NEW hs, NEW a, Consistent(d, hs, a),
           NEW x, x.offset \in Nat, Stored(d, x)
    PROVE  ReadAt(d, hs, x.offset) = {x.msg}
  <1> DEFINE o == x.offset
  <1>1. PICK b \in DOMAIN d :
            /\ b <= o /\ o < b + Count(d[b])
            /\ d[b].recs[d[b].idx[2 * (o - b) + 2]] = x.msg
    BY DEF Stored
  <1>2. \A c \in DOMAIN d : c \in Nat /\ IsSegment(d[c]) /\ Count(d[c]) \in Nat
    BY CountType DEF Consistent, DiskOK
  <1>3. /\ hs \in Seq(Handle)
        /\ \A i \in DOMAIN hs : hs[i].base \in DOMAIN d
    BY DEF Consistent, HandlesOK
  <1>4. \A i \in DOMAIN hs : hs[i].next \in Nat /\ hs[i].next <= Count(d[hs[i].base])
    <2>1. \A i \in DOMAIN hs : hs[i] \in Handle
      BY <1>3
    <2> QED  BY <2>1 DEF Consistent, HandlesCover, Handle
  <1>5. PICK i \in DOMAIN hs : hs[i].base = b /\ hs[i].next = Count(d[b])
    <2>1. Count(d[b]) > 0
      BY <1>1, <1>2
    <2> QED  BY <2>1 DEF Consistent, HandlesCover
  <1>6. FirstCovering(hs, o) # {}
    <2>1. Covers(hs[i], o)
      BY <1>1, <1>5 DEF Covers
    <2> QED  BY <1>3, <2>1, FirstCoveringExists
  <1>7. \A j \in FirstCovering(hs, o) : hs[j].base = b
    <2> SUFFICES ASSUME NEW j \in DOMAIN hs, Covers(hs[j], o) PROVE hs[j].base = b
      BY DEF FirstCovering
    <2> DEFINE c == hs[j].base
    <2>1. c \in DOMAIN d /\ c <= o /\ o < c + Count(d[c])
      <3>1. c \in DOMAIN d /\ c <= o /\ o < c + hs[j].next
        BY <1>3 DEF Covers
      <3>2. hs[j].next \in Nat /\ hs[j].next <= Count(d[c])
        BY <1>4
      <3> HIDE DEF c
      <3> QED  BY <1>2, <3>1, <3>2
    <2> HIDE DEF c
    <2>2. ~(c < b) /\ ~(b < c)
      BY <1>1, <1>2, <2>1 DEF Consistent, DisjointSegments
    <2> QED  BY <1>2, <2>1, <2>2 DEF c
  <1>8. LogReadAt(d[b], o - b) = {x.msg}
    <2> DEFINE n == o - b
               seg == d[b]
    <2>1. n \in 0..(Count(seg) - 1)
      BY <1>1, <1>2
    <2>2. IntactSegment(seg)
      BY DEF Consistent, IntactDisk
    <2>3. /\ 2 * n + 2 <= Len(seg.idx) /\ seg.idx[2 * n + 1] = n
          /\ seg.idx[2 * n + 2] \in DOMAIN seg.recs
          /\ seg.recs[seg.idx[2 * n + 2]] = x.msg
      <3>1. seg.recs[seg.idx[2 * n + 2]] = x.msg /\ Count(seg) \in Nat
        BY <1>1, <1>2
      <3> HIDE DEF n, seg
      <3> QED  BY <2>1, <2>2, <3>1 DEF IntactSegment
    <2> HIDE DEF n, seg
    <2>4. IndexRead(seg, n) = {seg.idx[2 * n + 2]}
      BY <2>3 DEF IndexRead
    <2>5. ReadAtByte(seg, seg.idx[2 * n + 2]) = {x.msg}
      BY <2>3 DEF ReadAtByte
    <2>6. LogReadAt(seg, n) = {x.msg}
      BY <2>4, <2>5 DEF LogReadAt
    <2> QED  BY <2>6 DEF n, seg
  <1>9. {LogReadAt(d[hs[j].base], o - hs[j].base) : j \in FirstCovering(hs, o)}
           = {{x.msg}}
    <2>1. \A j \in FirstCovering(hs, o) :
              LogReadAt(d[hs[j].base], o - hs[j].base) = {x.msg}
      BY <1>7, <1>8, Zenon
    <2> QED  BY <1>6, <2>1, Zenon
  <1> QED  BY <1>9 DEF ReadAt

\* The inductive invariant: after any sequence of appends, rollovers, crashes
\* outside the two index words, and restarts, files and handles agree.
THEOREM DurableCorrect == CleanFaults => (Spec => []DurableInv)
  <1> SUFFICES ASSUME CleanFaults PROVE Spec => []DurableInv
    OBVIOUS
  <1>1. Init => DurableInv
    <2> SUFFICES ASSUME Init PROVE DurableInv
      OBVIOUS
    <2>1. /\ disk = [b \in {0} |-> EmptySegment] /\ DOMAIN disk = {0} /\ disk[0] = EmptySegment
          /\ logs = <<[base |-> 0, size |-> 0, next |-> 0]>> /\ active = 1 /\ acked = {}
          /\ DOMAIN logs = {1} /\ Len(logs) = 1
          /\ logs[1] = [base |-> 0, size |-> 0, next |-> 0]
      BY DEF Init
    <2>2. Count(EmptySegment) = 0 /\ EmptySegment.bytes = 0 /\ IntactSegment(EmptySegment)
      BY EmptySegmentType, EmptySegmentIntact DEF EmptySegment
    <2> QED  BY <2>1, <2>2 DEF DurableInv, IntactDisk, DisjointSegments, ActiveCurrent,
                               HandlesCover, OnlyRolledPast
  <1>2. TypeOK /\ DurableInv /\ [Next]_vars => DurableInv'
    BY DurableInductive
  <1> QED  BY <1>1, <1>2, TypeCorrect, PTL DEF Spec

\* Every acknowledged message is read back at its offset in every reachable
\* state of the partition: rollovers, failed rollovers, appends that fail on
\* their first write, crashes at any point but between the two words of an
\* index entry, and restarts with any rollover limit lose none of them.
THEOREM AckedDurable == CleanFaults => (Spec => []AckedReadable)
  <1> SUFFICES ASSUME CleanFaults PROVE Spec => []AckedReadable
    OBVIOUS
  <1>1. TypeOK /\ DurableInv => AckedReadable
    <2> SUFFICES ASSUME TypeOK, DurableInv, NEW x \in acked
                 PROVE  ReadAt(disk, logs, x.offset) = {x.msg}
      BY DEF AckedReadable
    <2>1. x.offset \in Nat /\ Stored(disk, x) /\ Consistent(disk, logs, active)
      BY DEF TypeOK, DurableInv, Consistent
    <2> QED  BY <2>1, StoredIsRead
  <1>2. Spec => []DurableInv
    BY DurableCorrect
  <1> QED  BY <1>1, <1>2, TypeCorrect, PTL


----------------------------------------------------------------------------
(* The refinement of MessageLog.                                           *)

\* Every offset below e has an entry in some segment.
NoHole(d, e) ==
    \A o \in Nat : o < e => \E b \in DOMAIN d : b <= o /\ o < b + Count(d[b])

\* The log ends at the same offset after the rollover.
LEMMA RolledEnd ==
    ASSUME TypeOK, DurableInv
    PROVE  Target.base + Target.next = EndOffset
  <1> DEFINE act == logs[active]
  <1>1. /\ DiskOK(disk) /\ logs \in Seq(Handle) /\ active \in DOMAIN logs
        /\ act.base \in DOMAIN disk /\ act \in Handle /\ RollBase \in Nat
    BY RollBaseType DEF TypeOK, HandlesOK
  <1>2. act.base \in Nat /\ act.next \in Nat /\ RollBase = act.base + act.next
    BY <1>1 DEF Handle, RollBase
  <1>3. act.next = Count(disk[act.base])
    BY DEF DurableInv, ActiveCurrent
  <1>4. CASE ShouldRoll
    <2> DEFINE d == Created(disk, RollBase)
               h == LoadLog(d, RollBase)
    <2>1. Rolled = [disk |-> d, logs |-> Append(logs, h), active |-> Len(logs) + 1]
      BY <1>4 DEF Rolled
    <2>2. /\ DiskOK(d) /\ RollBase \in DOMAIN d
          /\ \A b \in DOMAIN disk : d[b] = disk[b]
          /\ RollBase \notin DOMAIN disk => d[RollBase] = EmptySegment
      BY <1>1, CreatedType
    <2>3. h \in Handle /\ h.base = RollBase /\ h.next = Count(d[RollBase])
      BY <2>2, LoadLogType DEF LoadLog
    <2> HIDE DEF d, h
    <2>4. Target = h
      BY <1>1, <2>1, <2>3 DEF Target
    <2>5. Count(d[RollBase]) = 0
      <3>1. CASE RollBase \notin DOMAIN disk
        BY <2>2, <3>1, EmptySegmentType
      <3>2. CASE RollBase \in DOMAIN disk /\ RollBase > act.base
        BY <2>2, <3>2 DEF DurableInv, OnlyRolledPast
      <3>3. CASE RollBase \in DOMAIN disk /\ RollBase = act.base
        BY <1>2, <1>3, <2>2, <3>3
      <3> HIDE DEF act
      <3> QED  BY <1>2, <3>1, <3>2, <3>3
    <2> QED  BY <1>1, <2>3, <2>4, <2>5 DEF EndOffset
  <1>5. CASE ~ShouldRoll
    BY <1>5, <1>2 DEF Rolled, Target, EndOffset
  <1> QED  BY <1>4, <1>5

\* A step keeps every stored message ...
Kept == \A x : x.offset \in Nat /\ Stored(disk, x) => Stored(disk', x)

\* ... and leaves the end of the log where it is, or stores one message there.
SameLog == Kept /\ EndOffset' = EndOffset /\ acked' = acked

LongerLog(m) ==
    /\ Kept
    /\ EndOffset' = EndOffset + 1
    /\ \A x : x.offset = EndOffset /\ x.msg = m => Stored(disk', x)
    /\ \/ acked' = acked
       \/ \E r : r.offset = EndOffset /\ r.msg = m /\ acked' = acked \cup {r}

\* After a restart the log ends where its last segment does.
LEMMA LoadedEnd ==
    ASSUME NEW d, DiskOK(d), LoadPartition(d), NEW b \in DOMAIN d,
           \A c \in DOMAIN d : c <= b
    PROVE  EndOffset' = b + Count(d[b])
  <1>1. /\ logs'[active'].base \in DOMAIN d
        /\ logs'[active'] = LoadLog(d, logs'[active'].base)
        /\ b <= logs'[active'].base
    BY LoadPartitionLoads DEF HandlesOK
  <1>2. logs'[active'].base = b
    BY <1>1 DEF DiskOK
  <1> QED  BY <1>1, <1>2 DEF LoadLog, EndOffset, RollBase

\* Every step of the partition leaves the log as it is or extends it: an append
\* that succeeds, or crashes after its last write, extends it by its message.
LEMMA LogStep ==
    ASSUME CleanFaults, TypeOK, DurableInv, [Next]_vars
    PROVE  /\ \A len \in Lengths : AppendMsg(NewMessage(len)) => LongerLog(NewMessage(len))
           /\ \A len \in Lengths, w \in FailPoints : AppendFails(NewMessage(len), w) => SameLog
           /\ \A len \in Lengths, w \in CrashPoints :
                 AppendCrash(NewMessage(len), w) =>
                    IF w = 4 THEN LongerLog(NewMessage(len)) ELSE SameLog
           /\ RolloverFails \/ Restart \/ UNCHANGED vars => SameLog
  <1>0. TypeOK' /\ DurableInv'
    BY TypeInductive, DurableInductive
  <1> DEFINE d == Rolled.disk
             hs == Rolled.logs
             a == Rolled.active
             h == hs[a]
  <1>1. DiskOK(d) /\ HandlesOK(d, hs, a) /\ Settled(d, hs, a) /\ h = Target
    BY RolledType, RolledSettled DEF Target
  <1>2. \A x : x.offset \in Nat /\ Stored(disk, x) => Stored(d, x)
    BY RolledStored
  <1>3. \A len \in Lengths : NewMessage(len) \in Message
    BY DEF NewMessage, Message, TypeOK
  <1>4. \A m, w : DiskAfter(m, Target.next, w) =
                     [d EXCEPT ![h.base] = Written(d[h.base], h, m, h.next, w)]
    BY <1>1 DEF DiskAfter
  <1>5. \A m, w : LogsAfter(m, Target.next + 1, w) =
                     [hs EXCEPT ![a] = Advanced(h, m, h.next + 1, w)]
    BY <1>1 DEF LogsAfter
  <1>6. h \in Handle /\ h.base \in DOMAIN d /\ a \in DOMAIN hs /\ hs \in Seq(Handle)
    BY <1>1, RolledType DEF HandlesOK
  <1>7. /\ h.base + h.next = EndOffset /\ EndOffset \in Nat
        /\ h.next = Count(d[h.base]) /\ h.base \in Nat /\ h.next \in Nat
        /\ \A b \in DOMAIN d : b <= h.base
    <2>1. h.base + h.next = EndOffset /\ EndOffset \in Nat
      BY <1>1, RolledEnd, RollBaseType DEF EndOffset
    <2> QED  BY <1>1, <1>6, <2>1 DEF Settled, ActiveCurrent, Handle
  <1>8. h = hs[a]
    OBVIOUS
  <1> HIDE DEF d, hs, a, h
  <1>9. ASSUME NEW m \in Message, NEW w \in {0, 1, 2, 4},
               disk' = DiskAfter(m, Target.next, w)
        PROVE  /\ KeptBy(d, disk', h, m, w)
               /\ Kept
    <2>1. disk' = [d EXCEPT ![h.base] = Written(d[h.base], h, m, h.next, w)]
      BY <1>4, <1>9
    <2>2. KeptBy(d, disk', h, m, w)
      BY <1>1, <1>8, <2>1, WriteKeepsDisk
    <2>3. \A x : x.offset \in Nat /\ Stored(d, x) => Stored(disk', x)
      BY <2>2 DEF KeptBy
    <2> QED  BY <1>2, <2>2, <2>3 DEF Kept
  <1>10. ASSUME NEW len \in Lengths, AppendMsg(NewMessage(len))
         PROVE  LongerLog(NewMessage(len))
    <2> DEFINE m == NewMessage(len)
               r == [offset |-> h.base + h.next, returned |-> h.next, msg |-> m]
    <2>1. m \in Message
      BY <1>3
    <2>2. disk' = DiskAfter(m, Target.next, 4)
      BY <1>10 DEF AppendMsg
    <2>3. KeptBy(d, disk', h, m, 4) /\ Kept
      BY <1>9, <2>1, <2>2
    <2>4. EndOffset' = EndOffset + 1
      <3> DEFINE g == Advanced(h, m, h.next + 1, 4)
      <3>1. logs' = [hs EXCEPT ![a] = g] /\ active' = a
        BY <1>1, <1>5, <1>10 DEF AppendMsg, a
      <3>2. g.base = h.base /\ g.next = h.next + 1
        BY <1>6 DEF Advanced, Handle
      <3> HIDE DEF g
      <3>3. logs'[active'] = g
        BY <1>6, <3>1
      <3>4. EndOffset' = logs'[active'].base + logs'[active'].next
        BY DEF EndOffset, RollBase
      <3> QED  BY <1>7, <3>2, <3>3, <3>4
    <2>5. \A x : x.offset = EndOffset /\ x.msg = m => Stored(disk', x)
      BY <1>7, <2>3 DEF KeptBy
    <2>6. acked' = acked \cup {r}
      BY <1>1, <1>10 DEF AppendMsg
    <2>7. r.offset = EndOffset /\ r.msg = m
      BY <1>7
    <2>8. LongerLog(m)
      <3> HIDE DEF m, r
      <3> QED  BY <2>3, <2>4, <2>5, <2>6, <2>7 DEF LongerLog
    <2> QED  BY <2>8
  <1>11. ASSUME NEW len \in Lengths, NEW w \in FailPoints, AppendFails(NewMessage(len), w)
         PROVE  SameLog
    <2> DEFINE m == NewMessage(len)
    <2>1. w = 0 /\ m \in Message
      BY <1>3 DEF CleanFaults
    <2>2. disk' = DiskAfter(m, Target.next, 0)
      BY <1>11, <2>1 DEF AppendFails
    <2>3. Kept
      BY <1>9, <2>1, <2>2
    <2>4. EndOffset' = EndOffset
      <3>1. Advanced(h, m, h.next + 1, 0) = h
        BY DEF Advanced
      <3>2. logs' = [hs EXCEPT ![a] = h] /\ active' = a
        BY <1>5, <1>11, <2>1, <3>1 DEF AppendFails, a
      <3>3. logs'[active'] = h
        BY <1>6, <3>2
      <3> QED  BY <1>7, <3>3 DEF EndOffset, RollBase
    <2> QED  BY <1>11, <2>3, <2>4 DEF SameLog, AppendFails
  <1>12. ASSUME NEW len \in Lengths, NEW w \in CrashPoints, AppendCrash(NewMessage(len), w)
         PROVE  IF w = 4 THEN LongerLog(NewMessage(len)) ELSE SameLog
    <2> DEFINE m == NewMessage(len)
    <2>1. w \in {0, 1, 2, 4} /\ m \in Message
      BY <1>3, PartitionAssumption DEF CleanFaults
    <2>2. disk' = DiskAfter(m, Target.next, w)
      BY <1>12 DEF AppendCrash
    <2>3. KeptBy(d, disk', h, m, w) /\ Kept
      BY <1>9, <2>1, <2>2
    <2>4. EndOffset' = h.base + Count(disk'[h.base])
      <3>1. DiskOK(disk') /\ LoadPartition(disk')
        BY <1>0, <1>12 DEF TypeOK, AppendCrash
      <3>2. h.base \in DOMAIN disk' /\ \A c \in DOMAIN disk' : c <= h.base
        BY <1>6, <1>7, <2>3 DEF KeptBy
      <3> QED  BY <3>1, <3>2, LoadedEnd
    <2>5. acked' = acked
      BY <1>12 DEF AppendCrash
    <2>6. ASSUME w = 4 PROVE LongerLog(m)
      <3> HIDE DEF m
      <3>1. EndOffset' = EndOffset + 1
        BY <1>7, <2>3, <2>4, <2>6 DEF KeptBy
      <3>2. \A x : x.offset = EndOffset /\ x.msg = m => Stored(disk', x)
        BY <1>7, <2>3, <2>6 DEF KeptBy
      <3> QED  BY <2>3, <2>5, <3>1, <3>2 DEF LongerLog
    <2>7. ASSUME w # 4 PROVE SameLog
      <3> HIDE DEF m
      <3>1. EndOffset' = EndOffset
        BY <1>7, <2>3, <2>4, <2>7 DEF KeptBy
      <3> QED  BY <2>3, <2>5, <3>1 DEF SameLog
    <2> QED  BY <2>6, <2>7
  <1>13. ASSUME RolloverFails PROVE SameLog
    <2>1. /\ logs' = logs /\ active' = active /\ acked' = acked
          /\ disk' = disk \/ disk' = Rolled.disk
      BY <1>13 DEF RolloverFails, Rolled
    <2>2. Kept
      BY <1>2, <2>1 DEF Kept, d
    <2> QED  BY <2>1, <2>2 DEF SameLog, EndOffset, RollBase
  <1>14. ASSUME Restart PROVE SameLog
    <2> DEFINE act == logs[active]
    <2>1. disk' = disk /\ acked' = acked /\ LoadPartition(disk)
      BY <1>14 DEF Restart
    <2>2. /\ DiskOK(disk) /\ act.base \in DOMAIN disk /\ act \in Handle
          /\ act.next = Count(disk[act.base])
      BY RollBaseType DEF TypeOK, HandlesOK, DurableInv, ActiveCurrent
    <2>3. /\ DOMAIN disk \subseteq Nat /\ act.base \in Nat /\ act.next \in Nat
          /\ EndOffset = act.base + act.next
      BY <2>2 DEF DiskOK, Handle, EndOffset, RollBase
    <2>4. \A b \in DOMAIN disk : b > act.base => b = EndOffset /\ Count(disk[b]) = 0
      BY DEF DurableInv, OnlyRolledPast, EndOffset
    <2> HIDE DEF act
    <2>5. EndOffset' = EndOffset
      <3>1. CASE \E b \in DOMAIN disk : b > act.base
        <4>1. EndOffset \in DOMAIN disk /\ Count(disk[EndOffset]) = 0
          BY <2>4, <3>1
        <4>2. \A c \in DOMAIN disk : c <= EndOffset
          BY <2>3, <2>4
        <4>3. EndOffset' = EndOffset + Count(disk[EndOffset])
          BY <2>1, <2>2, <4>1, <4>2, LoadedEnd
        <4> QED  BY <2>3, <4>1, <4>3
      <3>2. CASE \A b \in DOMAIN disk : ~(b > act.base)
        <4>1. \A c \in DOMAIN disk : c <= act.base
          BY <2>3, <3>2
        <4>2. EndOffset' = act.base + Count(disk[act.base])
          BY <2>1, <2>2, <4>1, LoadedEnd
        <4> QED  BY <2>2, <2>3, <4>2
      <3> QED  BY <3>1, <3>2
    <2> QED  BY <2>1, <2>5 DEF SameLog, Kept
  <1>15. ASSUME UNCHANGED vars PROVE SameLog
    BY <1>15 DEF vars, SameLog, Kept, EndOffset, RollBase
  <1> QED  BY <1>10, <1>11, <1>12, <1>13, <1>14, <1>15

\* The same, whatever the step is.
LEMMA LogGrows ==
    ASSUME CleanFaults, TypeOK, DurableInv, [Next]_vars
    PROVE  SameLog \/ \E m : LongerLog(m)
  BY LogStep DEF Next

\* In a log without holes there is one message at every offset.
LEMMA ReadsBelowEnd ==
    ASSUME TypeOK, DurableInv, NoHole(disk, EndOffset), NEW o \in Nat, o < EndOffset
    PROVE  \E m : ReadAt(disk, logs, o) = {m} /\ Stored(disk, [offset |-> o, msg |-> m])
  <1>1. PICK b \in DOMAIN disk : b <= o /\ o < b + Count(disk[b])
    BY DEF NoHole
  <1> DEFINE m == disk[b].recs[disk[b].idx[2 * (o - b) + 2]]
             x == [offset |-> o, msg |-> m]
  <1>2. x.offset = o /\ x.msg = m
    OBVIOUS
  <1>3. Stored(disk, x)
    <2> HIDE DEF x
    <2> QED  BY <1>1, <1>2 DEF Stored, m
  <1>4. ReadAt(disk, logs, o) = {m}
    <2> HIDE DEF x, m
    <2> QED  BY <1>2, <1>3, StoredIsRead DEF TypeOK, DurableInv, Consistent
  <1> QED  BY <1>3, <1>4

\* Reading after a step what was stored before it, or by it.
LEMMA StepReads ==
    ASSUME CleanFaults, TypeOK, DurableInv, NoHole(disk, EndOffset), [Next]_vars, Kept
    PROVE  \A o \in Nat : o < EndOffset => /\ ReadAt(disk', logs', o) = ReadAt(disk, logs, o)
                                           /\ \E m : Stored(disk', [offset |-> o, msg |-> m])
  <1>0. TypeOK' /\ DurableInv'
    BY TypeInductive, DurableInductive
  <1> SUFFICES ASSUME NEW o \in Nat, o < EndOffset
               PROVE  /\ ReadAt(disk', logs', o) = ReadAt(disk, logs, o)
                      /\ \E m : Stored(disk', [offset |-> o, msg |-> m])
    OBVIOUS
  <1>1. PICK m : ReadAt(disk, logs, o) = {m} /\ Stored(disk, [offset |-> o, msg |-> m])
    BY ReadsBelowEnd
  <1> DEFINE x == [offset |-> o, msg |-> m]
  <1>2. x.offset = o /\ x.msg = m
    OBVIOUS
  <1>3. Stored(disk', x)
    <2>1. Stored(disk, x)
      BY <1>1
    <2> HIDE DEF x
    <2> QED  BY <1>2, <2>1 DEF Kept
  <1>4. ReadAt(disk', logs', x.offset) = {x.msg}
    <2> HIDE DEF x
    <2> QED  BY <1>0, <1>2, <1>3, StoredIsRead DEF TypeOK, DurableInv, Consistent
  <1> QED  BY <1>1, <1>2, <1>3, <1>4

\* A step leaves no hole.
LEMMA NoHoleInductive ==
    ASSUME CleanFaults, TypeOK, DurableInv, NoHole(disk, EndOffset), [Next]_vars
    PROVE  NoHole(disk', EndOffset')
  <1>1. SameLog \/ \E m : LongerLog(m)
    BY LogGrows
  <1>2. Kept
    BY <1>1 DEF SameLog, LongerLog
  <1> SUFFICES ASSUME NEW o \in Nat, o < EndOffset'
               PROVE  \E b \in DOMAIN disk' : b <= o /\ o < b + Count(disk'[b])
    BY DEF NoHole
  <1>3. EndOffset \in Nat
    BY RollBaseType DEF EndOffset
  <1>4. CASE o < EndOffset
    <2>1. PICK m : Stored(disk', [offset |-> o, msg |-> m])
      BY <1>2, <1>4, StepReads
    <2> DEFINE x == [offset |-> o, msg |-> m]
    <2>2. x.offset = o /\ Stored(disk', x)
      BY <2>1
    <2> HIDE DEF x
    <2> QED  BY <2>2 DEF Stored
  <1>5. CASE ~(o < EndOffset)
    <2>1. ~SameLog
      BY <1>5 DEF SameLog
    <2>2. PICK m : LongerLog(m)
      BY <1>1, <2>1
    <2>3. o = EndOffset
      <3>1. EndOffset' = EndOffset + 1
        BY <2>2 DEF LongerLog
      <3> QED  BY <1>3, <1>5, <3>1
    <2> DEFINE x == [offset |-> o, msg |-> m]
    <2>4. x.offset = o /\ x.msg = m
      OBVIOUS
    <2> HIDE DEF x
    <2>5. Stored(disk', x)
      BY <2>2, <2>3, <2>4 DEF LongerLog
    <2> QED  BY <2>4, <2>5 DEF Stored
  <1> QED  BY <1>4, <1>5

\* Content is a sequence with one element per offset below the end.
LEMMA ContentSeq ==
    ASSUME NEW n \in Nat, NEW d, NEW hs
    PROVE  LET s == [i \in 1..n |-> ReadAt(d, hs, i - 1)]
           IN  Len(s) = n /\ DOMAIN s = 1..n /\ \A i \in 1..n : s[i] = ReadAt(d, hs, i - 1)
  <1> DEFINE s == [i \in 1..n |-> ReadAt(d, hs, i - 1)]
             S == {ReadAt(d, hs, i - 1) : i \in 1..n}
  <1>1. s \in [1..n -> S]
    OBVIOUS
  <1>2. DOMAIN s = 1..n /\ \A i \in 1..n : s[i] = ReadAt(d, hs, i - 1)
    OBVIOUS
  <1> HIDE DEF s, S
  <1>3. s \in Seq(S) /\ Len(s) = n
    BY <1>1, <1>2
  <1> QED  BY <1>2, <1>3 DEF s

Acks(as) == {<<a.offset, {a.msg}>> : a \in as}

\* Every step of the partition is a step of MessageLog or changes neither the
\* log nor its acknowledgements.
LEMMA MessageLogStep ==
    ASSUME CleanFaults, TypeOK, DurableInv, NoHole(disk, EndOffset), [Next]_vars
    PROVE  [AbstractLog!Next]_<<Content, Acks(acked)>>
  <1>0. TypeOK' /\ DurableInv'
    BY TypeInductive, DurableInductive
  <1>1. SameLog \/ \E m : LongerLog(m)
    BY LogGrows
  <1>2. Kept
    BY <1>1 DEF SameLog, LongerLog
  <1>3. EndOffset \in Nat /\ EndOffset' \in Nat
    <2>1. EndOffset \in Nat
      BY RollBaseType DEF EndOffset
    <2> QED  BY <1>1, <2>1 DEF SameLog, LongerLog
  <1>4. \A o \in Nat : o < EndOffset => ReadAt(disk', logs', o) = ReadAt(disk, logs, o)
    BY <1>2, StepReads
  <1>5. /\ Len(Content) = EndOffset /\ DOMAIN Content = 1..EndOffset
        /\ \A i \in 1..EndOffset : Content[i] = ReadAt(disk, logs, i - 1)
    BY <1>3, ContentSeq DEF Content
  <1>6. /\ Len(Content') = EndOffset' /\ DOMAIN Content' = 1..EndOffset'
        /\ \A i \in 1..EndOffset' : Content'[i] = ReadAt(disk', logs', i - 1)
        /\ Content' = [i \in 1..EndOffset' |-> ReadAt(disk', logs', i - 1)]
    BY <1>3, ContentSeq DEF Content
  <1>7. \A i \in 1..EndOffset : ReadAt(disk', logs', i - 1) = ReadAt(disk, logs, i - 1)
    <2> SUFFICES ASSUME NEW i \in 1..EndOffset
                 PROVE  ReadAt(disk', logs', i - 1) = ReadAt(disk, logs, i - 1)
      OBVIOUS
    <2>1. i - 1 \in Nat /\ i - 1 < EndOffset
      BY <1>3
    <2> QED  BY <1>4, <2>1
  <1>8. CASE SameLog
    <2>1. EndOffset' = EndOffset /\ acked' = acked
      BY <1>8 DEF SameLog
    <2>2. Content' = Content
      BY <1>6, <1>7, <2>1, Zenon DEF Content
    <2> QED  BY <2>1, <2>2, Zenon DEF Acks
  <1>9. ASSUME NEW m, LongerLog(m) PROVE AbstractLog!Next
    <2>1. EndOffset' = EndOffset + 1
      BY <1>9 DEF LongerLog
    <2>2. Content'[Len(Content')] = {m}
      <3> DEFINE x == [offset |-> EndOffset, msg |-> m]
      <3>1. x.offset = EndOffset /\ x.msg = m
        OBVIOUS
      <3> HIDE DEF x
      <3>2. Stored(disk', x)
        BY <1>9, <3>1 DEF LongerLog
      <3>3. Consistent(disk', logs', active')
        BY <1>0 DEF TypeOK, DurableInv, Consistent
      <3>4. ReadAt(disk', logs', EndOffset) = {m}
        BY <1>3, <3>1, <3>2, <3>3, StoredIsRead
      <3>5. EndOffset' \in 1..EndOffset' /\ EndOffset' - 1 = EndOffset
        BY <1>3, <2>1
      <3> QED  BY <1>6, <3>4, <3>5
    <2>3. AbstractLog!Grow
      <3>1. Len(Content') = Len(Content) + 1
        BY <1>5, <1>6, <2>1
      <3>2. \A i \in DOMAIN Content : Content'[i] = Content[i]
        <4>1. \A i \in 1..EndOffset : i \in 1..EndOffset'
          BY <1>3, <2>1
        <4> QED  BY <1>5, <1>6, <1>7, <4>1, Zenon
      <3>3. Content'[Len(Content')] # {}
        BY <2>2
      <3> QED  BY <3>1, <3>2, <3>3 DEF AbstractLog!Grow
    <2>4. CASE acked' = acked
      <3>1. Acks(acked)' = Acks(acked)
        BY <2>4 DEF Acks
      <3> QED  BY <2>3, <3>1 DEF AbstractLog!Next, AbstractLog!AppendUnacked, Acks
    <2>5. CASE \E r : r.offset = EndOffset /\ r.msg = m /\ acked' = acked \cup {r}
      <3>1. PICK r : r.offset = EndOffset /\ r.msg = m /\ acked' = acked \cup {r}
        BY <2>5
      <3>2. Acks(acked)' = Acks(acked) \cup {<<Len(Content), Content'[Len(Content')]>>}
        <4>1. <<Len(Content), Content'[Len(Content')]>> = <<r.offset, {r.msg}>>
          BY <1>5, <2>2, <3>1
        <4> HIDE DEF Content
        <4>2. Acks(acked)' = Acks(acked) \cup {<<r.offset, {r.msg}>>}
          BY <3>1 DEF Acks
        <4> QED  BY <4>1, <4>2, Zenon
      <3> QED  BY <2>3, <3>2 DEF AbstractLog!Next, AbstractLog!AppendAcked, Acks
    <2> QED  BY <1>9, <2>4, <2>5 DEF LongerLog
  <1> QED  BY <1>1, <1>8, <1>9

\* The partition implements an append-only log of messages, for any message
\* lengths, rollover limits and number of appends, as long as the faults are
\* clean: offsets have no holes, no message changes, an append adds at most one
\* at the end and the one it acknowledged, and rollovers, crashes and restarts
\* change nothing.
THEOREM MessageLogImplemented == CleanFaults => (Spec => ImplementsMessageLog)
  <1> SUFFICES ASSUME CleanFaults PROVE Spec => ImplementsMessageLog
    OBVIOUS
  <1>1. Init => AbstractLog!Init /\ NoHole(disk, EndOffset)
    <2> SUFFICES ASSUME Init PROVE AbstractLog!Init /\ NoHole(disk, EndOffset)
      OBVIOUS
    <2>1. EndOffset = 0
      BY DEF Init, EndOffset, RollBase
    <2>2. Content = <<>>
      <3>1. 1..EndOffset = {}
        BY <2>1
      <3> QED  BY <3>1 DEF Content
    <2>3. acked = {}
      BY DEF Init
    <2> QED  BY <2>1, <2>2, <2>3 DEF AbstractLog!Init, NoHole
  <1>2. TypeOK /\ DurableInv /\ NoHole(disk, EndOffset) /\ [Next]_vars
           => NoHole(disk, EndOffset)'
    BY NoHoleInductive DEF NoHole
  <1>3. TypeOK /\ DurableInv /\ NoHole(disk, EndOffset) /\ [Next]_vars
           => [AbstractLog!Next]_<<Content, Acks(acked)>>
    BY MessageLogStep
  <1>4. Spec => []TypeOK /\ []DurableInv
    BY TypeCorrect, DurableCorrect, PTL
  <1> QED  BY <1>1, <1>2, <1>3, <1>4, PTL
           DEF Spec, ImplementsMessageLog, AbstractLog!Spec, Acks

----------------------------------------------------------------------------
(* What can be read stays readable, whatever fails.                        *)

RecordsInFile(seg) == \A p \in DOMAIN seg.recs : p < seg.bytes

\* Files and handles as every fault leaves them, with no failed rollover
\* pending: the handle of the active log may be ahead of its index but never
\* behind it, no handle reaches into a later segment, and none past the end.
Spread(d, hs, a) ==
    /\ \A b \in DOMAIN d : RecordsInFile(d[b])
    /\ DisjointSegments(d)
    /\ Len(d[hs[a].base].idx) <= 2 * hs[a].next + 1
    /\ \A i \in DOMAIN hs : \A c \in DOMAIN d : hs[i].base < c => hs[i].base + hs[i].next <= c
    /\ \A i \in DOMAIN hs : hs[i].base + hs[i].next <= hs[a].base + hs[a].next

LayoutInv == Spread(disk, logs, active) /\ OnlyRolledPast

\* t has every entry of s, and reads that find a message in s find it in t.
SegmentGrows(s, t) ==
    /\ Count(s) <= Count(t)
    /\ \A n \in Nat : LogReadAt(s, n) \subseteq LogReadAt(t, n)

DiskGrows(d, e) ==
    /\ DOMAIN d \subseteq DOMAIN e
    /\ \A b \in DOMAIN d : SegmentGrows(d[b], e[b])

\* An entry that a handle of hs reaches is reached by one of gs.
StillReached(d, hs, gs) ==
    \A i \in DOMAIN hs, o \in Nat :
        Covers(hs[i], o) /\ o < hs[i].base + Count(d[hs[i].base]) =>
            \E j \in DOMAIN gs : gs[j].base = hs[i].base /\ Covers(gs[j], o)

\* A message found in a segment has an entry in its index.
LEMMA FoundIsEntry ==
    ASSUME NEW seg, IsSegment(seg), NEW n \in Nat, LogReadAt(seg, n) # {}
    PROVE  n < Count(seg)
  <1>1. IndexRead(seg, n) # {}
    BY DEF LogReadAt
  <1>2. 2 * n + 2 <= Len(seg.idx)
    BY <1>1 DEF IndexRead
  <1>3. Len(seg.idx) \in Nat
    BY DEF IsSegment
  <1>4. Len(seg.idx) <= 2 * Count(seg) + 1 /\ Count(seg) \in Nat
    BY ONLY <1>3, HalfOf DEF Count
  <1> QED  BY <1>2, <1>3, <1>4

\* Reading is stable when the segments grow and their entries stay in reach.
LEMMA ReadsKept ==
    ASSUME NEW d, NEW hs, NEW a, DiskOK(d), HandlesOK(d, hs, a),
           NEW e, NEW gs, NEW c, DiskOK(e), HandlesOK(e, gs, c), Spread(e, gs, c),
           DiskGrows(d, e), StillReached(d, hs, gs), NEW o \in Nat
    PROVE  ReadAt(d, hs, o) \subseteq ReadAt(e, gs, o)
  <1> SUFFICES ASSUME NEW m \in ReadAt(d, hs, o) PROVE m \in ReadAt(e, gs, o)
    OBVIOUS
  <1>1. PICK i \in FirstCovering(hs, o) : m \in LogReadAt(d[hs[i].base], o - hs[i].base)
    BY DEF ReadAt
  <1> DEFINE b == hs[i].base
             n == o - b
  <1>2. i \in DOMAIN hs /\ Covers(hs[i], o) /\ b \in DOMAIN d /\ b \in Nat /\ b <= o
    BY <1>1 DEF FirstCovering, HandlesOK, DiskOK, Covers
  <1>3. n \in Nat /\ IsSegment(d[b]) /\ IsSegment(e[b]) /\ b \in DOMAIN e
    BY <1>2 DEF DiskOK, DiskGrows
  <1>4. m \in LogReadAt(d[b], n)
    BY <1>1
  <1> HIDE DEF n
  <1>5. n < Count(d[b]) /\ Count(d[b]) \in Nat /\ Count(e[b]) \in Nat
    BY <1>3, <1>4, FoundIsEntry, CountType
  <1>6. m \in LogReadAt(e[b], n) /\ Count(d[b]) <= Count(e[b])
    BY <1>2, <1>3, <1>4 DEF DiskGrows, SegmentGrows
  <1>7. o < b + Count(d[b]) /\ o < b + Count(e[b])
    BY <1>2, <1>5, <1>6 DEF n
  <1>8. \E j \in DOMAIN gs : gs[j].base = b /\ Covers(gs[j], o)
    BY <1>2, <1>7 DEF StillReached
  <1>9. PICK j \in FirstCovering(gs, o) : TRUE
    <2>1. gs \in Seq(Handle)
      BY DEF HandlesOK
    <2> QED  BY <1>8, <2>1, FirstCoveringExists
  <1>10. gs[j].base = b
    <2> DEFINE f == gs[j].base
    <2>1. j \in DOMAIN gs /\ gs[j] \in Handle /\ f \in DOMAIN e
      BY <1>9 DEF FirstCovering, HandlesOK
    <2>2. f \in Nat /\ gs[j].next \in Nat /\ f <= o /\ o < f + gs[j].next
      BY <1>9, <2>1 DEF Handle, FirstCovering, Covers
    <2>3. ~(f < b)
      BY <1>2, <1>3, <2>1, <2>2 DEF Spread
    <2>4. ~(b < f)
      <3>1. b < f => b + Count(e[b]) <= f
        BY <1>3, <2>1 DEF Spread, DisjointSegments
      <3> HIDE DEF b, f
      <3> QED  BY <1>2, <1>5, <1>7, <2>2, <3>1
    <2> HIDE DEF f, b
    <2>5. f = b
      BY <1>2, <2>2, <2>3, <2>4
    <2> QED  BY <2>5 DEF f
  <1>11. m \in LogReadAt(e[gs[j].base], o - gs[j].base)
    BY <1>6, <1>10 DEF n
  <1> QED  BY <1>9, <1>11 DEF ReadAt

\* The index words among the first w writes.
WordsOf(w) == IF w < 3 THEN 0 ELSE w - 2

\* new is seg after w writes of an append, whatever the handle says.
GrownBy(seg, new, w) ==
    /\ SegmentGrows(seg, new)
    /\ RecordsInFile(new)
    /\ Len(new.idx) = Len(seg.idx) + WordsOf(w)

\* Any number of the writes of an append makes a segment grow.
LEMMA WrittenGrows ==
    ASSUME NEW seg, IsSegment(seg), RecordsInFile(seg),
           NEW h \in Handle, NEW m \in Message, NEW o \in Nat, NEW w \in 0..4
    PROVE  GrownBy(seg, Written(seg, h, m, o, w), w)
  <1> DEFINE new == Written(seg, h, m, o, w)
  <1>1. /\ seg.bytes \in Nat /\ seg.idx \in Seq(Nat) /\ Len(seg.idx) \in Nat
        /\ DOMAIN seg.recs \subseteq Nat
        /\ m.len \in Nat \ {0} /\ h.size \in Nat
    BY PartitionAssumption DEF IsSegment, Message, Handle
  <1>2. /\ DOMAIN seg.recs \subseteq DOMAIN new.recs
        /\ \A p \in DOMAIN seg.recs : new.recs[p] = seg.recs[p]
        /\ DOMAIN new.recs \subseteq DOMAIN seg.recs \cup {seg.bytes}
        /\ w < 2 => new.recs = seg.recs
    <2>1. w < 2 => new.recs = seg.recs
      BY DEF Written
    <2>2. w >= 2 => new.recs = [p \in DOMAIN seg.recs \cup {seg.bytes} |->
                                   IF p = seg.bytes THEN m ELSE seg.recs[p]]
      BY DEF Written
    <2>3. w < 2 \/ w >= 2
      OBVIOUS
    <2>4. seg.bytes \notin DOMAIN seg.recs
      BY <1>1 DEF RecordsInFile
    <2> HIDE DEF new
    <2> QED  BY <2>1, <2>2, <2>3, <2>4
  <1>3. /\ new.bytes \in Nat /\ seg.bytes <= new.bytes
        /\ w >= 2 => seg.bytes < new.bytes
    <2>1. new.bytes = seg.bytes + (IF w >= 1 THEN 8 ELSE 0) + (IF w >= 2 THEN m.len ELSE 0)
      BY DEF Written, PrefixWidth
    <2>2. seg.bytes \in Nat /\ m.len \in Nat \ {0}
      BY <1>1
    <2> HIDE DEF new
    <2> QED  BY <2>1, <2>2
  <1>3a. \A p \in DOMAIN seg.recs : p < seg.bytes
    BY DEF RecordsInFile
  <1>3b. /\ w < 3 => new.idx = seg.idx
         /\ w = 3 => new.idx = Append(seg.idx, o)
         /\ w = 4 => new.idx = Append(Append(seg.idx, o), h.size)
    BY DEF Written
  <1>3c. DOMAIN new.recs = DOMAIN seg.recs \/ w >= 2
    BY <1>2
  <1> HIDE DEF new
  <1>4. \A p \in DOMAIN new.recs : p < new.bytes
    <2> SUFFICES ASSUME NEW p \in DOMAIN new.recs PROVE p < new.bytes
      OBVIOUS
    <2>1. CASE p \in DOMAIN seg.recs
      <3>1. p \in Nat /\ p < seg.bytes
        BY <1>1, <1>3a, <2>1
      <3>2. seg.bytes \in Nat
        BY <1>1
      <3> QED  BY <1>3, <3>1, <3>2
    <2>2. CASE p \notin DOMAIN seg.recs
      <3>1. p = seg.bytes /\ w >= 2
        BY <1>2, <1>3c, <2>2
      <3> QED  BY <1>3, <3>1
    <2> QED  BY <2>1, <2>2
  <1>5. /\ Len(new.idx) = Len(seg.idx) + WordsOf(w) /\ WordsOf(w) \in Nat
        /\ \A i \in 1..Len(seg.idx) : new.idx[i] = seg.idx[i]
    <2>1. CASE w < 3
      <3>1. WordsOf(w) = 0 /\ new.idx = seg.idx
        BY <1>3b, <2>1 DEF WordsOf
      <3>2. Len(seg.idx) + 0 = Len(seg.idx)
        BY <1>1
      <3> QED  BY <3>1, <3>2
    <2>2. CASE w = 3
      <3>1. /\ Len(Append(seg.idx, o)) = Len(seg.idx) + 1
            /\ \A i \in 1..Len(seg.idx) : Append(seg.idx, o)[i] = seg.idx[i]
        BY <1>1
      <3>2. WordsOf(w) = 1 /\ new.idx = Append(seg.idx, o)
        BY <1>3b, <2>2 DEF WordsOf
      <3> QED  BY <3>1, <3>2
    <2>3. CASE w = 4
      <3>1. /\ Len(Append(Append(seg.idx, o), h.size)) = Len(seg.idx) + 2
            /\ \A i \in 1..Len(seg.idx) :
                  Append(Append(seg.idx, o), h.size)[i] = seg.idx[i]
        BY <1>1, AppendTwice
      <3>2. WordsOf(w) = 2 /\ new.idx = Append(Append(seg.idx, o), h.size)
        BY <1>3b, <2>3 DEF WordsOf
      <3> QED  BY <3>1, <3>2
    <2>4. w < 3 \/ w = 3 \/ w = 4
      OBVIOUS
    <2> QED  BY <2>1, <2>2, <2>3, <2>4
  <1>6. Count(seg) <= Count(new)
    <2> DEFINE k == Len(seg.idx)
               l == Len(new.idx)
    <2>1. k \in Nat /\ l \in Nat /\ k <= l
      BY <1>1, <1>5
    <2> HIDE DEF k, l
    <2>2. k \div 2 <= l \div 2
      BY <2>1
    <2> QED  BY <2>2 DEF Count, k, l
  <1>7. ASSUME NEW n \in Nat, NEW x \in LogReadAt(seg, n) PROVE x \in LogReadAt(new, n)
    <2>1. PICK pos \in IndexRead(seg, n) : x \in ReadAtByte(seg, pos)
      BY <1>7 DEF LogReadAt
    <2>2. 2 * n + 2 <= Len(seg.idx) /\ seg.idx[2 * n + 1] = n /\ pos = seg.idx[2 * n + 2]
      BY <2>1 DEF IndexRead
    <2>3. pos \in DOMAIN seg.recs /\ x = seg.recs[pos]
      BY <2>1 DEF ReadAtByte
    <2>4. /\ 2 * n + 2 <= Len(new.idx)
          /\ new.idx[2 * n + 1] = n /\ new.idx[2 * n + 2] = pos
      <3>1. 2 * n + 1 \in 1..Len(seg.idx) /\ 2 * n + 2 \in 1..Len(seg.idx)
        BY <1>1, <2>2
      <3>2. 2 * n + 2 <= Len(new.idx)
        BY <1>1, <1>5, <2>2
      <3> QED  BY <1>5, <2>2, <3>1, <3>2
    <2>5. pos \in IndexRead(new, n)
      BY <2>4 DEF IndexRead
    <2>6. x \in ReadAtByte(new, pos)
      BY <1>2, <2>3 DEF ReadAtByte
    <2> QED  BY <2>5, <2>6 DEF LogReadAt
  <1>8. SegmentGrows(seg, new)
    BY <1>6, <1>7 DEF SegmentGrows
  <1> QED  BY <1>4, <1>5, <1>8 DEF GrownBy, RecordsInFile, new

\* Every handle is still there, and reaches at least as far.
HandlesKept(hs, gs) ==
    \A i \in DOMAIN hs : \E j \in DOMAIN gs :
        gs[j].base = hs[i].base /\ hs[i].next <= gs[j].next

\* Nothing changes for a reader when the handles are kept.
LEMMA KeptIsReached ==
    ASSUME NEW d, NEW hs, NEW gs, hs \in Seq(Handle), gs \in Seq(Handle), HandlesKept(hs, gs)
    PROVE  StillReached(d, hs, gs)
  <1> SUFFICES ASSUME NEW i \in DOMAIN hs, NEW o \in Nat, Covers(hs[i], o)
               PROVE  \E j \in DOMAIN gs : gs[j].base = hs[i].base /\ Covers(gs[j], o)
    BY DEF StillReached
  <1>1. PICK j \in DOMAIN gs : gs[j].base = hs[i].base /\ hs[i].next <= gs[j].next
    BY DEF HandlesKept
  <1>2. hs[i] \in Handle /\ gs[j] \in Handle
    OBVIOUS
  <1>3. hs[i].base \in Nat /\ hs[i].next \in Nat /\ gs[j].next \in Nat
    BY <1>2 DEF Handle
  <1>4. Covers(gs[j], o)
    BY <1>1, <1>3 DEF Covers
  <1> QED  BY <1>1, <1>4

\* Growing is reflexive on well-formed directories, and transitive.
LEMMA GrowsReflexive ==
    ASSUME NEW d, DiskOK(d)
    PROVE  DiskGrows(d, d)
  <1>1. \A b \in DOMAIN d : Count(d[b]) \in Nat
    BY CountType DEF DiskOK
  <1> QED  BY <1>1 DEF DiskGrows, SegmentGrows

LEMMA GrowsTransitive ==
    ASSUME NEW d, NEW e, NEW f, DiskOK(d), DiskOK(e), DiskOK(f),
           DiskGrows(d, e), DiskGrows(e, f)
    PROVE  DiskGrows(d, f)
  <1>1. \A b \in DOMAIN d : /\ b \in DOMAIN e /\ b \in DOMAIN f
                            /\ SegmentGrows(d[b], e[b]) /\ SegmentGrows(e[b], f[b])
    BY DEF DiskGrows
  <1>2. \A b \in DOMAIN d : Count(d[b]) \in Nat /\ Count(e[b]) \in Nat /\ Count(f[b]) \in Nat
    BY <1>1, CountType DEF DiskOK
  <1>3. ASSUME NEW b \in DOMAIN d PROVE SegmentGrows(d[b], f[b])
    <2>1. Count(d[b]) <= Count(f[b])
      BY <1>1, <1>2 DEF SegmentGrows
    <2>2. \A n \in Nat : LogReadAt(d[b], n) \subseteq LogReadAt(f[b], n)
      BY <1>1 DEF SegmentGrows
    <2> QED  BY <2>1, <2>2 DEF SegmentGrows
  <1> QED  BY <1>1, <1>3 DEF DiskGrows

\* A rollover makes a new last segment at the end of the log, or finds it there.
LEMMA RolledSpread ==
    ASSUME TypeOK, LayoutInv
    PROVE  /\ Spread(Rolled.disk, Rolled.logs, Rolled.active)
           /\ \A b \in DOMAIN Rolled.disk : b <= Target.base
           /\ DiskGrows(disk, Rolled.disk)
           /\ HandlesKept(logs, Rolled.logs)
  <1> DEFINE act == logs[active]
  <1>1. /\ DiskOK(disk) /\ logs \in Seq(Handle) /\ active \in DOMAIN logs
        /\ \A i \in DOMAIN logs : logs[i].base \in DOMAIN disk
        /\ act \in Handle /\ RollBase \in Nat
    BY RollBaseType DEF TypeOK, HandlesOK
  <1>2. /\ \A b \in DOMAIN disk : RecordsInFile(disk[b])
        /\ DisjointSegments(disk)
        /\ Len(disk[act.base].idx) <= 2 * act.next + 1
        /\ \A i \in DOMAIN logs : \A c \in DOMAIN disk :
              logs[i].base < c => logs[i].base + logs[i].next <= c
        /\ \A i \in DOMAIN logs : logs[i].base + logs[i].next <= RollBase
    BY DEF LayoutInv, Spread, RollBase
  <1>3. \A b \in DOMAIN disk : /\ b \in Nat /\ IsSegment(disk[b]) /\ Count(disk[b]) \in Nat
                               /\ Len(disk[b].idx) \in Nat
                               /\ Len(disk[b].idx) <= 2 * Count(disk[b]) + 1
                               /\ 2 * Count(disk[b]) <= Len(disk[b].idx)
    <2> SUFFICES ASSUME NEW b \in DOMAIN disk
                 PROVE  /\ b \in Nat /\ IsSegment(disk[b]) /\ Count(disk[b]) \in Nat
                        /\ Len(disk[b].idx) \in Nat
                        /\ Len(disk[b].idx) <= 2 * Count(disk[b]) + 1
                        /\ 2 * Count(disk[b]) <= Len(disk[b].idx)
      OBVIOUS
    <2>1. b \in Nat /\ IsSegment(disk[b])
      BY <1>1 DEF DiskOK
    <2>2. Len(disk[b].idx) \in Nat
      BY <2>1, CountType
    <2>3. /\ Count(disk[b]) \in Nat /\ Len(disk[b].idx) <= 2 * Count(disk[b]) + 1
          /\ 2 * Count(disk[b]) <= Len(disk[b].idx)
      BY ONLY <2>2, HalfOf DEF Count
    <2> QED  BY <2>1, <2>2, <2>3
  <1>4. /\ act.base \in DOMAIN disk /\ act.base \in Nat /\ act.next \in Nat
        /\ RollBase = act.base + act.next
    BY <1>1 DEF Handle, RollBase
  <1>5. \A i \in DOMAIN logs : logs[i].base \in Nat /\ logs[i].next \in Nat
    <2>1. \A i \in DOMAIN logs : logs[i] \in Handle
      BY <1>1
    <2> QED  BY <2>1 DEF Handle
  <1>6. \A b \in DOMAIN disk : b > act.base => b = RollBase /\ Count(disk[b]) = 0 /\ ShouldRoll
    BY DEF LayoutInv, OnlyRolledPast
  <1>7. CASE ShouldRoll
    <2> DEFINE d == Created(disk, RollBase)
               h == LoadLog(d, RollBase)
               hs == Append(logs, h)
               a == Len(logs) + 1
    <2>1. Rolled = [disk |-> d, logs |-> hs, active |-> a]
      BY <1>7 DEF Rolled
    <2>2. /\ DiskOK(d) /\ DOMAIN d = DOMAIN disk \cup {RollBase}
          /\ \A b \in DOMAIN disk : d[b] = disk[b]
          /\ RollBase \notin DOMAIN disk => d[RollBase] = EmptySegment
      BY <1>1, CreatedType
    <2>3. h \in Handle /\ h.base = RollBase /\ h.next = Count(d[RollBase])
      BY <2>2, LoadLogType DEF LoadLog
    <2> HIDE DEF d, h
    <2>4. /\ DOMAIN hs = DOMAIN logs \cup {a} /\ hs[a] = h
          /\ \A i \in DOMAIN logs : hs[i] = logs[i]
      BY <1>1, <2>3
    <2> HIDE DEF hs, a, act
    <2>5. Count(d[RollBase]) = 0 /\ Len(d[RollBase].idx) <= 1
      <3>1. CASE RollBase \notin DOMAIN disk
        BY <2>2, <3>1, EmptySegmentType DEF EmptySegment
      <3>2. CASE RollBase \in DOMAIN disk /\ RollBase > act.base
        BY <1>3, <1>6, <2>2, <3>2
      <3>3. CASE RollBase \in DOMAIN disk /\ RollBase = act.base
        BY <1>2, <1>3, <1>4, <2>2, <3>3
      <3> QED  BY <1>4, <3>1, <3>2, <3>3
    <2>6. \A b \in DOMAIN disk : b <= act.base \/ b = RollBase
      BY <1>3, <1>4, <1>6
    <2>7. \A b \in DOMAIN disk : b # RollBase => b + Count(disk[b]) <= RollBase
      <3> SUFFICES ASSUME NEW b \in DOMAIN disk, b # RollBase PROVE b + Count(disk[b]) <= RollBase
        OBVIOUS
      <3>1. b <= act.base
        BY <2>6
      <3>2. CASE b = act.base
        BY <1>2, <1>3, <1>4, <3>2
      <3>3. CASE b < act.base
        BY <1>2, <1>3, <1>4, <3>3 DEF DisjointSegments
      <3> QED  BY <1>3, <1>4, <3>1, <3>2, <3>3
    <2>8. \A b \in DOMAIN d : b <= RollBase
      BY <1>3, <1>4, <2>2, <2>6
    <2>9. \A b \in DOMAIN d : RecordsInFile(d[b])
      BY <1>2, <2>2 DEF RecordsInFile, EmptySegment
    <2>10. DisjointSegments(d)
      <3> SUFFICES ASSUME NEW b \in DOMAIN d, NEW c \in DOMAIN d, b < c
                   PROVE  b + Count(d[b]) <= c
        BY DEF DisjointSegments
      <3>1. b \in DOMAIN disk /\ d[b] = disk[b] /\ b # RollBase
        BY <2>2, <2>8, <1>1, <1>3
      <3>2. CASE c \in DOMAIN disk
        BY <3>1, <3>2, <1>2 DEF DisjointSegments
      <3>3. CASE c = RollBase
        BY <3>1, <3>3, <2>7
      <3> QED  BY <3>2, <3>3, <2>2
    <2>11. \A i \in DOMAIN hs : \A c \in DOMAIN d : hs[i].base < c => hs[i].base + hs[i].next <= c
      <3> SUFFICES ASSUME NEW i \in DOMAIN hs, NEW c \in DOMAIN d, hs[i].base < c
                   PROVE  hs[i].base + hs[i].next <= c
        OBVIOUS
      <3>1. i \in DOMAIN logs
        BY <2>2, <2>3, <2>4, <2>8, <1>1, <1>3
      <3>2. CASE c \in DOMAIN disk
        BY <1>2, <2>4, <3>1, <3>2
      <3>3. CASE c = RollBase
        BY <1>2, <2>4, <3>1, <3>3
      <3> QED  BY <3>2, <3>3, <2>2
    <2>12. \A i \in DOMAIN hs : hs[i].base + hs[i].next <= hs[a].base + hs[a].next
      <3>1. hs[a].base + hs[a].next = RollBase
        BY <1>1, <2>3, <2>4, <2>5
      <3> QED  BY <1>1, <1>2, <2>4, <3>1
    <2>13. Len(d[hs[a].base].idx) <= 2 * hs[a].next + 1
      BY <2>3, <2>4, <2>5
    <2>14. Spread(d, hs, a)
      BY <2>9, <2>10, <2>11, <2>12, <2>13 DEF Spread
    <2>15. DiskGrows(disk, d)
      <3>1. DiskGrows(disk, disk)
        BY <1>1, GrowsReflexive
      <3> QED  BY <2>2, <3>1 DEF DiskGrows
    <2>16. HandlesKept(logs, hs)
      BY <1>5, <2>4 DEF HandlesKept
    <2>17. Target = h
      BY <2>1, <2>4 DEF Target
    <2> QED  BY <2>1, <2>3, <2>8, <2>14, <2>15, <2>16, <2>17
  <1>8. CASE ~ShouldRoll
    <2>1. Rolled = [disk |-> disk, logs |-> logs, active |-> active]
      BY <1>8 DEF Rolled
    <2>2. Target = act
      BY <2>1 DEF Target
    <2>3. DiskGrows(disk, disk)
      BY <1>1, GrowsReflexive
    <2>4. HandlesKept(logs, logs)
      BY <1>5 DEF HandlesKept
    <2> HIDE DEF act
    <2>5. \A b \in DOMAIN disk : b <= act.base
      BY <1>3, <1>4, <1>6, <1>8
    <2> QED  BY <2>1, <2>2, <2>3, <2>4, <2>5 DEF LayoutInv
  <1> QED  BY <1>7, <1>8

\* h is on the last segment.
OnLast(d, h) == \A b \in DOMAIN d : b <= h.base

\* Any number of the writes of an append to the last segment.
LEMMA WriteSpread ==
    ASSUME NEW d, NEW hs, NEW a, DiskOK(d), HandlesOK(d, hs, a), Spread(d, hs, a),
           NEW h, h = hs[a], OnLast(d, h), NEW m \in Message, NEW w \in 0..4,
           NEW o \in Nat, h.next <= o, Len(d[h.base].idx) <= 2 * o + 1,
           NEW e, e = [d EXCEPT ![h.base] = Written(d[h.base], h, m, o, w)],
           NEW gs, gs = [hs EXCEPT ![a] = Advanced(h, m, o + 1, w)]
    PROVE  /\ Spread(e, gs, a) /\ OnLast(e, gs[a])
           /\ DiskGrows(d, e) /\ HandlesKept(hs, gs)
  <1> DEFINE seg == d[h.base]
             new == Written(seg, h, m, o, w)
             g == Advanced(h, m, o + 1, w)
  <1>1. /\ hs \in Seq(Handle) /\ a \in DOMAIN hs /\ h \in Handle
        /\ \A i \in DOMAIN hs : hs[i] \in Handle /\ hs[i].base \in DOMAIN d
    BY DEF HandlesOK
  <1>2. /\ h.base \in DOMAIN d /\ h.base \in Nat /\ h.next \in Nat
        /\ \A i \in DOMAIN hs : hs[i].base \in Nat /\ hs[i].next \in Nat
        /\ \A b \in DOMAIN d : b \in Nat /\ IsSegment(d[b]) /\ Count(d[b]) \in Nat
    BY <1>1, CountType DEF Handle, DiskOK
  <1>3. GrownBy(seg, new, w)
    <2>1. IsSegment(seg) /\ RecordsInFile(seg)
      BY <1>2 DEF Spread
    <2> QED  BY <1>1, <2>1, WrittenGrows
  <1>4. /\ g.base = h.base /\ g.next \in Nat /\ h.next <= g.next
        /\ w < 2 => g.next = h.next
        /\ w >= 2 => g.next = o + 1
    <2>1. w < 2 => g = h
      BY DEF Advanced
    <2>2. w >= 2 => g.base = h.base /\ g.next = o + 1
      BY <1>1 DEF Advanced, Handle
    <2> HIDE DEF g
    <2> QED  BY <1>2, <2>1, <2>2
  <1>5. /\ DOMAIN e = DOMAIN d /\ e[h.base] = new
        /\ \A b \in DOMAIN d : b # h.base => e[b] = d[b]
    <2>1. d = [b \in DOMAIN d |-> d[b]]
      BY DEF DiskOK
    <2> QED  BY <1>2, <2>1
  <1>6. /\ DOMAIN gs = DOMAIN hs /\ gs[a] = g
        /\ \A i \in DOMAIN hs : i # a => gs[i] = hs[i]
    BY <1>1
  <1> HIDE DEF new, g
  <1>7. \A b \in DOMAIN e : RecordsInFile(e[b])
    BY <1>3, <1>5 DEF Spread, GrownBy
  <1>8. DisjointSegments(e)
    <2> SUFFICES ASSUME NEW b \in DOMAIN e, NEW c \in DOMAIN e, b < c
                 PROVE  b + Count(e[b]) <= c
      BY DEF DisjointSegments
    <2>1. b \in DOMAIN d /\ c \in DOMAIN d /\ b # h.base /\ e[b] = d[b]
      BY <1>2, <1>5 DEF OnLast
    <2> QED  BY <2>1 DEF Spread, DisjointSegments
  <1>9. Len(e[gs[a].base].idx) <= 2 * gs[a].next + 1
    <2>1. Len(seg.idx) <= 2 * h.next + 1 /\ Len(seg.idx) \in Nat
      BY <1>2, CountType DEF Spread
    <2>2. Len(new.idx) = Len(seg.idx) + WordsOf(w)
      BY <1>3 DEF GrownBy
    <2>3. Len(new.idx) <= 2 * g.next + 1
      <3> DEFINE k == Len(seg.idx)
                 l == Len(new.idx)
                 v == WordsOf(w)
      <3>1. /\ k <= 2 * h.next + 1 /\ k <= 2 * o + 1 /\ k \in Nat /\ l = k + v
            /\ v \in Nat /\ v <= 2 /\ (w < 2 => v = 0)
        BY <2>1, <2>2 DEF WordsOf
      <3> HIDE DEF k, l, v
      <3>2. CASE w < 2
        BY <1>2, <1>4, <3>1, <3>2 DEF l
      <3>3. CASE w >= 2
        BY <1>2, <1>4, <3>1, <3>3 DEF l
      <3> QED  BY <3>2, <3>3
    <2> QED  BY <1>4, <1>5, <1>6, <2>3
  <1>10. \A i \in DOMAIN gs : \A c \in DOMAIN e : gs[i].base < c => gs[i].base + gs[i].next <= c
    <2> SUFFICES ASSUME NEW i \in DOMAIN gs, NEW c \in DOMAIN e, gs[i].base < c
                 PROVE  gs[i].base + gs[i].next <= c
      OBVIOUS
    <2>1. i # a
      BY <1>2, <1>4, <1>5, <1>6 DEF OnLast
    <2> QED  BY <1>5, <1>6, <2>1 DEF Spread
  <1>11. \A i \in DOMAIN gs : gs[i].base + gs[i].next <= gs[a].base + gs[a].next
    <2> SUFFICES ASSUME NEW i \in DOMAIN gs
                 PROVE  gs[i].base + gs[i].next <= gs[a].base + gs[a].next
      OBVIOUS
    <2>1. CASE i = a
      BY <1>2, <1>4, <1>6, <2>1
    <2>2. CASE i # a
      <3>1. hs[i].base + hs[i].next <= h.base + h.next
        BY <1>6 DEF Spread
      <3>2. /\ gs[i] = hs[i] /\ gs[a] = g /\ g.base = h.base /\ h.next <= g.next
            /\ hs[i].base \in Nat /\ hs[i].next \in Nat /\ g.next \in Nat
            /\ h.base \in Nat /\ h.next \in Nat
        BY <1>2, <1>4, <1>6, <2>2
      <3> QED  BY ONLY <3>1, <3>2
    <2> QED  BY <2>1, <2>2
  <1>12. DiskGrows(d, e)
    <2>1. DiskGrows(d, d)
      BY GrowsReflexive
    <2>2. SegmentGrows(d[h.base], e[h.base])
      BY <1>3, <1>5 DEF GrownBy
    <2> QED  BY <1>5, <2>1, <2>2 DEF DiskGrows
  <1>13. HandlesKept(hs, gs)
    <2> SUFFICES ASSUME NEW i \in DOMAIN hs
                 PROVE  \E j \in DOMAIN gs : gs[j].base = hs[i].base /\ hs[i].next <= gs[j].next
      BY DEF HandlesKept
    <2>1. CASE i = a
      BY <1>4, <1>6, <2>1
    <2>2. CASE i # a
      BY <1>2, <1>6, <2>2
    <2> QED  BY <2>1, <2>2
  <1>14. OnLast(e, gs[a])
    BY <1>4, <1>5, <1>6 DEF OnLast
  <1> QED  BY <1>7, <1>8, <1>9, <1>10, <1>11, <1>12, <1>13, <1>14 DEF Spread

\* Loading forgets how far the old handles were ahead of their files.
LEMMA LoadSpread ==
    ASSUME NEW d, DiskOK(d), DOMAIN d # {}, \A b \in DOMAIN d : RecordsInFile(d[b]),
           DisjointSegments(d), LoadPartition(d)
    PROVE  /\ Spread(d, logs', active')
           /\ \A b \in DOMAIN d : b <= logs'[active'].base
           /\ \A b \in DOMAIN d : \E j \in DOMAIN logs' :
                 logs'[j].base = b /\ logs'[j].next = Count(d[b])
  <1>1. /\ HandlesOK(d, logs', active')
        /\ \A i \in DOMAIN logs' : logs'[i] = LoadLog(d, logs'[i].base)
        /\ \A b \in DOMAIN d : \E i \in DOMAIN logs' : logs'[i].base = b
        /\ \A b \in DOMAIN d : b <= logs'[active'].base
    BY LoadPartitionLoads
  <1> DEFINE hs == logs'
             a == active'
  <1>2. \A i \in DOMAIN hs : hs[i].next = Count(d[hs[i].base]) /\ hs[i].base \in DOMAIN d
    BY <1>1 DEF LoadLog, HandlesOK
  <1>3. a \in DOMAIN hs /\ \A b \in DOMAIN d : b <= hs[a].base
    BY <1>1 DEF HandlesOK
  <1>4. \A b \in DOMAIN d : \E i \in DOMAIN hs : hs[i].base = b
    BY <1>1
  <1> HIDE DEF hs, a
  <1>5. \A b \in DOMAIN d : b \in Nat /\ Count(d[b]) \in Nat
    BY CountType DEF DiskOK
  <1>6. \A i \in DOMAIN hs : \A c \in DOMAIN d : hs[i].base < c => hs[i].base + hs[i].next <= c
    BY <1>2 DEF DisjointSegments
  <1>7. ASSUME NEW i \in DOMAIN hs PROVE hs[i].base + hs[i].next <= hs[a].base + hs[a].next
    <2>1. /\ hs[i].base \in Nat /\ hs[i].next \in Nat /\ hs[a].base \in Nat /\ hs[a].next \in Nat
          /\ hs[i].base <= hs[a].base
      BY <1>2, <1>3, <1>5
    <2>2. CASE hs[i].base = hs[a].base
      BY <1>2, <1>3, <2>1, <2>2
    <2>3. CASE hs[i].base < hs[a].base
      <3>1. hs[i].base + hs[i].next <= hs[a].base
        BY <1>2, <1>3, <1>6, <2>3
      <3> QED  BY <2>1, <3>1
    <2> QED  BY <2>1, <2>2, <2>3
  <1>8. Len(d[hs[a].base].idx) <= 2 * hs[a].next + 1
    <2>1. hs[a].base \in DOMAIN d /\ hs[a].next = Count(d[hs[a].base])
      BY <1>2, <1>3
    <2>2. Len(d[hs[a].base].idx) \in Nat
      BY <2>1, CountType DEF DiskOK
    <2>3. Len(d[hs[a].base].idx) <= 2 * Count(d[hs[a].base]) + 1
      BY ONLY <2>2, HalfOf DEF Count
    <2> QED  BY <2>1, <2>3
  <1>9. Spread(d, hs, a)
    BY <1>6, <1>7, <1>8 DEF Spread
  <1>10. \A b \in DOMAIN d : \E j \in DOMAIN hs : hs[j].base = b /\ hs[j].next = Count(d[b])
    BY <1>2, <1>4
  <1> QED  BY <1>3, <1>9, <1>10 DEF hs, a

\* After a restart every entry is in reach.
LEMMA LoadReaches ==
    ASSUME NEW d, NEW hs, NEW a, DiskOK(d), HandlesOK(d, hs, a),
           NEW e, DiskOK(e), DiskGrows(d, e), NEW gs,
           \A b \in DOMAIN e : \E j \in DOMAIN gs : gs[j].base = b /\ gs[j].next = Count(e[b])
    PROVE  StillReached(d, hs, gs)
  <1> SUFFICES ASSUME NEW i \in DOMAIN hs, NEW o \in Nat, Covers(hs[i], o),
                      o < hs[i].base + Count(d[hs[i].base])
               PROVE  \E j \in DOMAIN gs : gs[j].base = hs[i].base /\ Covers(gs[j], o)
    BY DEF StillReached
  <1> DEFINE b == hs[i].base
  <1>1. b \in DOMAIN d /\ b \in DOMAIN e /\ b \in Nat /\ b <= o
    BY DEF HandlesOK, DiskOK, DiskGrows, Covers
  <1>2. Count(d[b]) \in Nat /\ Count(e[b]) \in Nat /\ Count(d[b]) <= Count(e[b])
    BY <1>1, CountType DEF DiskOK, DiskGrows, SegmentGrows
  <1>3. PICK j \in DOMAIN gs : gs[j].base = b /\ gs[j].next = Count(e[b])
    BY <1>1
  <1>4. o < b + Count(d[b])
    OBVIOUS
  <1> HIDE DEF b
  <1>5. Covers(gs[j], o)
    BY <1>1, <1>2, <1>3, <1>4 DEF Covers
  <1> QED  BY <1>3, <1>5 DEF b

\* Files and handles with nothing past the active segment satisfy LayoutInv.
LEMMA SpreadGivesLayout ==
    ASSUME TypeOK', Spread(disk', logs', active'), \A b \in DOMAIN disk' : b <= logs'[active'].base
    PROVE  LayoutInv'
  <1>1. DOMAIN disk' \subseteq Nat /\ logs'[active'].base \in DOMAIN disk'
    BY DEF TypeOK, DiskOK, HandlesOK
  <1>2. \A b \in DOMAIN disk' : ~(b > logs'[active'].base)
    BY <1>1
  <1> QED  BY <1>2 DEF LayoutInv, OnlyRolledPast

\* What one step does to files and handles, whatever fails in it.
LEMMA LayoutStep ==
    ASSUME TypeOK, LayoutInv, [Next]_vars
    PROVE  LayoutInv' /\ DiskGrows(disk, disk') /\ StillReached(disk, logs, logs')
  <1>0. TypeOK'
    BY TypeInductive
  <1> DEFINE d == Rolled.disk
             hs == Rolled.logs
             a == Rolled.active
             h == hs[a]
  <1>1. /\ DiskOK(d) /\ HandlesOK(d, hs, a) /\ h = Target /\ h = hs[a]
        /\ DiskOK(disk) /\ HandlesOK(disk, logs, active)
    BY RolledType DEF Target, TypeOK
  <1>2. /\ Spread(d, hs, a) /\ \A b \in DOMAIN d : b <= h.base
        /\ DiskGrows(disk, d) /\ HandlesKept(logs, hs)
    BY <1>1, RolledSpread
  <1>3. \A len \in Lengths : NewMessage(len) \in Message
    BY DEF NewMessage, Message, TypeOK
  <1>4. \A m, w : DiskAfter(m, Target.next, w) =
                     [d EXCEPT ![h.base] = Written(d[h.base], h, m, h.next, w)]
    BY <1>1 DEF DiskAfter
  <1>5. \A m, w : LogsAfter(m, Target.next + 1, w) =
                     [hs EXCEPT ![a] = Advanced(h, m, h.next + 1, w)]
    BY <1>1 DEF LogsAfter
  <1> HIDE DEF d, hs, a, h
  <1>6. ASSUME NEW m \in Message, NEW w \in 0..4
        PROVE  LET e == DiskAfter(m, Target.next, w)
                   gs == LogsAfter(m, Target.next + 1, w)
               IN  /\ Spread(e, gs, a)
                   /\ \A b \in DOMAIN e : b <= gs[a].base
                   /\ DiskGrows(d, e) /\ HandlesKept(hs, gs)
    <2> DEFINE e == DiskAfter(m, Target.next, w)
               gs == LogsAfter(m, Target.next + 1, w)
    <2>1. /\ e = [d EXCEPT ![h.base] = Written(d[h.base], h, m, h.next, w)]
          /\ gs = [hs EXCEPT ![a] = Advanced(h, m, h.next + 1, w)]
      BY <1>4, <1>5
    <2> HIDE DEF e, gs
    <2>2. OnLast(d, h)
      BY <1>2 DEF OnLast
    <2>3. h.next \in Nat /\ h.next <= h.next /\ Len(d[h.base].idx) <= 2 * h.next + 1
      <3>1. h \in Handle
        BY <1>1 DEF HandlesOK
      <3>2. h.next \in Nat /\ h.next <= h.next
        BY <3>1 DEF Handle
      <3>3. Len(d[h.base].idx) <= 2 * h.next + 1
        BY <1>1, <1>2 DEF Spread
      <3> QED  BY <3>2, <3>3
    <2>4. Spread(e, gs, a) /\ OnLast(e, gs[a]) /\ DiskGrows(d, e) /\ HandlesKept(hs, gs)
      BY ONLY <1>1, <1>2, <1>6, <2>1, <2>2, <2>3, WriteSpread
    <2> QED  BY <2>4 DEF e, gs, OnLast
  <1>7. ASSUME NEW m \in Message, NEW w \in 0..4, disk' = DiskAfter(m, Target.next, w)
        PROVE  DiskGrows(disk, disk')
    <2>1. DiskGrows(d, disk')
      BY <1>6, <1>7
    <2>2. DiskOK(disk')
      BY <1>0 DEF TypeOK
    <2> QED  BY <1>1, <1>2, <2>1, <2>2, GrowsTransitive
  <1>8. ASSUME NEW m \in Message, NEW w \in 0..4,
               disk' = DiskAfter(m, Target.next, w), logs' = LogsAfter(m, Target.next + 1, w),
               active' = Rolled.active
        PROVE  LayoutInv' /\ DiskGrows(disk, disk') /\ StillReached(disk, logs, logs')
    <2>1. /\ Spread(disk', logs', active') /\ HandlesKept(hs, logs')
          /\ \A b \in DOMAIN disk' : b <= logs'[active'].base
      BY <1>6, <1>8 DEF a
    <2>2. LayoutInv'
      BY <1>0, <2>1, SpreadGivesLayout
    <2>3. logs \in Seq(Handle) /\ hs \in Seq(Handle) /\ logs' \in Seq(Handle)
      BY <1>0, <1>1 DEF HandlesOK, TypeOK
    <2>4. HandlesKept(logs, logs')
      <3> SUFFICES ASSUME NEW i \in DOMAIN logs
                   PROVE  \E k \in DOMAIN logs' :
                             logs'[k].base = logs[i].base /\ logs[i].next <= logs'[k].next
        BY DEF HandlesKept
      <3>1. PICK j \in DOMAIN hs : hs[j].base = logs[i].base /\ logs[i].next <= hs[j].next
        BY <1>2 DEF HandlesKept
      <3>2. PICK k \in DOMAIN logs' : logs'[k].base = hs[j].base /\ hs[j].next <= logs'[k].next
        BY <2>1 DEF HandlesKept
      <3>3. logs[i] \in Handle /\ hs[j] \in Handle /\ logs'[k] \in Handle
        BY <2>3
      <3>4. logs[i].next <= logs'[k].next
        BY <3>1, <3>2, <3>3 DEF Handle
      <3> QED  BY <3>1, <3>2, <3>4
    <2>5. StillReached(disk, logs, logs')
      BY <2>3, <2>4, KeptIsReached
    <2> QED  BY <1>7, <1>8, <2>2, <2>5
  <1>9. ASSUME NEW e, e = disk', LoadPartition(e), DiskGrows(disk, e),
               \A b \in DOMAIN e : RecordsInFile(e[b]), DisjointSegments(e)
        PROVE  LayoutInv' /\ DiskGrows(disk, disk') /\ StillReached(disk, logs, logs')
    <2>1. DiskOK(e) /\ DOMAIN e # {}
      BY <1>0, <1>9 DEF TypeOK, HandlesOK
    <2>2. /\ Spread(e, logs', active')
          /\ \A b \in DOMAIN e : b <= logs'[active'].base
          /\ \A b \in DOMAIN e : \E j \in DOMAIN logs' :
                 logs'[j].base = b /\ logs'[j].next = Count(e[b])
      BY <1>9, <2>1, LoadSpread
    <2>3. LayoutInv'
      BY <1>0, <1>9, <2>2, SpreadGivesLayout
    <2>4. StillReached(disk, logs, logs')
      BY <1>1, <1>9, <2>1, <2>2, LoadReaches
    <2> QED  BY <1>9, <2>3, <2>4
  <1>10. ASSUME NEW len \in Lengths, AppendMsg(NewMessage(len))
         PROVE  LayoutInv' /\ DiskGrows(disk, disk') /\ StillReached(disk, logs, logs')
    BY <1>3, <1>8, <1>10 DEF AppendMsg
  <1>11. ASSUME NEW len \in Lengths, NEW w \in FailPoints, AppendFails(NewMessage(len), w)
         PROVE  LayoutInv' /\ DiskGrows(disk, disk') /\ StillReached(disk, logs, logs')
    <2>1. w \in 0..4
      BY PartitionAssumption
    <2> QED  BY <1>3, <1>8, <1>11, <2>1 DEF AppendFails
  <1>12. ASSUME NEW len \in Lengths, NEW w \in CrashPoints, AppendCrash(NewMessage(len), w)
         PROVE  LayoutInv' /\ DiskGrows(disk, disk') /\ StillReached(disk, logs, logs')
    <2> DEFINE m == NewMessage(len)
    <2>1. w \in 0..4 /\ m \in Message
      BY <1>3, PartitionAssumption
    <2>2. disk' = DiskAfter(m, Target.next, w) /\ LoadPartition(disk')
      BY <1>12 DEF AppendCrash
    <2> HIDE DEF m
    <2>3. (\A b \in DOMAIN disk' : RecordsInFile(disk'[b])) /\ DisjointSegments(disk')
      BY <1>6, <2>1, <2>2 DEF Spread
    <2>4. DiskGrows(disk, disk')
      BY <1>7, <2>1, <2>2
    <2> QED  BY <1>9, <2>2, <2>3, <2>4
  <1>13. CASE RolloverFails
    <2>1. /\ logs' = logs /\ active' = active /\ maxSize' = maxSize /\ ShouldRoll
          /\ disk' = disk \/ disk' = Created(disk, RollBase)
      BY <1>13 DEF RolloverFails
    <2>2. HandlesKept(logs, logs')
      <3>1. \A i \in DOMAIN logs : logs[i].next \in Nat
        <4>1. \A i \in DOMAIN logs : logs[i] \in Handle
          BY <1>1 DEF HandlesOK
        <4> QED  BY <4>1 DEF Handle
      <3> QED  BY <2>1, <3>1 DEF HandlesKept
    <2>3. StillReached(disk, logs, logs')
      BY <1>1, <2>1, <2>2, KeptIsReached DEF HandlesOK
    <2>4. CASE disk' = disk
      <3>1. LayoutInv'
        BY <2>1, <2>4 DEF LayoutInv, OnlyRolledPast, RollBase, ShouldRoll
      <3>2. DiskGrows(disk, disk')
        BY <1>1, <2>4, GrowsReflexive
      <3> QED  BY <2>3, <3>1, <3>2
    <2>5. CASE disk' = Created(disk, RollBase)
      <3>1. disk' = d
        BY <2>1, <2>5 DEF Rolled, d
      <3>2. /\ DOMAIN disk' = DOMAIN disk \cup {RollBase}
            /\ \A b \in DOMAIN disk : disk'[b] = disk[b]
            /\ RollBase \notin DOMAIN disk => disk'[RollBase] = EmptySegment
        BY <1>1, <2>5, CreatedType, RollBaseType
      <3>3. logs[active].base \in DOMAIN disk /\ \A i \in DOMAIN logs : logs[i].base \in DOMAIN disk
        BY <1>1 DEF HandlesOK
      <3>4. Spread(disk, logs, active) /\ OnlyRolledPast
        BY DEF LayoutInv
      <3>5. /\ \A b \in DOMAIN disk' : RecordsInFile(disk'[b])
            /\ DisjointSegments(disk')
        BY <1>2, <3>1 DEF Spread
      <3>6. Len(disk'[logs[active].base].idx) <= 2 * logs[active].next + 1
        BY <3>2, <3>3, <3>4 DEF Spread
      <3>7. \A i \in DOMAIN logs : \A c \in DOMAIN disk' :
               logs[i].base < c => logs[i].base + logs[i].next <= c
        <4> SUFFICES ASSUME NEW i \in DOMAIN logs, NEW c \in DOMAIN disk', logs[i].base < c
                     PROVE  logs[i].base + logs[i].next <= c
          OBVIOUS
        <4>1. CASE c \in DOMAIN disk
          BY <3>4, <4>1 DEF Spread
        <4>2. CASE c = RollBase
          BY <3>4, <4>2 DEF Spread, RollBase
        <4> QED  BY <3>2, <4>1, <4>2
      <3>8. Spread(disk', logs', active')
        BY <2>1, <3>4, <3>5, <3>6, <3>7 DEF Spread
      <3>9. \A b \in DOMAIN disk' : b > logs[active].base =>
                b = RollBase /\ Count(disk'[b]) = 0 /\ ShouldRoll
        BY <2>1, <3>2, <3>4, EmptySegmentType DEF OnlyRolledPast
      <3>10. OnlyRolledPast'
        <4>1. RollBase' = RollBase /\ ShouldRoll' = ShouldRoll
          BY <2>1 DEF RollBase, ShouldRoll
        <4> QED  BY <2>1, <3>9, <4>1 DEF OnlyRolledPast
      <3> QED  BY <1>2, <2>3, <3>1, <3>8, <3>10 DEF LayoutInv
    <2> QED  BY <2>1, <2>4, <2>5
  <1>14. CASE Restart
    <2>1. disk' = disk /\ LoadPartition(disk)
      BY <1>14 DEF Restart
    <2>2. (\A b \in DOMAIN disk : RecordsInFile(disk[b])) /\ DisjointSegments(disk)
      BY DEF LayoutInv, Spread
    <2>3. DiskGrows(disk, disk)
      BY <1>1, GrowsReflexive
    <2> QED  BY <1>9, <2>1, <2>2, <2>3
  <1>15. CASE UNCHANGED vars
    <2>1. disk' = disk /\ logs' = logs /\ active' = active /\ maxSize' = maxSize
      BY <1>15 DEF vars
    <2>2. LayoutInv'
      BY <2>1 DEF LayoutInv, OnlyRolledPast, RollBase, ShouldRoll
    <2>3. DiskGrows(disk, disk')
      BY <1>1, <2>1, GrowsReflexive
    <2>4. StillReached(disk, logs, logs')
      BY <2>1 DEF StillReached
    <2> QED  BY <2>2, <2>3, <2>4
  <1> QED  BY <1>10, <1>11, <1>12, <1>13, <1>14, <1>15 DEF Next

\* A new partition is laid out that way.
LEMMA InitLayout == Init => LayoutInv
  <1> SUFFICES ASSUME Init PROVE LayoutInv
    OBVIOUS
  <1>1. /\ DOMAIN disk = {0} /\ disk[0] = EmptySegment
        /\ logs = <<[base |-> 0, size |-> 0, next |-> 0]>> /\ active = 1
        /\ DOMAIN logs = {1} /\ logs[1].base = 0 /\ logs[1].next = 0
    BY DEF Init
  <1>2. Count(EmptySegment) = 0 /\ RecordsInFile(EmptySegment) /\ Len(EmptySegment.idx) = 0
    BY EmptySegmentType DEF EmptySegment, RecordsInFile
  <1> QED  BY <1>1, <1>2 DEF LayoutInv, Spread, DisjointSegments, OnlyRolledPast
=============================================================================
