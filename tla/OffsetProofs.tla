---------------------------- MODULE OffsetProofs ----------------------------
(***************************************************************************)
(* Machine-checked proofs about OffsetManager, for every set of committers *)
(* and keys, any offsets committed in any order, and any bound on the      *)
(* number of commits.  The log of the offsets is a partition, so what      *)
(* PartitionProofs shows of a partition is used as it is: the state is     *)
(* well formed in all behaviours, and as long as only the first segment of *)
(* the log has entries and its faults are clean, the map survives every    *)
(* failed commit and every crash, and implements OffsetStore.              *)
(***************************************************************************)
EXTENDS OffsetManager, PartitionProofs, WellFoundedInduction

----------------------------------------------------------------------------
(* The offset manager writes its log as a partition is written.            *)

LEMMA LogIsPartition == OffsetSpec => Spec
  <1>1. OffsetInit => Init
    BY DEF OffsetInit
  <1>2. [OffsetNext]_<<vars, offsetVars>> => [Next]_vars
    <2> SUFFICES ASSUME OffsetNext PROVE [Next]_vars
      OBVIOUS
    <2>1. CASE \E c \in Committers : UpdateOffset(c)
      BY <2>1 DEF UpdateOffset
    <2>2. CASE \E c \in Committers : PersistToLog(c)
      BY <2>2 DEF PersistToLog, Next
    <2>3. CASE \E c \in Committers : PersistToLogFails(c)
      BY <2>3 DEF PersistToLogFails, Next
    <2>4. CASE \E c \in Committers : PersistToLogCrash(c)
      BY <2>4 DEF PersistToLogCrash, Next
    <2>5. CASE RestartBroker
      BY <2>5 DEF RestartBroker, Next
    <2> QED  BY <2>1, <2>2, <2>3, <2>4, <2>5 DEF OffsetNext
  <1> QED  BY <1>1, <1>2, PTL DEF OffsetSpec, Spec

----------------------------------------------------------------------------
(* Types.                                                                  *)

LogEntry == [key : Keys, offset : 0..MaxOffset]

\* The messages in the files are messages that were handed to the log.
KnownIn(d, n) ==
    \A b \in DOMAIN d : \A p \in DOMAIN d[b].recs : d[b].recs[p].id \in 1..n

\* What a segment returns is one of its records.
LEMMA FoundKnown ==
    ASSUME NEW d, NEW n, KnownIn(d, n), NEW b \in DOMAIN d, NEW o, NEW m \in LogReadAt(d[b], o)
    PROVE  m.id \in 1..n
  <1>1. PICK pos : m \in ReadAtByte(d[b], pos)
    BY DEF LogReadAt
  <1>2. pos \in DOMAIN d[b].recs /\ m = d[b].recs[pos]
    BY <1>1 DEF ReadAtByte
  <1> QED  BY <1>2 DEF KnownIn

\* A set of numbers that is bounded and not empty has a largest one.
LEMMA LastExists ==
    ASSUME NEW N \in Nat, NEW S, S \subseteq 0..N, S # {}
    PROVE  \E m \in S : \A x \in S : x <= m
  <1> DEFINE T == {d \in Nat : N - d \in S}
             R == OpToRel(<, Nat)
  <1>1. IsWellFoundedOn(R, Nat)
    BY NatLessThanWellFounded
  <1>2. T \subseteq Nat /\ T # {}
    <2>1. PICK x \in S : TRUE
      OBVIOUS
    <2>2. N - x \in Nat /\ N - (N - x) = x
      BY <2>1
    <2> QED  BY <2>1, <2>2
  <1>3. PICK d \in T : \A e \in T : <<e, d>> \notin R
    <2> HIDE DEF T, R
    <2> QED  BY <1>1, <1>2, WFMin
  <1>4. \A e \in T : ~(e < d)
    <2>1. \A e \in T : e \in Nat /\ d \in Nat
      BY <1>3
    <2> QED  BY <1>3, <2>1 DEF OpToRel
  <1>5. N - d \in S
    BY <1>3
  <1>6. ASSUME NEW x \in S PROVE x <= N - d
    <2>1. x \in 0..N /\ N - x \in Nat /\ N - (N - x) = x
      OBVIOUS
    <2>2. N - x \in T
      BY <2>1
    <2>3. ~(N - x < d) /\ d \in Nat
      BY <1>3, <1>4, <2>2
    <2> HIDE DEF T
    <2> QED  BY <2>1, <2>3
  <1> QED  BY <1>5, <1>6

\* A place that restore visits: the segment is there, and it returns a message
\* at the offset.
LEMMA ReplayedPlace ==
    ASSUME NEW d, DiskOK(d), NEW es, NEW k, NEW p \in Replayed(d, es, k)
    PROVE  /\ p[1] \in DOMAIN d /\ p[1] \in Nat
           /\ p[2] \in Nat /\ p[2] < Count(d[p[1]])
           /\ LogReadAt(d[p[1]], p[2]) # {}
           /\ p = <<p[1], p[2]>>
           /\ EntryAt(d, es, p).key = k
  <1>1. EntryAt(d, es, p).key = k /\ \E b \in DOMAIN d : p \in {b} \X Visited(d, b)
    BY DEF Replayed
  <1>2. PICK b \in DOMAIN d : p \in {b} \X Visited(d, b)
    BY <1>1
  <1>3. p[1] = b /\ p[2] \in Visited(d, b) /\ p = <<p[1], p[2]>>
    BY <1>2
  <1>4. b \in Nat /\ Count(d[b]) \in Nat
    BY CountType DEF DiskOK
  <1>5. /\ p[2] \in b..(Count(d[b]) - 1)
        /\ \A n \in b..p[2] : LogReadAt(d[b], n) # {}
    BY <1>3 DEF Visited, LoadLog
  <1>6. p[2] \in Nat /\ p[2] < Count(d[b]) /\ p[2] \in b..p[2]
    BY <1>4, <1>5
  <1> QED  BY <1>1, <1>3, <1>4, <1>5, <1>6

\* restore visits places in one order, and of those for a key one comes last.
LEMMA ReplayEnds ==
    ASSUME NEW d, DiskOK(d), NEW N \in Nat, \A b \in DOMAIN d : b <= N, NEW es, NEW k,
           Replayed(d, es, k) # {}
    PROVE  \E p \in Replayed(d, es, k) : \A q \in Replayed(d, es, k) : ReplayOrder(q, p)
  <1> DEFINE R == Replayed(d, es, k)
             B == {p[1] : p \in R}
  <1>1. \A p \in R : /\ p[1] \in DOMAIN d /\ p[1] \in Nat /\ p[2] \in Nat
                     /\ p[2] < Count(d[p[1]])
    BY ReplayedPlace
  <1> HIDE DEF R
  <1>2. B \subseteq 0..N /\ B # {}
    BY <1>1 DEF R
  <1>3. PICK b \in B : \A x \in B : x <= b
    <2> HIDE DEF B
    <2> QED  BY <1>2, LastExists
  <1> DEFINE O == {p[2] : p \in {q \in R : q[1] = b}}
  <1>4. b \in DOMAIN d /\ Count(d[b]) \in Nat
    BY <1>1, <1>3, CountType DEF DiskOK
  <1>5. O \subseteq 0..Count(d[b]) /\ O # {}
    BY <1>1, <1>3, <1>4
  <1>6. PICK o \in O : \A x \in O : x <= o
    <2> HIDE DEF O, B
    <2> QED  BY <1>4, <1>5, LastExists
  <1>7. PICK p \in R : p[1] = b /\ p[2] = o
    BY <1>6
  <1>8. ASSUME NEW q \in R PROVE ReplayOrder(q, p)
    <2>1. q[1] <= b /\ q[1] \in Nat /\ b \in Nat
      BY <1>1, <1>3
    <2>2. q[1] = b => q[2] <= o
      BY <1>6
    <2> HIDE DEF B, O
    <2> QED  BY <1>7, <2>1, <2>2 DEF ReplayOrder
  <1> QED  BY <1>7, <1>8 DEF R

\* restore brings up offsets that were committed.
LEMMA RestoredType ==
    ASSUME NEW d, DiskOK(d), NEW N \in Nat, \A b \in DOMAIN d : b <= N,
           NEW es \in Seq(LogEntry), KnownIn(d, Len(es)), NEW k
    PROVE  Restored(d, es, k) \in NoOffset..MaxOffset
  <1> DEFINE R == Replayed(d, es, k)
             last == CHOOSE p \in R : \A q \in R : ReplayOrder(q, p)
  <1>1. CASE R = {}
    BY <1>1, OffsetAssumption DEF Restored, NoOffset
  <1>2. CASE R # {}
    <2>1. last \in R
      BY <1>2, ReplayEnds
    <2>2. Restored(d, es, k) = EntryAt(d, es, last).offset
      BY <1>2 DEF Restored
    <2> HIDE DEF last
    <2> DEFINE S == LogReadAt(d[last[1]], last[2])
               m == CHOOSE x \in S : TRUE
    <2>3. last[1] \in DOMAIN d /\ S # {}
      BY <2>1, ReplayedPlace
    <2>4. m \in S
      BY <2>3
    <2>5. m.id \in 1..Len(es)
      BY <2>3, <2>4, FoundKnown
    <2>6. EntryAt(d, es, last) = es[m.id]
      BY DEF EntryAt
    <2> HIDE DEF m
    <2>7. es[m.id] \in LogEntry
      BY <2>5
    <2> QED  BY <2>2, <2>6, <2>7, OffsetAssumption DEF LogEntry, NoOffset
  <1> QED  BY <1>1, <1>2

\* Any number of the writes of an append leaves known messages in the files.
LEMMA WriteKnown ==
    ASSUME TypeOK, NEW n \in Nat, KnownIn(disk, n),
           NEW m \in Message, m.id = n + 1, NEW o \in Nat, NEW w \in 0..4
    PROVE  KnownIn(DiskAfter(m, o, w), n + 1)
  <1> DEFINE d == Rolled.disk
             h == Target
             new == Written(d[h.base], h, m, o, w)
             e == DiskAfter(m, o, w)
  <1>1. h.base \in DOMAIN d
    BY RolledType
  <1>2. KnownIn(d, n)
    <2>1. DiskOK(disk) /\ RollBase \in Nat
      BY RollBaseType DEF TypeOK
    <2>2. KnownIn(Created(disk, RollBase), n)
      <3> DEFINE c == Created(disk, RollBase)
      <3>1. /\ DOMAIN c = DOMAIN disk \cup {RollBase}
            /\ \A b \in DOMAIN disk : c[b] = disk[b]
            /\ RollBase \notin DOMAIN disk => c[RollBase] = EmptySegment
        BY <2>1, CreatedType
      <3>2. DOMAIN EmptySegment.recs = {}
        BY DEF EmptySegment
      <3> HIDE DEF c
      <3>3. KnownIn(c, n)
        BY <3>1, <3>2 DEF KnownIn
      <3> QED  BY <3>3 DEF c
    <2> QED  BY <2>2 DEF Rolled
  <1>3. e = [d EXCEPT ![h.base] = new]
    BY DEF DiskAfter
  <1>4. \A p \in DOMAIN new.recs : new.recs[p] = m \/ (p \in DOMAIN d[h.base].recs
                                                      /\ new.recs[p] = d[h.base].recs[p])
    BY DEF Written
  <1> HIDE DEF d, h, new, e
  <1>5. DOMAIN e = DOMAIN d /\ e[h.base] = new /\ \A b \in DOMAIN d : b # h.base => e[b] = d[b]
    BY <1>1, <1>3
  <1>6. \A i \in 1..n : i \in 1..(n + 1)
    OBVIOUS
  <1>7. n + 1 \in 1..(n + 1)
    OBVIOUS
  <1>8. ASSUME NEW b \in DOMAIN e, NEW p \in DOMAIN e[b].recs PROVE e[b].recs[p].id \in 1..(n + 1)
    <2>1. CASE b = h.base
      BY <1>1, <1>2, <1>4, <1>5, <1>6, <1>7, <1>8, <2>1 DEF KnownIn
    <2>2. CASE b # h.base
      BY <1>2, <1>5, <1>6, <1>8, <2>2 DEF KnownIn
    <2> QED  BY <2>1, <2>2
  <1>9. KnownIn(e, n + 1)
    BY <1>8 DEF KnownIn
  <1> QED  BY <1>9 DEF e

\* A failed rollover leaves known messages, too.
LEMMA CreatedKnown ==
    ASSUME TypeOK, NEW n \in Nat, KnownIn(disk, n)
    PROVE  KnownIn(disk, n + 1) /\ KnownIn(Created(disk, RollBase), n + 1)
  <1> DEFINE c == Created(disk, RollBase)
  <1>1. /\ DOMAIN c = DOMAIN disk \cup {RollBase}
        /\ \A b \in DOMAIN disk : c[b] = disk[b]
        /\ RollBase \notin DOMAIN disk => c[RollBase] = EmptySegment
    BY RollBaseType, CreatedType DEF TypeOK
  <1>2. DOMAIN EmptySegment.recs = {}
    BY DEF EmptySegment
  <1>3. \A i \in 1..n : i \in 1..(n + 1)
    OBVIOUS
  <1> HIDE DEF c
  <1>4. KnownIn(disk, n + 1) /\ KnownIn(c, n + 1)
    BY <1>1, <1>2, <1>3 DEF KnownIn
  <1> QED  BY <1>4 DEF c

OffsetTypeInv == OffsetTypeOK /\ KnownIn(disk, Len(entries))

\* The message of a commit gets its entry.
LEMMA EncodeType ==
    ASSUME OffsetTypeOK, NEW c \in Committers, Encode(c)
    PROVE  /\ KeyOf[c] \in Keys /\ pending[c] \in 0..MaxOffset
           /\ entries' \in Seq(LogEntry) /\ Len(entries') = Len(entries) + 1
           /\ entries \in Seq(LogEntry) /\ Len(entries) \in Nat
           /\ entries' = Append(entries, [key |-> KeyOf[c], offset |-> pending[c]])
  <1>1. KeyOf[c] \in Keys
    BY OffsetAssumption
  <1>2. pending[c] \in 0..MaxOffset
    <2>1. pending[c] \in NoOffset..MaxOffset /\ pending[c] # NoOffset
      BY DEF OffsetTypeOK, Encode
    <2> QED  BY <2>1, OffsetAssumption DEF NoOffset
  <1>3. entries \in Seq(LogEntry) /\ [key |-> KeyOf[c], offset |-> pending[c]] \in LogEntry
    BY <1>1, <1>2 DEF OffsetTypeOK, LogEntry
  <1>4. entries' = Append(entries, [key |-> KeyOf[c], offset |-> pending[c]])
    BY DEF Encode
  <1> QED  BY <1>1, <1>2, <1>3, <1>4

\* The map that a restart builds.
LEMMA RestoreType ==
    ASSUME TypeOK', KnownIn(disk', Len(entries')), entries' \in Seq(LogEntry),
           \A b \in DOMAIN disk' : b <= logs'[active'].base, Restore
    PROVE  /\ offsets' \in [Keys -> NoOffset..MaxOffset]
           /\ pending' \in [Committers -> NoOffset..MaxOffset]
           /\ dirty' \subseteq Keys
  <1>1. DiskOK(disk') /\ logs'[active'].base \in Nat
    BY DEF TypeOK, HandlesOK, DiskOK
  <1>2. \A k \in Keys : Restored(disk', entries', k) \in NoOffset..MaxOffset
    BY <1>1, RestoredType
  <1>3. NoOffset \in NoOffset..MaxOffset
    BY OffsetAssumption DEF NoOffset
  <1> QED  BY <1>2, <1>3 DEF Restore

LEMMA OffsetTypeInductive ==
    ASSUME TypeOK, TypeOK', OffsetTypeInv, [OffsetNext]_<<vars, offsetVars>>
    PROVE  OffsetTypeInv'
  <1>0. /\ OffsetTypeOK /\ KnownIn(disk, Len(entries)) /\ Len(entries) = attempts
        /\ attempts \in Nat /\ NoOffset \in NoOffset..MaxOffset
        /\ \A o \in 0..MaxOffset : o \in NoOffset..MaxOffset
        /\ entries \in Seq(LogEntry)
    BY PartitionAssumption, OffsetAssumption
       DEF OffsetTypeInv, OffsetTypeOK, TypeOK, NoOffset, LogEntry
  <1>1. \A len \in Lengths : /\ NewMessage(len) \in Message
                             /\ NewMessage(len).id = Len(entries) + 1
    BY <1>0 DEF NewMessage, Message
  <1>2. Target.next \in Nat
    BY RolledType DEF Handle
  <1>3. ASSUME NEW c \in Committers, Encode(c), Attempt, KnownIn(disk', Len(entries) + 1),
               offsets' \in [Keys -> NoOffset..MaxOffset],
               pending' \in [Committers -> NoOffset..MaxOffset],
               safe' \in [Keys -> NoOffset..MaxOffset], dirty' \subseteq Keys
        PROVE  OffsetTypeInv'
    <2>1. entries' \in Seq(LogEntry) /\ Len(entries') = Len(entries) + 1
      BY <1>0, <1>3, EncodeType
    <2>2. attempts' = attempts + 1
      BY <1>3 DEF Attempt
    <2> QED  BY <1>0, <1>3, <2>1, <2>2 DEF OffsetTypeInv, OffsetTypeOK, LogEntry
  <1>4. ASSUME NEW c \in Committers, Encode(c)
        PROVE  /\ Logged(c) \in [Keys -> NoOffset..MaxOffset]
               /\ [pending EXCEPT ![c] = NoOffset] \in [Committers -> NoOffset..MaxOffset]
               /\ KeyOf[c] \in Keys
    BY <1>0, <1>4, EncodeType DEF Logged, OffsetTypeOK
  <1>5. ASSUME NEW c \in Committers, UpdateOffset(c) PROVE OffsetTypeInv'
    <2>1. PICK o \in 0..MaxOffset : /\ offsets' = [offsets EXCEPT ![KeyOf[c]] = o]
                                    /\ pending' = [pending EXCEPT ![c] = o]
      BY <1>5 DEF UpdateOffset
    <2>2. UNCHANGED <<disk, attempts, entries, safe, dirty>>
      BY <1>5 DEF UpdateOffset, vars
    <2> QED  BY <1>0, <2>1, <2>2, OffsetAssumption DEF OffsetTypeInv, OffsetTypeOK
  <1>6. ASSUME NEW c \in Committers, PersistToLog(c) PROVE OffsetTypeInv'
    <2>1. PICK len \in Lengths : AppendMsg(NewMessage(len))
      BY <1>6 DEF PersistToLog
    <2>2. Attempt /\ disk' = DiskAfter(NewMessage(len), Target.next, 4)
      BY <2>1 DEF AppendMsg
    <2>3. KnownIn(disk', Len(entries) + 1)
      BY <1>0, <1>1, <1>2, <2>2, WriteKnown
    <2> QED  BY <1>0, <1>3, <1>4, <1>6, <2>2, <2>3 DEF PersistToLog, OffsetTypeOK
  <1>7. ASSUME NEW c \in Committers, PersistToLogFails(c) PROVE OffsetTypeInv'
    <2>1. Attempt /\ KnownIn(disk', Len(entries) + 1)
      <3>1. CASE RolloverFails
        BY <1>0, <3>1, CreatedKnown DEF RolloverFails
      <3>2. ASSUME NEW len \in Lengths, NEW w \in FailPoints, AppendFails(NewMessage(len), w)
            PROVE  Attempt /\ KnownIn(disk', Len(entries) + 1)
        <4>1. Attempt /\ disk' = DiskAfter(NewMessage(len), Target.next, w) /\ w \in 0..4
          BY <3>2, PartitionAssumption DEF AppendFails
        <4> QED  BY <1>0, <1>1, <1>2, <4>1, WriteKnown
      <3> QED  BY <1>7, <3>1, <3>2 DEF PersistToLogFails
    <2> QED  BY <1>0, <1>3, <1>4, <1>7, <2>1 DEF PersistToLogFails, OffsetTypeOK
  <1>8. ASSUME NEW c \in Committers, PersistToLogCrash(c) PROVE OffsetTypeInv'
    <2>1. PICK len \in Lengths, w \in CrashPoints :
             /\ AppendCrash(NewMessage(len), w)
             /\ safe' = IF w = 4 THEN Logged(c) ELSE safe
      BY <1>8 DEF PersistToLogCrash
    <2>2. /\ Attempt /\ disk' = DiskAfter(NewMessage(len), Target.next, w) /\ w \in 0..4
          /\ LoadPartition(disk')
      BY <2>1, PartitionAssumption DEF AppendCrash
    <2>3. KnownIn(disk', Len(entries) + 1)
      BY <1>0, <1>1, <1>2, <2>2, WriteKnown
    <2>4. Encode(c) /\ Restore
      BY <1>8 DEF PersistToLogCrash
    <2>5. \A b \in DOMAIN disk' : b <= logs'[active'].base
      BY <2>2, LoadPartitionLoads DEF TypeOK, HandlesOK
    <2>6. entries' \in Seq(LogEntry) /\ Len(entries') = Len(entries) + 1
      BY <1>0, <2>4, EncodeType
    <2>7. /\ offsets' \in [Keys -> NoOffset..MaxOffset]
          /\ pending' \in [Committers -> NoOffset..MaxOffset]
          /\ dirty' \subseteq Keys
      BY <2>3, <2>4, <2>5, <2>6, RestoreType
    <2>8. safe' \in [Keys -> NoOffset..MaxOffset]
      BY <1>0, <1>4, <2>1, <2>4 DEF OffsetTypeOK
    <2> QED  BY <1>3, <2>2, <2>3, <2>4, <2>7, <2>8
  <1>9. CASE RestartBroker
    <2>1. /\ disk' = disk /\ attempts' = attempts /\ LoadPartition(disk')
          /\ entries' = entries /\ safe' = safe /\ Restore
      BY <1>9 DEF RestartBroker, Restart
    <2>2. \A b \in DOMAIN disk' : b <= logs'[active'].base
      BY <2>1, LoadPartitionLoads DEF TypeOK, HandlesOK
    <2>3. /\ offsets' \in [Keys -> NoOffset..MaxOffset]
          /\ pending' \in [Committers -> NoOffset..MaxOffset]
          /\ dirty' \subseteq Keys
      BY <1>0, <2>1, <2>2, RestoreType
    <2> QED  BY <1>0, <2>1, <2>3 DEF OffsetTypeInv, OffsetTypeOK
  <1>10. CASE UNCHANGED <<vars, offsetVars>>
    BY <1>0, <1>10 DEF vars, offsetVars, OffsetTypeInv, OffsetTypeOK
  <1> QED  BY <1>5, <1>6, <1>7, <1>8, <1>9, <1>10 DEF OffsetNext

LEMMA OffsetTypeInit == OffsetInit => OffsetTypeInv
  <1> SUFFICES ASSUME OffsetInit PROVE OffsetTypeInv
    OBVIOUS
  <1>1. /\ DOMAIN disk = {0} /\ disk[0] = EmptySegment /\ attempts = 0 /\ entries = <<>>
        /\ offsets = [k \in Keys |-> NoOffset] /\ safe = [k \in Keys |-> NoOffset]
        /\ pending = [c \in Committers |-> NoOffset] /\ dirty = {}
    BY DEF OffsetInit, Init
  <1>2. NoOffset \in NoOffset..MaxOffset
    BY OffsetAssumption DEF NoOffset
  <1>3. DOMAIN EmptySegment.recs = {}
    BY DEF EmptySegment
  <1>4. KnownIn(disk, Len(entries))
    BY <1>1, <1>3 DEF KnownIn
  <1> QED  BY <1>1, <1>2, <1>4 DEF OffsetTypeInv, OffsetTypeOK

LEMMA OffsetTypesHold == OffsetSpec => [](TypeOK /\ OffsetTypeInv)
  <1>1. OffsetSpec => []TypeOK
    BY LogIsPartition, TypeCorrect, PTL
  <1>2. TypeOK /\ TypeOK' /\ OffsetTypeInv /\ [OffsetNext]_<<vars, offsetVars>> => OffsetTypeInv'
    BY OffsetTypeInductive
  <1> QED  BY <1>1, <1>2, OffsetTypeInit, PTL DEF OffsetSpec

\* The offset manager keeps its map, its requests and its entries well formed in
\* every behaviour, whatever fails or crashes: what restore brings up, from files
\* in any state, is the offset of some commit.
THEOREM OffsetTypeCorrect == OffsetSpec => []OffsetTypeOK
  BY OffsetTypesHold, PTL DEF OffsetTypeInv

----------------------------------------------------------------------------
(* The log holds the commits in the order in which they were written.      *)

\* The entry of the message that a reader of the log gets at an offset.
EntryOf(d, hs, es, o) == es[(CHOOSE m \in ReadAt(d, hs, o) : TRUE).id]

\* v is the offset in the last entry of k below end, or there is none.
LastEntry(f, end, k, v) ==
    \/ v = NoOffset /\ \A o \in 0..(end - 1) : f[o].key # k
    \/ \E o \in 0..(end - 1) : /\ f[o].key = k /\ f[o].offset = v
                               /\ \A n \in 0..(end - 1) : n > o => f[n].key # k

\* The entries of the log, by offset.
LogOf(d, hs, es, end) == [o \in 0..(end - 1) |-> EntryOf(d, hs, es, o)]

\* There is a known message at every offset below end.
Known(d, hs, o, n) == \E m : ReadAt(d, hs, o) = {m} /\ m.id \in 1..n

Readable(d, hs, end, n) == \A o \in 0..(end - 1) : Known(d, hs, o, n)

LogInv ==
    /\ Readable(disk, logs, EndOffset, Len(entries))
    /\ \A k \in Keys : LastEntry(LogOf(disk, logs, entries, EndOffset), EndOffset, k, safe[k])

LEMMA ChooseOnly ==
    ASSUME NEW m, NEW S, S = {m}
    PROVE  (CHOOSE x \in S : TRUE) = m
  OBVIOUS

LEMMA LogOfAt ==
    ASSUME NEW d, NEW hs, NEW es, NEW end, NEW o \in 0..(end - 1)
    PROVE  LogOf(d, hs, es, end)[o] = EntryOf(d, hs, es, o)
  BY DEF LogOf

\* An entry stays what it is when entries are added behind it.
LEMMA SameEntry ==
    ASSUME NEW es \in Seq(LogEntry), NEW x \in LogEntry, NEW i \in 1..Len(es)
    PROVE  Append(es, x)[i] = es[i] /\ i \in 1..Len(Append(es, x))
  OBVIOUS

\* One more entry at the end of the log is the last one of its key.
LEMMA LongerLast ==
    ASSUME NEW end \in Nat, NEW f, NEW g, \A o \in 0..(end - 1) : g[o] = f[o],
           NEW k, NEW v, LastEntry(f, end, k, v)
    PROVE  /\ LastEntry(g, end, k, v)
           /\ g[end].key # k => LastEntry(g, end + 1, k, v)
           /\ g[end].key = k => LastEntry(g, end + 1, k, g[end].offset)
  <1>1. LastEntry(g, end, k, v)
    BY DEF LastEntry
  <1>2. \A o \in 0..((end + 1) - 1) : o \in 0..(end - 1) \/ o = end
    OBVIOUS
  <1>3. \A o \in 0..(end - 1) : o \in 0..((end + 1) - 1) /\ ~(end > end) /\ end > o
    OBVIOUS
  <1>4. end \in 0..((end + 1) - 1)
    OBVIOUS
  <1>5. ASSUME g[end].key # k PROVE LastEntry(g, end + 1, k, v)
    <2>1. CASE v = NoOffset /\ \A o \in 0..(end - 1) : g[o].key # k
      BY <1>2, <1>5, <2>1 DEF LastEntry
    <2>2. CASE \E o \in 0..(end - 1) : /\ g[o].key = k /\ g[o].offset = v
                                       /\ \A n \in 0..(end - 1) : n > o => g[n].key # k
      <3>1. PICK o \in 0..(end - 1) : /\ g[o].key = k /\ g[o].offset = v
                                      /\ \A n \in 0..(end - 1) : n > o => g[n].key # k
        BY <2>2
      <3>2. \A n \in 0..((end + 1) - 1) : n > o => g[n].key # k
        BY <1>2, <1>5, <3>1
      <3> QED  BY <1>3, <3>1, <3>2 DEF LastEntry
    <2> QED  BY <1>1, <2>1, <2>2 DEF LastEntry
  <1>6. ASSUME g[end].key = k PROVE LastEntry(g, end + 1, k, g[end].offset)
    <2>1. \A n \in 0..((end + 1) - 1) : ~(n > end)
      OBVIOUS
    <2> QED  BY <1>4, <1>6, <2>1 DEF LastEntry
  <1> QED  BY <1>1, <1>5, <1>6

\* A step that leaves the log as it is, whatever was handed to it.
LEMMA LogInvSame ==
    ASSUME CleanFaults, TypeOK, DurableInv, NoHole(disk, EndOffset), [Next]_vars, SameLog,
           entries \in Seq(LogEntry), LogInv, safe' = safe,
           entries' = entries \/ \E x \in LogEntry : entries' = Append(entries, x)
    PROVE  LogInv'
  <1> DEFINE f == LogOf(disk, logs, entries, EndOffset)
             g == LogOf(disk', logs', entries', EndOffset)
  <1>1. EndOffset \in Nat /\ EndOffset' = EndOffset /\ Kept
    BY RollBaseType DEF EndOffset, SameLog
  <1>2. \A o \in 0..(EndOffset - 1) : ReadAt(disk', logs', o) = ReadAt(disk, logs, o)
    BY <1>1, StepReads
  <1>3. \A i \in 1..Len(entries) : entries'[i] = entries[i] /\ i \in 1..Len(entries')
    BY SameEntry
  <1>4. Readable(disk', logs', EndOffset, Len(entries'))
    BY <1>2, <1>3 DEF LogInv, Readable, Known
  <1>5. ASSUME NEW o \in 0..(EndOffset - 1) PROVE g[o] = f[o]
    <2>1. PICK m : ReadAt(disk, logs, o) = {m} /\ m.id \in 1..Len(entries)
      BY DEF LogInv, Readable, Known
    <2>2. ReadAt(disk', logs', o) = {m}
      BY <1>2, <2>1
    <2>3. EntryOf(disk, logs, entries, o) = entries[m.id]
      BY <2>1, ChooseOnly DEF EntryOf
    <2>4. EntryOf(disk', logs', entries', o) = entries'[m.id]
      BY <2>2, ChooseOnly DEF EntryOf
    <2> QED  BY <1>3, <2>1, <2>3, <2>4 DEF LogOf
  <1> HIDE DEF f, g
  <1>6. \A k \in Keys : LastEntry(f, EndOffset, k, safe[k])
    BY DEF LogInv, f
  <1>7. \A k \in Keys : LastEntry(g, EndOffset, k, safe[k])
    BY <1>1, <1>5, <1>6, LongerLast
  <1> QED  BY <1>1, <1>4, <1>7 DEF LogInv, g

\* A step that extends the log by the entry of a key.
LEMMA LogInvLonger ==
    ASSUME CleanFaults, TypeOK, DurableInv, NoHole(disk, EndOffset), [Next]_vars,
           NEW m, LongerLog(m), m.id = Len(entries) + 1, entries \in Seq(LogEntry), LogInv,
           NEW x \in LogEntry, entries' = Append(entries, x),
           safe \in [Keys -> NoOffset..MaxOffset], safe' = [safe EXCEPT ![x.key] = x.offset]
    PROVE  LogInv'
  <1> DEFINE f == LogOf(disk, logs, entries, EndOffset)
             g == LogOf(disk', logs', entries', EndOffset + 1)
             e == EndOffset
  <1>1. e \in Nat /\ EndOffset' = e + 1 /\ Kept
    BY RollBaseType DEF EndOffset, LongerLog
  <1>2. \A o \in 0..(e - 1) : ReadAt(disk', logs', o) = ReadAt(disk, logs, o)
    BY <1>1, StepReads
  <1>3. ReadAt(disk', logs', e) = {m}
    <2> DEFINE y == [offset |-> e, msg |-> m]
    <2>1. y.offset = EndOffset /\ y.msg = m
      OBVIOUS
    <2> HIDE DEF y
    <2>2. Stored(disk', y)
      BY <2>1 DEF LongerLog
    <2>3. Consistent(disk', logs', active')
      BY TypeInductive, DurableInductive DEF TypeOK, DurableInv, Consistent
    <2> QED  BY <1>1, <2>1, <2>2, <2>3, StoredIsRead
  <1>4. /\ \A i \in 1..Len(entries) : entries'[i] = entries[i] /\ i \in 1..Len(entries')
        /\ m.id \in 1..Len(entries') /\ entries'[m.id] = x
    BY SameEntry
  <1>5. \A o \in 0..((e + 1) - 1) : o \in 0..(e - 1) \/ o = e
    BY <1>1
  <1>6. \A o \in 0..(e - 1) : o \in 0..((e + 1) - 1)
    BY <1>1
  <1>7. e \in 0..((e + 1) - 1)
    BY <1>1
  <1>8. Readable(disk', logs', e + 1, Len(entries'))
    <2>1. ASSUME NEW o \in 0..(e - 1) PROVE Known(disk', logs', o, Len(entries'))
      BY <1>2, <1>4 DEF LogInv, Readable, Known
    <2>2. Known(disk', logs', e, Len(entries'))
      BY <1>3, <1>4 DEF Known
    <2> HIDE DEF e
    <2>3. ASSUME NEW o \in 0..((e + 1) - 1) PROVE Known(disk', logs', o, Len(entries'))
      <3>1. o \in 0..(e - 1) \/ o = e
        BY <1>5
      <3>2. CASE o = e
        BY <2>2, <3>2
      <3> QED  BY <2>1, <3>1, <3>2
    <2> QED  BY ONLY <2>3 DEF Readable
  <1>9. ASSUME NEW o \in 0..(e - 1) PROVE g[o] = f[o]
    <2>1. PICK r : ReadAt(disk, logs, o) = {r} /\ r.id \in 1..Len(entries)
      BY DEF LogInv, Readable, Known
    <2>2. ReadAt(disk', logs', o) = {r}
      BY <1>2, <2>1
    <2>3. EntryOf(disk, logs, entries, o) = entries[r.id]
      BY <2>1, ChooseOnly DEF EntryOf
    <2>4. EntryOf(disk', logs', entries', o) = entries'[r.id]
      BY <2>2, ChooseOnly DEF EntryOf
    <2>5. f[o] = EntryOf(disk, logs, entries, o)
      BY DEF LogOf
    <2>6. g[o] = EntryOf(disk', logs', entries', o)
      <3>1. o \in 0..((EndOffset + 1) - 1)
        BY <1>6
      <3> QED  BY ONLY <3>1, LogOfAt
    <2> HIDE DEF f, g
    <2> QED  BY <1>4, <2>1, <2>3, <2>4, <2>5, <2>6
  <1>10. g[e] = x
    <2>1. EntryOf(disk', logs', entries', e) = entries'[m.id]
      BY <1>3, ChooseOnly DEF EntryOf
    <2>2. g[e] = EntryOf(disk', logs', entries', e)
      BY <1>7, LogOfAt
    <2> QED  BY <1>4, <2>1, <2>2
  <1>11. \A k \in Keys : LastEntry(f, e, k, safe[k])
    BY DEF LogInv
  <1> HIDE DEF f, g, e
  <1>12. ASSUME NEW k \in Keys PROVE LastEntry(g, e + 1, k, safe'[k])
    <2>1. /\ g[e].key # k => LastEntry(g, e + 1, k, safe[k])
          /\ g[e].key = k => LastEntry(g, e + 1, k, g[e].offset)
      BY <1>1, <1>9, <1>11, LongerLast
    <2>2. CASE k = x.key
      BY <1>10, <2>1, <2>2
    <2>3. CASE k # x.key
      BY <1>10, <2>1, <2>3
    <2> QED  BY <2>2, <2>3
  <1>13. \A k \in Keys : LastEntry(LogOf(disk', logs', entries', EndOffset'), EndOffset', k, safe'[k])
    BY <1>1, <1>12 DEF g, e
  <1> QED  BY <1>1, <1>8, <1>13 DEF LogInv

\* The state of the log that the theorems start from.
LogState == TypeOK /\ DurableInv /\ NoHole(disk, EndOffset) /\ OffsetTypeOK

LEMMA LogInvInductive ==
    ASSUME CleanFaults, LogState, LogInv, [OffsetNext]_<<vars, offsetVars>>, [Next]_vars
    PROVE  LogInv'
  <1>0. /\ TypeOK /\ DurableInv /\ NoHole(disk, EndOffset)
        /\ entries \in Seq(LogEntry) /\ Len(entries) = attempts
        /\ safe \in [Keys -> NoOffset..MaxOffset]
    BY DEF LogState, OffsetTypeOK, LogEntry
  <1>1. \A len \in Lengths : NewMessage(len).id = Len(entries) + 1
    BY <1>0 DEF NewMessage
  <1>2. ASSUME NEW c \in Committers, Encode(c)
        PROVE  \E x \in LogEntry : /\ entries' = Append(entries, x)
                                   /\ Logged(c) = [safe EXCEPT ![x.key] = x.offset]
    <2> DEFINE x == [key |-> KeyOf[c], offset |-> pending[c]]
    <2>1. x \in LogEntry /\ x.key = KeyOf[c] /\ x.offset = pending[c]
      BY <1>2, EncodeType DEF LogState, LogEntry
    <2>2. entries' = Append(entries, x)
      BY <1>2 DEF Encode
    <2> HIDE DEF x
    <2> QED  BY <2>1, <2>2 DEF Logged
  <1>3. ASSUME NEW c \in Committers, Encode(c), NEW m, LongerLog(m), m.id = Len(entries) + 1,
               safe' = Logged(c)
        PROVE  LogInv'
    <2>1. PICK x \in LogEntry : /\ entries' = Append(entries, x)
                                /\ safe' = [safe EXCEPT ![x.key] = x.offset]
      BY <1>2, <1>3
    <2> QED  BY <1>0, <1>3, <2>1, LogInvLonger
  <1>4. ASSUME NEW c \in Committers, Encode(c), SameLog, safe' = safe PROVE LogInv'
    <2>1. \E x \in LogEntry : entries' = Append(entries, x)
      BY <1>2, <1>4
    <2> QED  BY <1>0, <1>4, <2>1, LogInvSame
  <1>5. ASSUME SameLog, safe' = safe, entries' = entries PROVE LogInv'
    BY <1>0, <1>5, LogInvSame
  <1>6. ASSUME NEW c \in Committers, UpdateOffset(c) PROVE LogInv'
    <2>1. UNCHANGED vars /\ safe' = safe /\ entries' = entries
      BY <1>6 DEF UpdateOffset
    <2>2. SameLog
      BY <1>0, <2>1, LogStep
    <2> QED  BY <1>5, <2>1, <2>2
  <1>7. ASSUME NEW c \in Committers, PersistToLog(c) PROVE LogInv'
    <2>1. PICK len \in Lengths : AppendMsg(NewMessage(len))
      BY <1>7 DEF PersistToLog
    <2>2. LongerLog(NewMessage(len)) /\ NewMessage(len).id = Len(entries) + 1
      BY <1>0, <1>1, <2>1, LogStep
    <2> QED  BY <1>3, <1>7, <2>2 DEF PersistToLog
  <1>8. ASSUME NEW c \in Committers, PersistToLogFails(c) PROVE LogInv'
    <2>1. SameLog
      BY <1>0, <1>8, LogStep DEF PersistToLogFails
    <2> QED  BY <1>4, <1>8, <2>1 DEF PersistToLogFails
  <1>9. ASSUME NEW c \in Committers, PersistToLogCrash(c) PROVE LogInv'
    <2>1. PICK len \in Lengths, w \in CrashPoints :
             /\ AppendCrash(NewMessage(len), w)
             /\ safe' = IF w = 4 THEN Logged(c) ELSE safe
      BY <1>9 DEF PersistToLogCrash
    <2>2. /\ IF w = 4 THEN LongerLog(NewMessage(len)) ELSE SameLog
          /\ NewMessage(len).id = Len(entries) + 1
      BY <1>0, <1>1, <2>1, LogStep
    <2>3. Encode(c)
      BY <1>9 DEF PersistToLogCrash
    <2>4. CASE w = 4
      BY <1>3, <2>1, <2>2, <2>3, <2>4
    <2>5. CASE w # 4
      BY <1>4, <2>1, <2>2, <2>3, <2>5
    <2> QED  BY <2>4, <2>5
  <1>10. CASE RestartBroker
    <2>1. SameLog
      BY <1>0, <1>10, LogStep DEF RestartBroker
    <2> QED  BY <1>5, <1>10, <2>1 DEF RestartBroker
  <1>11. CASE UNCHANGED <<vars, offsetVars>>
    <2>1. UNCHANGED vars /\ safe' = safe /\ entries' = entries
      BY <1>11 DEF offsetVars
    <2>2. SameLog
      BY <1>0, <2>1, LogStep
    <2> QED  BY <1>5, <2>1, <2>2
  <1> QED  BY <1>6, <1>7, <1>8, <1>9, <1>10, <1>11 DEF OffsetNext

----------------------------------------------------------------------------
(* What restore finds.                                                     *)

\* Only the first segment of the log has entries.  restore reads no entry of a
\* later segment (Offsets_rollover), so this is where commits are durable.
OneSegment == \A b \in DOMAIN disk : b # 0 => Count(disk[b]) = 0

\* An entry of an intact index leads to its record.
LEMMA IntactReads ==
    ASSUME NEW seg, IsSegment(seg), IntactSegment(seg), NEW n \in 0..(Count(seg) - 1)
    PROVE  LogReadAt(seg, n) = {seg.recs[seg.idx[2 * n + 2]]}
  <1>1. /\ 2 * n + 2 <= Len(seg.idx) /\ seg.idx[2 * n + 1] = n
        /\ seg.idx[2 * n + 2] \in DOMAIN seg.recs
    BY CountType DEF IntactSegment
  <1>2. IndexRead(seg, n) = {seg.idx[2 * n + 2]}
    BY <1>1 DEF IndexRead
  <1>3. ReadAtByte(seg, seg.idx[2 * n + 2]) = {seg.recs[seg.idx[2 * n + 2]]}
    BY <1>1 DEF ReadAtByte
  <1> QED  BY <1>2, <1>3 DEF LogReadAt

\* The first segment holds the offsets of the log, and no others.
LEMMA FirstSegment ==
    ASSUME LogState, OneSegment
    PROVE  /\ EndOffset \in Nat
           /\ 0 \in DOMAIN disk => Count(disk[0]) = EndOffset
           /\ 0 \notin DOMAIN disk => EndOffset = 0
           /\ \A o \in 0..(EndOffset - 1) : /\ 0 \in DOMAIN disk
                                            /\ LogReadAt(disk[0], o) = ReadAt(disk, logs, o)
  <1> DEFINE e == EndOffset
             a == logs[active].base
  <1>1. /\ \A b \in DOMAIN disk : b \in Nat /\ IsSegment(disk[b]) /\ Count(disk[b]) \in Nat
        /\ a \in DOMAIN disk /\ e = a + Count(disk[a])
        /\ DisjointSegments(disk) /\ IntactDisk(disk) /\ Consistent(disk, logs, active)
        /\ NoHole(disk, e)
    <2>1. \A b \in DOMAIN disk : b \in Nat /\ IsSegment(disk[b]) /\ Count(disk[b]) \in Nat
      BY CountType DEF LogState, TypeOK, DiskOK
    <2>2. a \in DOMAIN disk /\ logs[active].next = Count(disk[a])
      BY DEF LogState, TypeOK, HandlesOK, DurableInv, ActiveCurrent
    <2>3. e = a + Count(disk[a])
      BY <2>2 DEF EndOffset, RollBase
    <2> HIDE DEF e, a
    <2>4. DisjointSegments(disk) /\ IntactDisk(disk) /\ Consistent(disk, logs, active)
      BY DEF LogState, TypeOK, DurableInv, Consistent
    <2> QED  BY <2>1, <2>2, <2>3, <2>4 DEF LogState, e
  <1>2. \A b \in DOMAIN disk : b # 0 => Count(disk[b]) = 0
    BY DEF OneSegment
  <1> HIDE DEF e, a
  <1>3. e \in Nat
    BY <1>1
  <1>4. \A o \in 0..(e - 1) : 0 \in DOMAIN disk /\ o < Count(disk[0])
    <2> SUFFICES ASSUME NEW o \in 0..(e - 1) PROVE 0 \in DOMAIN disk /\ o < Count(disk[0])
      OBVIOUS
    <2>1. PICK b \in DOMAIN disk : b <= o /\ o < b + Count(disk[b])
      BY <1>1, <1>3 DEF NoHole
    <2>2. b = 0
      BY <1>1, <1>2, <2>1
    <2> QED  BY <1>1, <2>1, <2>2
  <1>5. ASSUME 0 \in DOMAIN disk PROVE Count(disk[0]) = e
    <2>1. Count(disk[0]) <= e
      <3>1. CASE a = 0
        BY <1>1, <1>5, <3>1
      <3>2. CASE a # 0
        <4>1. 0 < a /\ 0 + Count(disk[0]) <= a
          BY <1>1, <1>5, <3>2 DEF DisjointSegments
        <4> QED  BY <1>1, <1>2, <1>5, <3>2, <4>1
      <3> QED  BY <3>1, <3>2
    <2>2. e <= Count(disk[0])
      <3>1. CASE e = 0
        BY <1>1, <1>5, <3>1
      <3>2. CASE e # 0
        <4>1. e - 1 \in 0..(e - 1)
          BY <1>3, <3>2
        <4> QED  BY <1>1, <1>3, <1>4, <1>5, <4>1
      <3> QED  BY <3>1, <3>2
    <2> QED  BY <1>1, <1>3, <1>5, <2>1, <2>2
  <1>6. ASSUME 0 \notin DOMAIN disk PROVE e = 0
    <2>1. CASE e # 0
      <3>1. e - 1 \in 0..(e - 1)
        BY <1>3, <2>1
      <3> QED  BY <1>4, <1>6, <3>1
    <2> QED  BY <2>1
  <1>7. ASSUME NEW o \in 0..(e - 1) PROVE LogReadAt(disk[0], o) = ReadAt(disk, logs, o)
    <2> DEFINE seg == disk[0]
               m == seg.recs[seg.idx[2 * o + 2]]
               x == [offset |-> o, msg |-> m]
    <2>1. 0 \in DOMAIN disk /\ o < Count(seg) /\ o \in Nat
      BY <1>3, <1>4
    <2>2. IsSegment(seg) /\ IntactSegment(seg) /\ o \in 0..(Count(seg) - 1)
      BY <1>1, <2>1 DEF IntactDisk
    <2>3. LogReadAt(seg, o) = {m}
      <3> HIDE DEF seg
      <3> QED  BY <2>2, IntactReads
    <2>4. x.offset = o /\ x.msg = m
      OBVIOUS
    <2>5. o - 0 = o /\ 0 <= o /\ o < 0 + Count(disk[0])
      BY <1>1, <2>1
    <2> HIDE DEF x
    <2>6. Stored(disk, x)
      BY <2>1, <2>4, <2>5 DEF Stored
    <2>7. ReadAt(disk, logs, o) = {m}
      <3> HIDE DEF m
      <3> QED  BY <1>1, <2>1, <2>4, <2>6, StoredIsRead
    <2> QED  BY <2>3, <2>7
  <1> QED  BY <1>3, <1>4, <1>5, <1>6, <1>7 DEF e

\* What restore leaves for a key, when it replays the entries f of one segment.
LEMMA LastReplayed ==
    ASSUME NEW d, NEW es, NEW k, NEW end \in Nat, NEW f, NEW v, LastEntry(f, end, k, v),
           \A p : p \in Replayed(d, es, k) <=>
                     \E o \in 0..(end - 1) : p = <<0, o>> /\ f[o].key = k,
           \A o \in 0..(end - 1) : EntryAt(d, es, <<0, o>>) = f[o]
    PROVE  Restored(d, es, k) = v
  <1> DEFINE R == Replayed(d, es, k)
             Last(p) == \A q \in R : ReplayOrder(q, p)
             last == CHOOSE p \in R : Last(p)
  <1>1. CASE v = NoOffset /\ \A o \in 0..(end - 1) : f[o].key # k
    <2>1. R = {}
      BY <1>1
    <2> QED  BY <1>1, <2>1 DEF Restored
  <1>2. ASSUME NEW o \in 0..(end - 1), f[o].key = k, f[o].offset = v,
               \A n \in 0..(end - 1) : n > o => f[n].key # k
        PROVE  Restored(d, es, k) = v
    <2>1. \A q \in R : \E n \in 0..(end - 1) : q = <<0, n>> /\ n <= o
      BY <1>2
    <2>2. <<0, o>> \in R
      BY <1>2
    <2>3. Last(<<0, o>>)
      BY <2>1 DEF ReplayOrder
    <2>4. last \in R /\ Last(last)
      <3> HIDE DEF R, Last
      <3> QED  BY <2>2, <2>3
    <2>5. last = <<0, o>>
      <3> HIDE DEF last
      <3>1. PICK n \in 0..(end - 1) : last = <<0, n>> /\ n <= o
        BY <2>1, <2>4
      <3>2. ReplayOrder(<<0, o>>, <<0, n>>)
        BY <2>2, <2>4, <3>1
      <3>3. o <= n
        BY <3>2 DEF ReplayOrder
      <3> QED  BY <3>1, <3>3
    <2>6. Restored(d, es, k) = EntryAt(d, es, last).offset
      BY <2>2 DEF Restored
    <2> HIDE DEF last
    <2> QED  BY <1>2, <2>5, <2>6
  <1> QED  BY <1>1, <1>2 DEF LastEntry

\* A restart finds the last entry of every key.
LEMMA RestoreFinds ==
    ASSUME LogState, OneSegment, LogInv
    PROVE  AckedCommitSurvives
  <1> DEFINE f == LogOf(disk, logs, entries, EndOffset)
             e == EndOffset
  <1>1. /\ e \in Nat
        /\ 0 \in DOMAIN disk => Count(disk[0]) = e
        /\ 0 \notin DOMAIN disk => e = 0
        /\ \A o \in 0..(e - 1) : /\ 0 \in DOMAIN disk
                                 /\ LogReadAt(disk[0], o) = ReadAt(disk, logs, o)
    BY FirstSegment
  <1>2. ASSUME NEW o \in 0..(e - 1)
        PROVE  EntryAt(disk, entries, <<0, o>>) = f[o] /\ LogReadAt(disk[0], o) # {}
    <2>1. f[o] = EntryOf(disk, logs, entries, o)
      BY LogOfAt
    <2>2. Known(disk, logs, o, Len(entries))
      BY DEF LogInv, Readable
    <2> HIDE DEF f
    <2>3. LogReadAt(disk[0], o) = ReadAt(disk, logs, o)
      BY <1>1
    <2>4. EntryAt(disk, entries, <<0, o>>) = entries[(CHOOSE m \in LogReadAt(disk[0], o) : TRUE).id]
      BY DEF EntryAt
    <2> QED  BY <2>1, <2>2, <2>3, <2>4 DEF EntryOf, Known
  <1>3. \A k \in Keys : LastEntry(f, e, k, safe[k])
    BY DEF LogInv
  <1> HIDE DEF f, e
  <1>4. DiskOK(disk)
    BY DEF LogState, TypeOK
  <1>5. ASSUME NEW k \in Keys
        PROVE  \A p : p \in Replayed(disk, entries, k) <=>
                         \E o \in 0..(e - 1) : p = <<0, o>> /\ f[o].key = k
    <2>1. ASSUME NEW p \in Replayed(disk, entries, k)
          PROVE  \E o \in 0..(e - 1) : p = <<0, o>> /\ f[o].key = k
      <3>1. /\ p[1] \in DOMAIN disk /\ p[2] \in Nat /\ p[2] < Count(disk[p[1]])
            /\ p = <<p[1], p[2]>> /\ EntryAt(disk, entries, p).key = k
        BY <1>4, ReplayedPlace
      <3>2. p[1] = 0
        BY <3>1 DEF OneSegment
      <3>3. p[2] \in 0..(e - 1) /\ p = <<0, p[2]>>
        BY <1>1, <3>1, <3>2
      <3>4. EntryAt(disk, entries, p) = f[p[2]]
        BY <1>2, <3>3
      <3> QED  BY <3>1, <3>3, <3>4
    <2>2. ASSUME NEW o \in 0..(e - 1), f[o].key = k
          PROVE  <<0, o>> \in Replayed(disk, entries, k)
      <3>1. 0 \in DOMAIN disk /\ Count(disk[0]) = e
        BY <1>1
      <3>2. \A n \in 0..o : n \in 0..(e - 1)
        BY <1>1
      <3>3. LoadLog(disk, 0).next = e
        BY <3>1 DEF LoadLog
      <3>4. o \in Visited(disk, 0)
        BY <1>2, <3>2, <3>3 DEF Visited
      <3> QED  BY <1>2, <2>2, <3>1, <3>4 DEF Replayed
    <2> QED  BY <2>1, <2>2
  <1>6. ASSUME NEW k \in Keys PROVE Restored(disk, entries, k) = safe[k]
    BY <1>1, <1>2, <1>3, <1>5, LastReplayed
  <1> QED  BY <1>6 DEF AckedCommitSurvives

LEMMA LogInvInit == OffsetInit => LogInv /\ NoHole(disk, EndOffset)
  <1> SUFFICES ASSUME OffsetInit PROVE LogInv /\ NoHole(disk, EndOffset)
    OBVIOUS
  <1>1. EndOffset = 0
    BY DEF OffsetInit, Init, EndOffset, RollBase
  <1>2. 0..(EndOffset - 1) = {}
    BY <1>1
  <1>3. \A k \in Keys : safe[k] = NoOffset
    BY DEF OffsetInit
  <1> QED  BY <1>1, <1>2, <1>3 DEF LogInv, Readable, LastEntry, NoHole

LEMMA LogHolds == CleanFaults => (OffsetSpec => [](LogState /\ LogInv))
  <1> SUFFICES ASSUME CleanFaults PROVE OffsetSpec => [](LogState /\ LogInv)
    OBVIOUS
  <1>1. OffsetSpec => [](TypeOK /\ DurableInv /\ OffsetTypeOK) /\ [][Next]_vars
    BY LogIsPartition, TypeCorrect, DurableCorrect, OffsetTypeCorrect, PTL DEF Spec
  <1>2. TypeOK /\ DurableInv /\ NoHole(disk, EndOffset) /\ [Next]_vars
           => NoHole(disk, EndOffset)'
    BY NoHoleInductive DEF NoHole
  <1>3. LogState /\ LogInv /\ [OffsetNext]_<<vars, offsetVars>> /\ [Next]_vars => LogInv'
    BY LogInvInductive
  <1>4. LogState <=> (TypeOK /\ DurableInv /\ NoHole(disk, EndOffset) /\ OffsetTypeOK)
    BY DEF LogState
  <1> QED  BY <1>1, <1>2, <1>3, <1>4, LogInvInit, PTL DEF OffsetSpec

\* As long as only the first segment of the log has entries, a broker that is
\* started again finds for every group the last offset whose entry was written:
\* appends that fail at their first write, crashes after any write of an append
\* but the first word of its index entry, commits of the same or of smaller
\* offsets and any number of connections for one key change nothing about it.
THEOREM AckedCommitsSurvive ==
    CleanFaults => (OffsetSpec => [](OneSegment => AckedCommitSurvives))
  <1>1. LogState /\ LogInv => (OneSegment => AckedCommitSurvives)
    BY RestoreFinds
  <1> QED  BY <1>1, LogHolds, PTL

----------------------------------------------------------------------------
(* The map and the log.                                                    *)

\* Every key has one connection that commits for it.
OwnKeys == \A c, e \in Committers : KeyOf[c] = KeyOf[e] => c = e

MemInv ==
    /\ \A c \in Committers : pending[c] # NoOffset => offsets[KeyOf[c]] = pending[c]
    /\ \A k \in Keys : Quiet(k) /\ k \notin dirty => offsets[k] = safe[k]

\* A restart leaves in the map what is safe.
LEMMA RestoredSafe ==
    ASSUME Restore, AckedCommitSurvives', OffsetTypeOK'
    PROVE  /\ offsets' = safe'
           /\ \A c \in Committers : pending'[c] = NoOffset
  <1>1. \A k \in Keys : Restored(disk', entries', k) = safe'[k]
    BY DEF AckedCommitSurvives
  <1>2. safe' \in [Keys -> NoOffset..MaxOffset]
    BY DEF OffsetTypeOK
  <1>3. offsets' = [k \in Keys |-> safe'[k]]
    BY <1>1 DEF Restore
  <1> QED  BY <1>2, <1>3 DEF Restore

\* Every step keeps the map and the log in agreement, and is a step of the
\* abstract store.
LEMMA StoreStep ==
    ASSUME OwnKeys, OffsetTypeOK, OffsetTypeOK', MemInv, AckedCommitSurvives',
           [OffsetNext]_<<vars, offsetVars>>
    PROVE  MemInv' /\ [Store!Next]_<<offsets, safe>>
  <1>0. /\ offsets \in [Keys -> NoOffset..MaxOffset]
        /\ pending \in [Committers -> NoOffset..MaxOffset]
        /\ safe \in [Keys -> NoOffset..MaxOffset] /\ dirty \subseteq Keys
        /\ KeyOf \in [Committers -> Keys]
    BY OffsetAssumption DEF OffsetTypeOK
  <1>1. ASSUME Restore, \A k \in Keys : safe'[k] = safe[k] \/ safe'[k] = offsets[k]
        PROVE  MemInv' /\ [Store!Next]_<<offsets, safe>>
    <2>1. offsets' = safe' /\ \A c \in Committers : pending'[c] = NoOffset
      BY <1>1, RestoredSafe
    <2>2. MemInv'
      BY <2>1 DEF MemInv
    <2>3. DOMAIN offsets' = Keys
      BY DEF OffsetTypeOK
    <2>4. Store!Fallback
      BY <1>1, <2>1, <2>3 DEF Store!Fallback
    <2> QED  BY <2>2, <2>4 DEF Store!Next
  <1>2. ASSUME NEW c \in Committers, UpdateOffset(c)
        PROVE  MemInv' /\ [Store!Next]_<<offsets, safe>>
    <2>1. PICK o \in 0..MaxOffset : /\ offsets' = [offsets EXCEPT ![KeyOf[c]] = o]
                                    /\ pending' = [pending EXCEPT ![c] = o]
      BY <1>2 DEF UpdateOffset
    <2>2. safe' = safe /\ dirty' = dirty /\ KeyOf[c] \in Keys /\ o # NoOffset
      BY <1>0, <1>2, OffsetAssumption DEF UpdateOffset, NoOffset
    <2>3. /\ offsets'[KeyOf[c]] = o /\ pending'[c] = o
          /\ \A k \in Keys : k # KeyOf[c] => offsets'[k] = offsets[k]
          /\ \A e \in Committers : e # c => pending'[e] = pending[e]
      BY <1>0, <2>1, <2>2
    <2>4. \A e \in Committers : pending'[e] # NoOffset => offsets'[KeyOf[e]] = pending'[e]
      <3> SUFFICES ASSUME NEW e \in Committers, pending'[e] # NoOffset
                   PROVE  offsets'[KeyOf[e]] = pending'[e]
        OBVIOUS
      <3>1. CASE e = c
        BY <2>3, <3>1
      <3>2. CASE e # c
        <4>1. KeyOf[e] # KeyOf[c] /\ KeyOf[e] \in Keys
          BY <1>0, <3>2 DEF OwnKeys
        <4> QED  BY <2>3, <3>2, <4>1 DEF MemInv
      <3> QED  BY <3>1, <3>2
    <2>5. ASSUME NEW k \in Keys, Quiet(k)', k \notin dirty' PROVE offsets'[k] = safe'[k]
      <3>1. k # KeyOf[c]
        BY <2>2, <2>3, <2>5 DEF Quiet
      <3>2. Quiet(k)
        BY <2>3, <2>5, <3>1 DEF Quiet
      <3> QED  BY <2>2, <2>3, <2>5, <3>1, <3>2 DEF MemInv
    <2>6. MemInv'
      BY <2>4, <2>5 DEF MemInv
    <2>7. Store!Commit(KeyOf[c])
      <3>1. offsets' = [offsets EXCEPT ![KeyOf[c]] = offsets'[KeyOf[c]]]
        BY <2>1, <2>3
      <3> QED  BY <2>2, <3>1 DEF Store!Commit
    <2> QED  BY <2>2, <2>6, <2>7 DEF Store!Next
  <1>3. ASSUME NEW c \in Committers, Encode(c), pending' = [pending EXCEPT ![c] = NoOffset],
               offsets' = offsets,
               \/ safe' = Logged(c) /\ dirty' = dirty \ {KeyOf[c]}
               \/ safe' = safe /\ dirty' = dirty \cup {KeyOf[c]}
        PROVE  MemInv'
    <2>1. pending[c] # NoOffset /\ offsets[KeyOf[c]] = pending[c] /\ KeyOf[c] \in Keys
      BY <1>0, <1>3 DEF Encode, MemInv
    <2>2. pending'[c] = NoOffset /\ \A e \in Committers : e # c => pending'[e] = pending[e]
      BY <1>0, <1>3
    <2>3. \A k \in Keys : k # KeyOf[c] => safe'[k] = safe[k] /\ (k \in dirty' <=> k \in dirty)
      BY <1>0, <1>3 DEF Logged
    <2>4. KeyOf[c] \in dirty' \/ safe'[KeyOf[c]] = pending[c]
      BY <1>0, <1>3, <2>1 DEF Logged
    <2>5. \A e \in Committers : pending'[e] # NoOffset => offsets'[KeyOf[e]] = pending'[e]
      BY <1>3, <2>2 DEF MemInv
    <2>6. ASSUME NEW k \in Keys, Quiet(k)', k \notin dirty' PROVE offsets'[k] = safe'[k]
      <3>1. CASE k = KeyOf[c]
        BY <1>3, <2>1, <2>4, <2>6, <3>1
      <3>2. CASE k # KeyOf[c]
        <4>1. Quiet(k)
          BY <2>2, <2>6, <3>2 DEF Quiet
        <4> QED  BY <1>3, <2>3, <2>6, <3>2, <4>1 DEF MemInv
      <3> QED  BY <3>1, <3>2
    <2> QED  BY <2>5, <2>6 DEF MemInv
  <1>4. ASSUME NEW c \in Committers, PersistToLog(c)
        PROVE  MemInv' /\ [Store!Next]_<<offsets, safe>>
    <2>1. /\ Encode(c) /\ safe' = Logged(c) /\ dirty' = dirty \ {KeyOf[c]}
          /\ pending' = [pending EXCEPT ![c] = NoOffset] /\ offsets' = offsets
      BY <1>4 DEF PersistToLog
    <2>2. offsets[KeyOf[c]] = pending[c] /\ KeyOf[c] \in Keys
      BY <1>0, <2>1 DEF Encode, MemInv
    <2>3. Store!Secure(KeyOf[c])
      BY <2>1, <2>2 DEF Store!Secure, Logged
    <2> QED  BY <1>3, <2>1, <2>2, <2>3 DEF Store!Next
  <1>5. ASSUME NEW c \in Committers, PersistToLogFails(c)
        PROVE  MemInv' /\ [Store!Next]_<<offsets, safe>>
    BY <1>3, <1>5 DEF PersistToLogFails
  <1>6. ASSUME NEW c \in Committers, PersistToLogCrash(c)
        PROVE  MemInv' /\ [Store!Next]_<<offsets, safe>>
    <2>1. Encode(c) /\ Restore /\ (safe' = Logged(c) \/ safe' = safe)
      BY <1>6 DEF PersistToLogCrash
    <2>2. offsets[KeyOf[c]] = pending[c] /\ KeyOf[c] \in Keys
      BY <1>0, <2>1 DEF Encode, MemInv
    <2>3. \A k \in Keys : safe'[k] = safe[k] \/ safe'[k] = offsets[k]
      BY <1>0, <2>1, <2>2 DEF Logged
    <2> QED  BY <1>1, <2>1, <2>3
  <1>7. CASE RestartBroker
    BY <1>1, <1>7 DEF RestartBroker
  <1>8. CASE UNCHANGED <<vars, offsetVars>>
    BY <1>8 DEF offsetVars, MemInv, Quiet
  <1> QED  BY <1>2, <1>4, <1>5, <1>6, <1>7, <1>8 DEF OffsetNext

LEMMA StoreInit == OffsetInit => MemInv /\ Store!Init
  BY DEF OffsetInit, MemInv, Store!Init

LEMMA StoreHolds ==
    CleanFaults /\ OwnKeys =>
        (OffsetSpec /\ []OneSegment => [](AckedCommitSurvives /\ OffsetTypeOK /\ MemInv))
  <1> SUFFICES ASSUME CleanFaults, OwnKeys
               PROVE  OffsetSpec /\ []OneSegment =>
                         [](AckedCommitSurvives /\ OffsetTypeOK /\ MemInv)
    OBVIOUS
  <1>1. OffsetSpec /\ []OneSegment => [](AckedCommitSurvives /\ OffsetTypeOK)
    BY AckedCommitsSurvive, OffsetTypeCorrect, PTL
  <1>2. /\ OffsetTypeOK /\ OffsetTypeOK' /\ MemInv /\ AckedCommitSurvives'
        /\ [OffsetNext]_<<vars, offsetVars>>
        => MemInv'
    BY StoreStep
  <1>3. OffsetInit => MemInv
    BY StoreInit
  <1> QED  BY <1>1, <1>2, <1>3, PTL DEF OffsetSpec

\* With one connection per key, the map holds what a restart would restore
\* whenever no commit for the key is in progress and the last one did not fail.
THEOREM MemoryIsOnDisk ==
    CleanFaults /\ OwnKeys => (OffsetSpec /\ []OneSegment => []MemoryMatchesDisk)
  <1>1. AckedCommitSurvives /\ MemInv => MemoryMatchesDisk
    BY DEF AckedCommitSurvives, MemInv, MemoryMatchesDisk
  <1> QED  BY <1>1, StoreHolds, PTL

\* With one connection per key, map and log implement the abstract store: a
\* crash takes a key back to its last commit that reached the log, and no further.
THEOREM OffsetStoreImplemented ==
    CleanFaults /\ OwnKeys => (OffsetSpec /\ []OneSegment => ImplementsOffsetStore)
  <1> SUFFICES ASSUME CleanFaults, OwnKeys
               PROVE  OffsetSpec /\ []OneSegment => ImplementsOffsetStore
    OBVIOUS
  <1>1. OffsetInit => Store!Init
    BY StoreInit
  <1>2. /\ OffsetTypeOK /\ OffsetTypeOK' /\ MemInv /\ AckedCommitSurvives'
        /\ [OffsetNext]_<<vars, offsetVars>>
        => [Store!Next]_<<offsets, safe>>
    BY StoreStep
  <1>3. OffsetSpec /\ []OneSegment => [](AckedCommitSurvives /\ OffsetTypeOK /\ MemInv)
    BY StoreHolds
  <1> QED  BY <1>1, <1>2, <1>3, PTL DEF OffsetSpec, ImplementsOffsetStore, Store!Spec
=============================================================================
