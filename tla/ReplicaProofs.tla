--------------------------- MODULE ReplicaProofs ---------------------------
(***************************************************************************)
(* Machine-checked proofs about the copy of a partition on a replica, for  *)
(* any message lengths, rollover limits, batches and numbers of messages,  *)
(* and any failed or interrupted append but one that is cut off inside an  *)
(* index entry.                                                            *)
(***************************************************************************)
EXTENDS PartitionReplica, PartitionProofs

----------------------------------------------------------------------------
(* The invariant.                                                          *)

\* No append of the fetcher is cut off between the two words of its entry.
CleanReplica == 3 \notin ReplicaFaults

\* The offset in entry n of an index, and the record that the entry points at.
Place(seg, n) == seg.idx[2 * n + 1]

RecordOf(seg, n) == seg.recs[seg.idx[2 * n + 2]]

Entries(seg) == 0..(Count(seg) - 1)

\* The segment at base b holds messages of the leader below offset lim, in
\* offset order: entry n is never for an offset below n, and in a segment that
\* does not start at 0 never for n.
InPlace(b, seg, lim) ==
    \A n \in Entries(seg) :
        /\ seg.idx[2 * n + 2] \in DOMAIN seg.recs
        /\ RecordOf(seg, n).id = Place(seg, n) + 1
        /\ Place(seg, n) \in Nat /\ Place(seg, n) >= n /\ Place(seg, n) < lim
        /\ b > 0 => Place(seg, n) > n
        /\ \A k \in Entries(seg) : k < n => Place(seg, k) < Place(seg, n)

Placed(b, seg, lim) ==
    /\ Len(seg.idx) = 2 * Count(seg)
    /\ RecordsInFile(seg)
    /\ \A p \in DOMAIN seg.recs : seg.recs[p].id <= lim
    /\ InPlace(b, seg, lim)

\* A message is in one segment only.
UniqueIds(d) ==
    \A b, c \in DOMAIN d : \A p \in DOMAIN d[b].recs, q \in DOMAIN d[c].recs :
        d[b].recs[p].id = d[c].recs[q].id => b = c

EnteredIn(seg, a) == \E n \in Entries(seg) : Place(seg, n) = a.offset /\ RecordOf(seg, n) = a.msg

Entered(d, a) == \E b \in DOMAIN d : EnteredIn(d[b], a)

\* An entry of the first segment is at its own offset, or something below it
\* was never replicated.
Gaps(seg, as) ==
    \A n \in Entries(seg) :
        \/ Place(seg, n) = n
        \/ \E g \in Nat : g < Place(seg, n) /\ \A c \in as : c.offset # g

\* The files, after the messages as were replicated and before offset lim is.
CopyDisk(d, as, lim) ==
    /\ 0 \in DOMAIN d
    /\ \A b \in DOMAIN d : Placed(b, d[b], lim) /\ (b > 0 => lim > 0)
    /\ UniqueIds(d)
    /\ \A a \in as : Entered(d, a)
    /\ Gaps(d[0], as)

\* The lowest offset that the fetcher may still be given.
Pending == IF batch = <<>> THEN sent ELSE Head(batch).offset

\* A message of the leader as FetchLog hands it over.
Item == [offset : Nat, len : Lengths]

BatchInv ==
    /\ batch \in Seq(Item) /\ sent \in Nat
    /\ \A i \in DOMAIN batch : batch[i].offset < sent
    /\ \A i, j \in DOMAIN batch : i < j => batch[i].offset < batch[j].offset

\* As long as the fetcher runs, its handle agrees with the log file and is on
\* the last segment.
FetcherInv ==
    /\ fetcher \in {"fetch", "closed", "append", "ended"}
    /\ logs[active].next > 0 => Pending > 0
    /\ fetcher # "ended" => /\ logs[active].size = disk[logs[active].base].bytes
                            /\ OnLast(disk, logs[active])

\* The object that serves reads was opened on the messages in saved.
SavedInv ==
    /\ saved \subseteq acked
    /\ HandlesOK(disk, served, 1)
    /\ served[1].base = 0
    /\ \A a \in saved : \A n \in Entries(disk[0]) :
          Place(disk[0], n) = a.offset => n < served[1].next

ReplicaInv ==
    /\ BatchInv
    /\ CopyDisk(disk, acked, Pending)
    /\ FetcherInv
    /\ SavedInv

CopyInv ==
    /\ TypeOK
    /\ role \in {"leader", "replica"}
    /\ role = "replica" => ReplicaInv

----------------------------------------------------------------------------
(* Segments.                                                               *)

\* new is seg after w writes of an append of m with offset o.
WroteTo(seg, new, m, o, w) ==
    /\ RecordsInFile(new)
    /\ DOMAIN seg.recs \subseteq DOMAIN new.recs
    /\ \A p \in DOMAIN seg.recs : new.recs[p] = seg.recs[p]
    /\ \A p \in DOMAIN new.recs : p \in DOMAIN seg.recs \/ new.recs[p] = m
    /\ Len(new.idx) = 2 * Count(new)
    /\ Count(new) = Count(seg) + (IF w = 4 THEN 1 ELSE 0)
    /\ \A n \in Entries(seg) : /\ Place(new, n) = Place(seg, n)
                               /\ new.idx[2 * n + 2] = seg.idx[2 * n + 2]
    /\ w = 4 => /\ Place(new, Count(seg)) = o
                /\ new.idx[2 * Count(seg) + 2] \in DOMAIN new.recs
                /\ RecordOf(new, Count(seg)) = m

\* What the writes of an append leave behind, except for three of them.
LEMMA WrittenWords ==
    ASSUME NEW seg, IsSegment(seg), RecordsInFile(seg), Len(seg.idx) = 2 * Count(seg),
           NEW h \in Handle, h.size = seg.bytes,
           NEW m \in Message, NEW o \in Nat, NEW w \in {0, 1, 2, 4}
    PROVE  WroteTo(seg, Written(seg, h, m, o, w), m, o, w)
  <1> DEFINE new == Written(seg, h, m, o, w)
             k == Count(seg)
  <1>1. /\ seg.bytes \in Nat /\ seg.idx \in Seq(Nat) /\ DOMAIN seg.recs \subseteq Nat
        /\ k \in Nat /\ Len(seg.idx) = 2 * k /\ m.len \in Nat \ {0}
    BY CountType, PartitionAssumption DEF IsSegment, Message
  <1>2. \A p \in DOMAIN seg.recs : p < seg.bytes
    BY DEF RecordsInFile
  <1>3. /\ new.bytes = seg.bytes + (IF w >= 1 THEN 8 ELSE 0) + (IF w >= 2 THEN m.len ELSE 0)
        /\ w < 2 => new.recs = seg.recs
        /\ ~(w < 2) => new.recs = [p \in DOMAIN seg.recs \cup {seg.bytes} |->
                                     IF p = seg.bytes THEN m ELSE seg.recs[p]]
        /\ w # 4 => new.idx = seg.idx
        /\ w = 4 => new.idx = Append(Append(seg.idx, o), seg.bytes)
    BY DEF Written, PrefixWidth
  <1> HIDE DEF new, k
  <1>4. /\ DOMAIN seg.recs \subseteq DOMAIN new.recs
        /\ \A p \in DOMAIN seg.recs : new.recs[p] = seg.recs[p]
        /\ \A p \in DOMAIN new.recs : p \in DOMAIN seg.recs \/ new.recs[p] = m
        /\ w = 4 => seg.bytes \in DOMAIN new.recs /\ new.recs[seg.bytes] = m
    <2>1. CASE w < 2
      BY <2>1, <1>3
    <2>2. CASE ~(w < 2)
      <3>1. \A p \in DOMAIN seg.recs : p # seg.bytes
        BY <1>1, <1>2
      <3>2. new.recs = [p \in DOMAIN seg.recs \cup {seg.bytes} |->
                           IF p = seg.bytes THEN m ELSE seg.recs[p]]
        BY <2>2, <1>3
      <3> QED  BY <3>1, <3>2
    <2> QED  BY <2>1, <2>2
  <1>5. \A p \in DOMAIN new.recs : p < new.bytes
    <2>1. CASE w < 2
      BY <2>1, <1>1, <1>2, <1>3
    <2>2. CASE ~(w < 2)
      <3>1. new.bytes > seg.bytes
        BY <2>2, <1>1, <1>3
      <3>2. DOMAIN new.recs = DOMAIN seg.recs \cup {seg.bytes}
        BY <2>2, <1>3
      <3>3. new.bytes \in Nat
        BY <1>1, <1>3
      <3> QED  BY <3>1, <3>2, <3>3, <1>1, <1>2
    <2> QED  BY <2>1, <2>2
  <1>6. RecordsInFile(new)
    BY <1>5 DEF RecordsInFile
  <1>7. CASE w # 4
    <2>1. new.idx = seg.idx
      BY <1>3, <1>7
    <2>2. Count(new) = k /\ Len(new.idx) = 2 * Count(new)
      BY <1>1, <2>1 DEF Count, k
    <2> QED  BY <1>1, <1>4, <1>6, <1>7, <2>1, <2>2 DEF WroteTo, new, k, Place
  <1>8. CASE w = 4
    <2>1. /\ Len(new.idx) = 2 * k + 2
          /\ \A i \in 1..(2 * k) : new.idx[i] = seg.idx[i]
          /\ new.idx[2 * k + 1] = o /\ new.idx[2 * k + 2] = seg.bytes
      <3> DEFINE s == Append(Append(seg.idx, o), seg.bytes)
      <3>1. /\ Len(s) = Len(seg.idx) + 2
            /\ \A i \in 1..Len(seg.idx) : s[i] = seg.idx[i]
            /\ s[Len(seg.idx) + 1] = o /\ s[Len(seg.idx) + 2] = seg.bytes
        BY <1>1, AppendTwice
      <3>2. new.idx = s /\ Len(seg.idx) = 2 * k
        BY <1>1, <1>3, <1>8
      <3> HIDE DEF s
      <3> QED  BY <3>1, <3>2
    <2>2. Count(new) = k + 1 /\ Len(new.idx) = 2 * Count(new)
      <3>1. (2 * k + 2) \div 2 = k + 1 /\ 2 * (k + 1) = 2 * k + 2
        BY <1>1
      <3> QED  BY <2>1, <3>1 DEF Count
    <2>3. \A n \in 0..(k - 1) : /\ new.idx[2 * n + 1] = seg.idx[2 * n + 1]
                                 /\ new.idx[2 * n + 2] = seg.idx[2 * n + 2]
      BY <1>1, <2>1
    <2> QED  BY <1>4, <1>6, <1>8, <2>1, <2>2, <2>3
             DEF WroteTo, new, k, Place, RecordOf, Entries
  <1> QED  BY <1>7, <1>8

\* The next message of the leader goes behind the ones that are there.
LEMMA WrittenPlaced ==
    ASSUME NEW b \in Nat, NEW seg, IsSegment(seg), NEW o \in Nat, Placed(b, seg, o),
           b > 0 => o > 0, NEW m, m.id = o + 1, NEW w \in {0, 1, 2, 4},
           NEW new, WroteTo(seg, new, m, o, w)
    PROVE  Placed(b, new, o + 1)
  <1> DEFINE k == Count(seg)
  <1>1. k \in Nat
    BY CountType
  <1>2. seg.recs \in [DOMAIN seg.recs -> Message] /\ \A p \in DOMAIN seg.recs : seg.recs[p].id \in Nat
    BY DEF IsSegment, Message
  <1>3. \A p \in DOMAIN new.recs : new.recs[p].id <= o + 1
    <2> SUFFICES ASSUME NEW p \in DOMAIN new.recs PROVE new.recs[p].id <= o + 1
      OBVIOUS
    <2>1. CASE p \in DOMAIN seg.recs
      <3>1. new.recs[p] = seg.recs[p]
        BY <2>1 DEF WroteTo
      <3>2. seg.recs[p].id \in Nat /\ seg.recs[p].id <= o
        BY <1>2, <2>1 DEF Placed
      <3> QED  BY <3>1, <3>2
    <2>2. CASE p \notin DOMAIN seg.recs
      <3>1. new.recs[p] = m
        BY <2>2 DEF WroteTo
      <3> QED  BY <3>1
    <2> QED  BY <2>1, <2>2
  <1>4. \A n \in Entries(seg) :
           /\ seg.idx[2 * n + 2] \in DOMAIN seg.recs
           /\ RecordOf(seg, n).id = Place(seg, n) + 1
           /\ Place(seg, n) \in Nat /\ Place(seg, n) >= n /\ Place(seg, n) < o
           /\ b > 0 => Place(seg, n) > n
           /\ \A i \in Entries(seg) : i < n => Place(seg, i) < Place(seg, n)
    BY DEF Placed, InPlace
  <1>5. \A n \in Entries(seg) : /\ new.idx[2 * n + 2] \in DOMAIN new.recs
                                /\ Place(new, n) = Place(seg, n)
                                /\ RecordOf(new, n) = RecordOf(seg, n)
    BY <1>4 DEF WroteTo, RecordOf
  <1>6. Entries(new) = Entries(seg) \/ (w = 4 /\ Entries(new) = Entries(seg) \cup {k})
    <2>1. CASE w = 4
      <3>1. Count(new) = k + 1
        BY <2>1 DEF WroteTo
      <3> QED  BY <1>1, <2>1, <3>1 DEF Entries
    <2>2. CASE w # 4
      <3>1. Count(new) = k
        BY <1>1, <2>2 DEF WroteTo
      <3> QED  BY <3>1 DEF Entries
    <2> QED  BY <2>1, <2>2
  <1>7. w = 4 => /\ new.idx[2 * k + 2] \in DOMAIN new.recs
                 /\ Place(new, k) = o /\ RecordOf(new, k).id = o + 1
    BY DEF WroteTo
  <1>8. o >= k /\ (b > 0 => o > k)
    <2>1. CASE k = 0
      BY <2>1
    <2>2. CASE k > 0
      <3>1. k - 1 \in Entries(seg)
        BY <1>1, <2>2 DEF Entries
      <3>2. /\ Place(seg, k - 1) \in Nat /\ Place(seg, k - 1) >= k - 1 /\ Place(seg, k - 1) < o
            /\ b > 0 => Place(seg, k - 1) > k - 1
        BY <1>4, <3>1
      <3> HIDE DEF k
      <3> QED  BY <1>1, <3>2
    <2> QED  BY <1>1, <2>1, <2>2
  <1>9. \A n \in Entries(seg) : n \in Nat /\ n < k
    BY <1>1 DEF Entries
  <1> HIDE DEF k
  <1>10. InPlace(b, new, o + 1)
    <2> SUFFICES ASSUME NEW n \in Entries(new)
                 PROVE  /\ new.idx[2 * n + 2] \in DOMAIN new.recs
                        /\ RecordOf(new, n).id = Place(new, n) + 1
                        /\ Place(new, n) \in Nat /\ Place(new, n) >= n /\ Place(new, n) < o + 1
                        /\ b > 0 => Place(new, n) > n
                        /\ \A i \in Entries(new) : i < n => Place(new, i) < Place(new, n)
      BY DEF InPlace
    <2>1. CASE n \in Entries(seg)
      <3>1. \A i \in Entries(new) : i < n => i \in Entries(seg)
        BY <1>1, <1>6, <1>9, <2>1
      <3>2. Place(new, n) \in Nat /\ Place(new, n) < o
        BY <1>4, <1>5, <2>1
      <3> QED  BY <1>4, <1>5, <2>1, <3>1, <3>2
    <2>2. CASE n \notin Entries(seg)
      <3>1. w = 4 /\ n = k
        BY <1>6, <2>2
      <3>2. \A i \in Entries(new) : i < n => Place(new, i) < o
        BY <1>1, <1>4, <1>5, <1>6, <3>1
      <3> QED  BY <1>1, <1>7, <1>8, <3>1, <3>2
    <2> QED  BY <2>1, <2>2
  <1> QED  BY <1>3, <1>10 DEF Placed, WroteTo

----------------------------------------------------------------------------
(* Directories.                                                            *)

\* What a later limit allows.
LEMMA PlacedLater ==
    ASSUME NEW b, NEW seg, IsSegment(seg), NEW lim \in Nat, NEW later \in Nat, lim <= later,
           Placed(b, seg, lim)
    PROVE  Placed(b, seg, later)
  <1>1. \A p \in DOMAIN seg.recs : seg.recs[p].id <= later
    <2> SUFFICES ASSUME NEW p \in DOMAIN seg.recs PROVE seg.recs[p].id <= later
      OBVIOUS
    <2>1. seg.recs[p] \in Message
      BY DEF IsSegment
    <2>2. seg.recs[p].id \in Nat /\ seg.recs[p].id <= lim
      BY <2>1 DEF Placed, Message
    <2> QED  BY <2>2
  <1>2. InPlace(b, seg, later)
    BY DEF Placed, InPlace
  <1> QED  BY <1>1, <1>2 DEF Placed

\* A segment that was just created has nothing out of place.
LEMMA EmptyPlaced ==
    ASSUME NEW b, NEW lim
    PROVE  Placed(b, EmptySegment, lim) /\ Entries(EmptySegment) = {}
           /\ DOMAIN EmptySegment.recs = {}
  <1>1. /\ EmptySegment.idx = <<>> /\ EmptySegment.recs = <<>> /\ EmptySegment.bytes = 0
        /\ Count(EmptySegment) = 0 /\ DOMAIN EmptySegment.recs = {} /\ Len(EmptySegment.idx) = 0
    BY EmptySegmentType DEF EmptySegment
  <1>2. Entries(EmptySegment) = {}
    BY <1>1 DEF Entries
  <1> QED  BY <1>1, <1>2 DEF Placed, InPlace, RecordsInFile

\* A new segment changes nothing that is stored.
LEMMA CreatedCopy ==
    ASSUME NEW d, DiskOK(d), NEW as, NEW lim, CopyDisk(d, as, lim),
           NEW base \in Nat, base > 0 => lim > 0
    PROVE  CopyDisk(Created(d, base), as, lim)
  <1> DEFINE e == Created(d, base)
  <1>1. /\ DOMAIN e = DOMAIN d \cup {base}
        /\ \A b \in DOMAIN d : e[b] = d[b]
        /\ base \notin DOMAIN d => e[base] = EmptySegment
    BY CreatedType
  <1> HIDE DEF e
  <1>2. 0 \in DOMAIN e /\ e[0] = d[0]
    BY <1>1 DEF CopyDisk
  <1>3. \A b \in DOMAIN e : Placed(b, e[b], lim) /\ (b > 0 => lim > 0)
    BY <1>1, EmptyPlaced DEF CopyDisk
  <1>4. UniqueIds(e)
    <2>1. \A b \in DOMAIN e : b \notin DOMAIN d => DOMAIN e[b].recs = {}
      BY <1>1, EmptyPlaced
    <2> QED  BY <1>1, <2>1 DEF CopyDisk, UniqueIds
  <1>5. \A a \in as : Entered(e, a)
    BY <1>1 DEF CopyDisk, Entered
  <1>6. Gaps(e[0], as)
    BY <1>2 DEF CopyDisk
  <1> QED  BY <1>2, <1>3, <1>4, <1>5, <1>6 DEF CopyDisk, e

\* e is d after w writes of an append of m, the leader's message at offset o.
CopyWrite(d, e, as, m, o, w) ==
    /\ DOMAIN e = DOMAIN d
    /\ CopyDisk(e, as, o + 1)
    /\ \A r : w = 4 /\ r.offset = o /\ r.msg = m => CopyDisk(e, as \cup {r}, o + 1)
    /\ \A n \in Entries(e[0]) :
          \/ n \in Entries(d[0]) /\ Place(e[0], n) = Place(d[0], n)
          \/ Place(e[0], n) = o

\* Appending the next message to the last segment keeps the directory in order.
LEMMA WriteCopy ==
    ASSUME NEW d, DiskOK(d), NEW as, \A a \in as : a.offset \in Nat,
           NEW o \in Nat, CopyDisk(d, as, o),
           NEW h \in Handle, h.base \in DOMAIN d, h.size = d[h.base].bytes, OnLast(d, h),
           NEW m \in Message, m.id = o + 1, NEW w \in {0, 1, 2, 4},
           NEW e, e = [d EXCEPT ![h.base] = Written(d[h.base], h, m, o, w)]
    PROVE  CopyWrite(d, e, as, m, o, w)
  <1> DEFINE seg == d[h.base]
             new == Written(seg, h, m, o, w)
             k == Count(seg)
  <1>1. /\ DOMAIN e = DOMAIN d /\ e[h.base] = new
        /\ \A b \in DOMAIN d : b # h.base => e[b] = d[b]
    <2>1. d = [b \in DOMAIN d |-> d[b]]
      BY DEF DiskOK
    <2> QED  BY <2>1
  <1>2. /\ h.base \in Nat /\ IsSegment(seg) /\ Placed(h.base, seg, o) /\ (h.base > 0 => o > 0)
        /\ Len(seg.idx) = 2 * Count(seg) /\ RecordsInFile(seg)
    BY DEF DiskOK, CopyDisk, Placed
  <1>3. WroteTo(seg, new, m, o, w)
    BY <1>2, WrittenWords
  <1> HIDE DEF new, seg
  <1>4. Placed(h.base, new, o + 1)
    BY <1>2, <1>3, WrittenPlaced
  <1>5. k \in Nat /\ seg = d[h.base]
    BY <1>2, CountType DEF seg
  <1>6. \A b \in DOMAIN d : b \in Nat /\ IsSegment(d[b]) /\ b <= h.base
    BY DEF DiskOK, OnLast
  <1>7. \A b \in DOMAIN e : Placed(b, e[b], o + 1) /\ (b > 0 => o + 1 > 0)
    <2> SUFFICES ASSUME NEW b \in DOMAIN e PROVE Placed(b, e[b], o + 1)
      OBVIOUS
    <2>1. CASE b = h.base
      BY <1>1, <1>4, <2>1
    <2>2. CASE b # h.base
      <3>1. b \in DOMAIN d /\ e[b] = d[b] /\ Placed(b, d[b], o) /\ IsSegment(d[b])
        BY <1>1, <1>6, <2>2 DEF CopyDisk
      <3> QED  BY <3>1, PlacedLater
    <2> QED  BY <2>1, <2>2
  <1>8. UniqueIds(e)
    <2>1. \A b \in DOMAIN e : \A p \in DOMAIN e[b].recs :
             \/ b \in DOMAIN d /\ p \in DOMAIN d[b].recs /\ e[b].recs[p] = d[b].recs[p]
             \/ b = h.base /\ e[b].recs[p].id = o + 1
      <3> SUFFICES ASSUME NEW b \in DOMAIN e, NEW p \in DOMAIN e[b].recs
                   PROVE  \/ b \in DOMAIN d /\ p \in DOMAIN d[b].recs /\ e[b].recs[p] = d[b].recs[p]
                          \/ b = h.base /\ e[b].recs[p].id = o + 1
        OBVIOUS
      <3>1. CASE b = h.base
        BY <1>1, <1>3, <1>5, <3>1 DEF WroteTo
      <3>2. CASE b # h.base
        BY <1>1, <3>2
      <3> QED  BY <3>1, <3>2
    <2>2. \A b \in DOMAIN d : \A p \in DOMAIN d[b].recs : d[b].recs[p].id # o + 1
      <3> SUFFICES ASSUME NEW b \in DOMAIN d, NEW p \in DOMAIN d[b].recs
                   PROVE  d[b].recs[p].id # o + 1
        OBVIOUS
      <3>1. d[b].recs[p] \in Message
        BY <1>6 DEF IsSegment
      <3>2. d[b].recs[p].id \in Nat /\ d[b].recs[p].id <= o
        BY <3>1 DEF Message, CopyDisk, Placed
      <3> QED  BY <3>2
    <2>3. UniqueIds(d)
      BY DEF CopyDisk
    <2> SUFFICES ASSUME NEW b \in DOMAIN e, NEW c \in DOMAIN e,
                        NEW p \in DOMAIN e[b].recs, NEW q \in DOMAIN e[c].recs,
                        e[b].recs[p].id = e[c].recs[q].id
                 PROVE  b = c
      BY DEF UniqueIds
    <2> QED  BY <2>1, <2>2, <2>3 DEF UniqueIds
  <1>9. \A a : Entered(d, a) => Entered(e, a)
    <2> SUFFICES ASSUME NEW a, Entered(d, a) PROVE Entered(e, a)
      OBVIOUS
    <2>1. PICK b \in DOMAIN d : EnteredIn(d[b], a)
      BY DEF Entered
    <2>2. CASE b = h.base
      <3>1. PICK n \in Entries(seg) : Place(seg, n) = a.offset /\ RecordOf(seg, n) = a.msg
        BY <1>5, <2>1, <2>2 DEF EnteredIn
      <3>2. n \in Entries(new)
        <4>1. Count(new) = k \/ Count(new) = k + 1
          BY <1>3, <1>5 DEF WroteTo
        <4> HIDE DEF k
        <4>2. n \in 0..(k - 1)
          BY DEF Entries, k
        <4> QED  BY <1>5, <4>1, <4>2 DEF Entries
      <3>3. seg.idx[2 * n + 2] \in DOMAIN seg.recs
        BY <1>2 DEF Placed, InPlace
      <3>4. Place(new, n) = a.offset /\ RecordOf(new, n) = a.msg
        BY <1>3, <3>1, <3>3 DEF WroteTo, RecordOf
      <3> QED  BY <1>1, <2>2, <3>2, <3>4 DEF Entered, EnteredIn
    <2>3. CASE b # h.base
      BY <1>1, <2>1, <2>3 DEF Entered
    <2> QED  BY <2>2, <2>3
  <1>10. \A n \in Entries(e[0]) :
           \/ n \in Entries(d[0]) /\ Place(e[0], n) = Place(d[0], n)
           \/ Place(e[0], n) = o /\ h.base = 0 /\ n = k
    <2> SUFFICES ASSUME NEW n \in Entries(e[0])
                 PROVE  \/ n \in Entries(d[0]) /\ Place(e[0], n) = Place(d[0], n)
                        \/ Place(e[0], n) = o /\ h.base = 0 /\ n = k
      OBVIOUS
    <2>1. CASE h.base # 0
      <3>1. e[0] = d[0]
        BY <1>1, <2>1 DEF CopyDisk
      <3> QED  BY <3>1
    <2>2. CASE h.base = 0
      <3>1. e[0] = new /\ d[0] = seg
        BY <1>1, <1>5, <2>2
      <3>2. CASE w = 4
        <4>1. Count(new) = k + 1 /\ Place(new, k) = o
          BY <1>3, <3>2 DEF WroteTo
        <4> HIDE DEF k
        <4>2. n \in 0..(k - 1) \/ n = k
          BY <1>5, <3>1, <4>1 DEF Entries
        <4>3. n \in 0..(k - 1) => n \in Entries(seg)
          BY DEF Entries, k
        <4>4. n \in Entries(seg) => Place(new, n) = Place(seg, n)
          BY <1>3 DEF WroteTo
        <4> QED  BY <2>2, <3>1, <4>1, <4>2, <4>3, <4>4
      <3>3. CASE w # 4
        <4>1. Count(new) = k
          BY <1>3, <1>5, <3>3 DEF WroteTo
        <4>2. n \in Entries(seg)
          BY <3>1, <4>1 DEF Entries
        <4> QED  BY <1>3, <3>1, <4>2 DEF WroteTo
      <3> QED  BY <3>2, <3>3
    <2> QED  BY <2>1, <2>2
  <1>11. ASSUME NEW bs, \A c \in bs : c \in as \/ c.offset = o PROVE Gaps(e[0], bs)
    <2> SUFFICES ASSUME NEW n \in Entries(e[0])
                 PROVE  \/ Place(e[0], n) = n
                        \/ \E g \in Nat : g < Place(e[0], n) /\ \A c \in bs : c.offset # g
      BY DEF Gaps
    <2>1. Gaps(d[0], as) /\ InPlace(0, d[0], o)
      BY DEF CopyDisk, Placed
    <2>2. CASE n \in Entries(d[0]) /\ Place(e[0], n) = Place(d[0], n)
      <3>1. Place(d[0], n) \in Nat /\ Place(d[0], n) < o
        BY <2>1, <2>2 DEF InPlace
      <3>2. CASE Place(d[0], n) = n
        BY <2>2, <3>2
      <3>3. CASE \E g \in Nat : g < Place(d[0], n) /\ \A c \in as : c.offset # g
        <4>1. PICK g \in Nat : g < Place(d[0], n) /\ \A c \in as : c.offset # g
          BY <3>3
        <4>2. g # o
          BY <3>1, <4>1
        <4>3. \A c \in bs : c.offset # g
          BY <1>11, <4>1, <4>2
        <4> QED  BY <2>2, <4>1, <4>3
      <3> QED  BY <2>1, <2>2, <3>2, <3>3 DEF Gaps
    <2>3. CASE Place(e[0], n) = o /\ h.base = 0 /\ n = k
      <3>1. d[0] = seg
        BY <1>5, <2>3
      <3>2. o >= k
        <4>1. CASE k = 0
          BY <4>1
        <4>2. CASE k > 0
          <5>1. k - 1 \in Entries(seg)
            BY <1>5, <4>2 DEF Entries
          <5>2. Place(seg, k - 1) \in Nat /\ Place(seg, k - 1) >= k - 1 /\ Place(seg, k - 1) < o
            BY <2>1, <3>1, <5>1 DEF InPlace
          <5> HIDE DEF k
          <5> QED  BY <1>5, <5>2
        <4> QED  BY <1>5, <4>1, <4>2
      <3>3. \A c \in as : \E i \in Entries(seg) : Place(seg, i) = c.offset
        <4> SUFFICES ASSUME NEW c \in as PROVE \E i \in Entries(seg) : Place(seg, i) = c.offset
          OBVIOUS
        <4>1. PICK b \in DOMAIN d : EnteredIn(d[b], c)
          BY DEF CopyDisk, Entered
        <4>2. b = 0
          BY <1>6, <2>3
        <4> QED  BY <3>1, <4>1, <4>2 DEF EnteredIn
      <3>4. CASE o = k
        BY <2>3, <3>4
      <3>5. CASE o # k /\ k = 0
        <4>1. Entries(seg) = {}
          BY <3>5 DEF Entries
        <4>2. \A c \in bs : c.offset # 0
          BY <1>11, <3>3, <3>5, <4>1
        <4>3. 0 < o
          BY <3>5
        <4> QED  BY <2>3, <4>2, <4>3
      <3>6. CASE o # k /\ k > 0
        <4> DEFINE j == k - 1
        <4>1. j \in Entries(seg) /\ \A i \in Entries(seg) : i = j \/ i < j
          BY <1>5, <3>6 DEF Entries
        <4>2. Place(seg, j) \in Nat /\ Place(seg, j) < o
          BY <2>1, <3>1, <4>1 DEF InPlace
        <4>3. CASE Place(seg, j) = j
          <5>1. \A i \in Entries(seg) : Place(seg, i) \in Nat /\ Place(seg, i) <= j
            <6> SUFFICES ASSUME NEW i \in Entries(seg)
                         PROVE  Place(seg, i) \in Nat /\ Place(seg, i) <= j
              OBVIOUS
            <6>1. Place(seg, i) \in Nat
              BY <2>1, <3>1 DEF InPlace
            <6>2. i < j => Place(seg, i) < Place(seg, j)
              BY <2>1, <3>1, <4>1 DEF InPlace
            <6>3. j \in Nat
              BY <4>2, <4>3
            <6> HIDE DEF j
            <6> QED  BY <4>1, <4>3, <6>1, <6>2, <6>3
          <5>2. \A c \in as : c.offset # k
            <6> SUFFICES ASSUME NEW c \in as, c.offset = k PROVE FALSE
              OBVIOUS
            <6>1. PICK i \in Entries(seg) : Place(seg, i) = k
              BY <3>3
            <6>2. k <= k - 1
              BY <5>1, <6>1
            <6> HIDE DEF k
            <6> QED  BY <1>5, <6>2
          <5>3. \A c \in bs : c.offset # k
            BY <1>11, <3>6, <5>2
          <5>4. k < o
            <6> HIDE DEF k
            <6> QED  BY <1>5, <3>2, <3>6
          <5> QED  BY <1>5, <2>3, <5>3, <5>4
        <4>4. CASE Place(seg, j) # j
          <5>1. PICK g \in Nat : g < Place(seg, j) /\ \A c \in as : c.offset # g
            BY <2>1, <3>1, <4>1, <4>4 DEF Gaps
          <5>2. g < o /\ g # o
            BY <4>2, <5>1
          <5>3. \A c \in bs : c.offset # g
            BY <1>11, <5>1, <5>2
          <5> QED  BY <2>3, <5>2, <5>3
        <4> QED  BY <4>3, <4>4
      <3> QED  BY <1>5, <3>4, <3>5, <3>6
    <2> QED  BY <1>10, <2>2, <2>3
  <1>12. 0 \in DOMAIN e
    BY <1>1 DEF CopyDisk
  <1>13. CopyDisk(e, as, o + 1)
    BY <1>7, <1>8, <1>9, <1>11, <1>12 DEF CopyDisk
  <1>14. ASSUME NEW r, w = 4, r.offset = o, r.msg = m PROVE CopyDisk(e, as \cup {r}, o + 1)
    <2>1. Entered(e, r)
      <3>1. Count(new) = k + 1 /\ Place(new, k) = o /\ RecordOf(new, k) = m
        BY <1>3, <1>14 DEF WroteTo
      <3>2. k \in Entries(new)
        BY <1>5, <3>1 DEF Entries
      <3> QED  BY <1>1, <1>14, <3>1, <3>2 DEF Entered, EnteredIn
    <2>2. Gaps(e[0], as \cup {r})
      BY <1>11, <1>14
    <2>3. \A a \in as \cup {r} : Entered(e, a)
      BY <1>13, <2>1 DEF CopyDisk
    <2> QED  BY <1>7, <1>8, <1>12, <2>2, <2>3 DEF CopyDisk
  <1> QED  BY <1>1, <1>10, <1>13, <1>14 DEF CopyWrite

\* What a later limit allows, for a directory.
LEMMA LaterCopy ==
    ASSUME NEW d, DiskOK(d), NEW as, NEW lim \in Nat, NEW later \in Nat, lim <= later,
           CopyDisk(d, as, lim)
    PROVE  CopyDisk(d, as, later)
  <1>1. ASSUME NEW b \in DOMAIN d PROVE Placed(b, d[b], later) /\ (b > 0 => later > 0)
    <2>1. IsSegment(d[b]) /\ Placed(b, d[b], lim) /\ (b > 0 => lim > 0)
      BY DEF DiskOK, CopyDisk
    <2> QED  BY <2>1, PlacedLater
  <1> QED  BY <1>1 DEF CopyDisk

\* Every entry of a directory is for an offset below the limit.
LEMMA EnteredBelow ==
    ASSUME NEW d, NEW as, NEW lim, CopyDisk(d, as, lim)
    PROVE  /\ \A b \in DOMAIN d : \A n \in Entries(d[b]) : Place(d[b], n) < lim
           /\ \A a \in as : a.offset < lim
  BY DEF CopyDisk, Placed, InPlace, Entered, EnteredIn

\* The files and the handle that an append comes to write to.
LEMMA RolledCopy ==
    ASSUME TypeOK, NEW lim \in Nat, CopyDisk(disk, acked, lim),
           logs[active].next > 0 => lim > 0,
           logs[active].size = disk[logs[active].base].bytes, OnLast(disk, logs[active])
    PROVE  /\ CopyDisk(Rolled.disk, acked, lim)
           /\ Target.size = Rolled.disk[Target.base].bytes
           /\ OnLast(Rolled.disk, Target)
           /\ DOMAIN disk \subseteq DOMAIN Rolled.disk
           /\ Rolled.disk[0] = disk[0]
  <1> DEFINE act == logs[active]
  <1>1. /\ DiskOK(disk) /\ act \in Handle /\ act.base \in DOMAIN disk
        /\ RollBase \in Nat /\ logs \in Seq(Handle)
    BY RollBaseType DEF TypeOK, HandlesOK
  <1>2. act.base \in Nat /\ act.next \in Nat /\ RollBase = act.base + act.next
    BY <1>1 DEF Handle, RollBase
  <1>3. CASE ShouldRoll
    <2> DEFINE d == Created(disk, RollBase)
               h == LoadLog(d, RollBase)
    <2>1. Rolled = [disk |-> d, logs |-> Append(logs, h), active |-> Len(logs) + 1]
      BY <1>3 DEF Rolled
    <2>2. /\ DOMAIN d = DOMAIN disk \cup {RollBase}
          /\ \A b \in DOMAIN disk : d[b] = disk[b]
      BY <1>1, CreatedType
    <2>3. h.base = RollBase /\ h.size = d[RollBase].bytes /\ h \in Handle
      BY <1>1, <2>2, CreatedType, LoadLogType DEF LoadLog
    <2>4. RollBase > 0 => lim > 0
      <3>1. act.base > 0 => lim > 0
        BY <1>1 DEF CopyDisk
      <3>2. act.next > 0 => lim > 0
        OBVIOUS
      <3> HIDE DEF act
      <3> QED  BY <1>2, <3>1, <3>2
    <2>5. CopyDisk(d, acked, lim)
      BY <1>1, <2>4, CreatedCopy
    <2>6. \A b \in DOMAIN disk : b \in Nat /\ b <= act.base
      BY <1>1 DEF OnLast, DiskOK
    <2>7. Target = Append(logs, h)[Len(logs) + 1]
      BY <2>1 DEF Target
    <2> HIDE DEF d, h
    <2>8. Target = h
      BY <1>1, <2>3, <2>7
    <2>9. OnLast(d, h)
      <3> HIDE DEF act
      <3> QED  BY <1>2, <2>2, <2>3, <2>6 DEF OnLast
    <2>10. 0 \in DOMAIN disk
      BY DEF CopyDisk
    <2> QED  BY <2>1, <2>2, <2>3, <2>5, <2>8, <2>9, <2>10
  <1>4. CASE ~ShouldRoll
    <2>1. Rolled = [disk |-> disk, logs |-> logs, active |-> active]
      BY <1>4 DEF Rolled
    <2>2. Target = logs[active] /\ Rolled.disk = disk
      BY <2>1 DEF Target
    <2> QED  BY <2>2
  <1> QED  BY <1>3, <1>4

\* After a start the first handle is on the segment at 0, and the active one
\* is on the last segment and agrees with its files.
LEMMA LoadedCopy ==
    ASSUME NEW d, DiskOK(d), NEW as, NEW lim \in Nat, CopyDisk(d, as, lim), LoadPartition(d)
    PROVE  /\ HandlesOK(d, logs', active') /\ HandlesOK(d, logs', 1)
           /\ logs'[1].base = 0 /\ logs'[1].next = Count(d[0])
           /\ logs'[active'].size = d[logs'[active'].base].bytes
           /\ OnLast(d, logs'[active'])
           /\ logs'[active'].next > 0 => lim > 0
           /\ maxSize' \in Nat
  <1>1. 0 \in DOMAIN d /\ DOMAIN d \subseteq Nat
    BY DEF CopyDisk, DiskOK
  <1>2. /\ HandlesOK(d, logs', active')
        /\ \A i \in DOMAIN logs' : logs'[i] = LoadLog(d, logs'[i].base)
        /\ \A b \in DOMAIN d : b <= logs'[active'].base
        /\ maxSize' \in Nat
    BY <1>1, LoadPartitionLoads
  <1>3. 1 \in DOMAIN logs' /\ logs'[1].base = 0
    <2>1. PICK files \in ReadDir(DOMAIN d) : logs' = [i \in DOMAIN files |-> LoadLog(d, files[i])]
      BY DEF LoadPartition
    <2> DEFINE n == Cardinality(DOMAIN d)
    <2>2. /\ files \in [1..n -> DOMAIN d]
          /\ \A b \in DOMAIN d : \E i \in 1..n : files[i] = b
          /\ \A i, j \in 1..n : i < j => files[i] < files[j]
      BY DEF ReadDir
    <2>3. n \in Nat
      BY FS_CardinalityType DEF DiskOK
    <2> HIDE DEF n
    <2>4. PICK i \in 1..n : files[i] = 0
      BY <1>1, <2>2
    <2>5. 1 \in 1..n /\ files[1] \in Nat
      BY <1>1, <2>2, <2>3, <2>4
    <2>6. files[1] = 0
      <3>1. CASE i = 1
        BY <2>4, <3>1
      <3>2. CASE 1 < i
        BY <2>2, <2>4, <2>5, <3>2
      <3> QED  BY <2>3, <2>4, <3>1, <3>2
    <2>7. logs'[1] = LoadLog(d, 0) /\ 1 \in DOMAIN logs'
      BY <2>1, <2>2, <2>5, <2>6
    <2> QED  BY <2>7 DEF LoadLog
  <1>4. logs'[1].next = Count(d[0])
    BY <1>2, <1>3 DEF LoadLog
  <1>5. HandlesOK(d, logs', 1)
    BY <1>2, <1>3 DEF HandlesOK
  <1>6. OnLast(d, logs'[active'])
    BY <1>2 DEF OnLast
  <1>7. /\ active' \in DOMAIN logs' /\ logs'[active'].base \in DOMAIN d
        /\ logs'[active'] = LoadLog(d, logs'[active'].base)
    BY <1>2 DEF HandlesOK
  <1>8. /\ logs'[active'].size = d[logs'[active'].base].bytes
        /\ logs'[active'].next = Count(d[logs'[active'].base])
    BY <1>7 DEF LoadLog
  <1>9. logs'[active'].next > 0 => lim > 0
    <2> DEFINE seg == d[logs'[active'].base]
    <2> SUFFICES ASSUME Count(seg) > 0 PROVE lim > 0
      BY <1>8
    <2>1. Count(seg) \in Nat /\ InPlace(logs'[active'].base, seg, lim)
      BY <1>7, CountType DEF DiskOK, CopyDisk, Placed
    <2> HIDE DEF seg
    <2>2. 0 \in Entries(seg)
      BY <2>1 DEF Entries
    <2>3. Place(seg, 0) \in Nat /\ Place(seg, 0) < lim
      BY <2>1, <2>2 DEF InPlace
    <2> QED  BY <2>3
  <1> QED  BY <1>2, <1>3, <1>4, <1>5, <1>6, <1>8, <1>9

----------------------------------------------------------------------------
(* The fetcher.                                                            *)

\* The next message of a batch is the lowest one, and every other message
\* that is still to come is behind it.
LEMMA BatchHead ==
    ASSUME BatchInv, batch # <<>>
    PROVE  /\ Offset \in Nat /\ Pending = Offset /\ Offset + 1 <= sent
           /\ Fetched \in Message /\ Fetched.id = Offset + 1
           /\ Tail(batch) \in Seq(Item)
           /\ \A i \in DOMAIN Tail(batch) : Tail(batch)[i] = batch[i + 1] /\ i + 1 \in DOMAIN batch
           /\ Tail(batch) # <<>> => Offset + 1 <= Head(Tail(batch)).offset
  <1>1. batch \in Seq(Item) /\ sent \in Nat
    BY DEF BatchInv
  <1>2. /\ Len(batch) \in Nat /\ 1 \in DOMAIN batch /\ DOMAIN batch = 1..Len(batch)
        /\ Head(batch) = batch[1] /\ batch[1] \in Item
    BY <1>1
  <1>3. Offset \in Nat /\ Pending = Offset /\ Head(batch).len \in Lengths
    BY <1>2 DEF Offset, Pending, Item
  <1>4. Offset < sent
    BY <1>2 DEF BatchInv, Offset
  <1>5. Fetched \in Message /\ Fetched.id = Offset + 1
    BY <1>3 DEF Fetched, LeaderMessage, Message
  <1>6. /\ Tail(batch) \in Seq(Item)
        /\ DOMAIN Tail(batch) = 1..(Len(batch) - 1)
        /\ \A i \in 1..(Len(batch) - 1) : Tail(batch)[i] = batch[i + 1]
    BY <1>1
  <1>7. \A i \in DOMAIN Tail(batch) : Tail(batch)[i] = batch[i + 1] /\ i + 1 \in DOMAIN batch
    BY <1>2, <1>6
  <1>8. ASSUME Tail(batch) # <<>> PROVE Offset + 1 <= Head(Tail(batch)).offset
    <2>1. 1 \in DOMAIN Tail(batch) /\ Head(Tail(batch)) = Tail(batch)[1]
      BY <1>6, <1>8
    <2>2. Tail(batch)[1] = batch[2] /\ 2 \in DOMAIN batch
      BY <1>7, <2>1
    <2>3. batch[1].offset < batch[2].offset
      BY <1>2, <2>2 DEF BatchInv
    <2>4. batch[2] \in Item
      BY <1>1, <2>2
    <2> QED  BY <1>2, <1>3, <2>1, <2>2, <2>3, <2>4 DEF Offset, Item
  <1> QED  BY <1>1, <1>3, <1>4, <1>5, <1>6, <1>7, <1>8

\* What may still come lies below what was not sent yet.
LEMMA PendingBound == BatchInv => Pending \in Nat /\ Pending <= sent
  <1> SUFFICES ASSUME BatchInv PROVE Pending \in Nat /\ Pending <= sent
    OBVIOUS
  <1>1. CASE batch = <<>>
    BY <1>1 DEF BatchInv, Pending
  <1>2. CASE batch # <<>>
    BY <1>2, BatchHead DEF BatchInv
  <1> QED  BY <1>1, <1>2

\* An answer brings messages that were not sent before.
LEMMA AnswerBatch ==
    ASSUME BatchInv, FetchLog
    PROVE  BatchInv' /\ Pending' \in Nat /\ Pending <= Pending'
  <1>0. sent \in Nat /\ Pending \in Nat /\ Pending <= sent
    BY PendingBound DEF BatchInv
  <1>1. PICK answer \in Answers :
           /\ batch' = answer
           /\ sent' = IF answer = <<>> THEN sent ELSE answer[Len(answer)].offset + 1
    BY DEF FetchLog
  <1>2. PICK n \in 0..MaxBatch :
           /\ answer \in [1..n -> [offset : sent..(LeaderEnd - 1), len : Lengths]]
           /\ \A i, j \in 1..n : i < j => answer[i].offset < answer[j].offset
    BY DEF Answers
  <1>3. n \in Nat
    BY <1>2, ReplicaAssumption
  <1>4. \A i \in 1..n : /\ answer[i] \in Item
                        /\ answer[i].offset \in Nat /\ sent <= answer[i].offset
    BY <1>0, <1>2, ReplicaAssumption DEF Item
  <1>5. answer \in Seq(Item) /\ Len(answer) = n /\ DOMAIN answer = 1..n
    <2>1. answer \in [1..n -> Item]
      BY <1>2, <1>4
    <2> QED  BY <1>3, <2>1
  <1>6. CASE n = 0
    <2>1. answer = <<>>
      BY <1>5, <1>6
    <2>2. batch' = <<>> /\ sent' = sent
      BY <1>1, <2>1
    <2>3. BatchInv'
      BY <1>0, <2>2 DEF BatchInv
    <2>4. Pending' = sent
      BY <2>2 DEF Pending
    <2> QED  BY <1>0, <2>3, <2>4
  <1>7. CASE n # 0
    <2>1. answer # <<>> /\ 1 \in 1..n /\ n \in 1..n /\ Head(answer) = answer[1]
      BY <1>3, <1>5, <1>7
    <2>2. sent' = answer[n].offset + 1
      BY <1>1, <1>5, <2>1
    <2>3. \A i \in 1..n : answer[i].offset < answer[n].offset + 1
      <3> SUFFICES ASSUME NEW i \in 1..n PROVE answer[i].offset < answer[n].offset + 1
        OBVIOUS
      <3>1. i = n \/ answer[i].offset < answer[n].offset
        BY <1>2, <1>3, <2>1
      <3>2. answer[i].offset \in Nat /\ answer[n].offset \in Nat
        BY <1>4, <2>1
      <3> QED  BY <3>1, <3>2
    <2>4. BatchInv'
      BY <1>1, <1>2, <1>4, <1>5, <2>1, <2>2, <2>3 DEF BatchInv
    <2>5. Pending' = answer[1].offset
      BY <1>1, <2>1 DEF Pending
    <2>6. Pending' \in Nat /\ sent <= Pending'
      BY <1>4, <2>1, <2>5
    <2> QED  BY <1>0, <2>4, <2>6
  <1> QED  BY <1>6, <1>7

\* After an append the fetcher is one message further.
LEMMA BatchTail ==
    ASSUME BatchInv, batch # <<>>, sent' = sent, batch' = Tail(batch) \/ batch' = <<>>
    PROVE  BatchInv' /\ Pending' \in Nat /\ Offset + 1 <= Pending'
  <1>1. /\ Offset \in Nat /\ Offset + 1 <= sent
        /\ Tail(batch) \in Seq(Item)
        /\ \A i \in DOMAIN Tail(batch) : Tail(batch)[i] = batch[i + 1] /\ i + 1 \in DOMAIN batch
        /\ Tail(batch) # <<>> => Offset + 1 <= Head(Tail(batch)).offset
    BY BatchHead
  <1>2. CASE batch' = <<>>
    <2>1. BatchInv'
      BY <1>2 DEF BatchInv
    <2>2. Pending' = sent
      BY <1>2 DEF Pending
    <2> QED  BY <1>1, <2>1, <2>2 DEF BatchInv
  <1>3. CASE batch' = Tail(batch) /\ batch' # <<>>
    <2> DEFINE t == Tail(batch)
    <2>1. \A i \in DOMAIN t : t[i].offset < sent
      BY <1>1 DEF BatchInv
    <2>2. \A i, j \in DOMAIN t : i < j => t[i].offset < t[j].offset
      <3> SUFFICES ASSUME NEW i \in DOMAIN t, NEW j \in DOMAIN t, i < j
                   PROVE  t[i].offset < t[j].offset
        OBVIOUS
      <3>1. /\ t[i] = batch[i + 1] /\ i + 1 \in DOMAIN batch
            /\ t[j] = batch[j + 1] /\ j + 1 \in DOMAIN batch
        BY <1>1
      <3>2. i \in Nat /\ j \in Nat
        BY <1>1
      <3>3. i + 1 < j + 1
        BY <3>2
      <3> QED  BY <3>1, <3>3 DEF BatchInv
    <2> HIDE DEF t
    <2>3. batch' = t /\ t \in Seq(Item)
      BY <1>1, <1>3 DEF t
    <2>4. t[1] \in Item /\ Head(t) = t[1]
      BY <1>3, <2>3
    <2>5. BatchInv'
      BY <2>1, <2>2, <2>3 DEF BatchInv
    <2>6. Pending' = Head(t).offset
      BY <1>3, <2>3 DEF Pending
    <2>7. Offset + 1 <= Head(t).offset
      BY <1>1, <1>3 DEF t
    <2> QED  BY <2>4, <2>5, <2>6, <2>7 DEF Item
  <1> QED  BY <1>2, <1>3

\* The record of a replicated message.
Replicated == [offset |-> Offset, returned |-> Offset, msg |-> Fetched]

\* An entry of the first segment of e was there before, or is for offset o.
OnlyNew(d, e, o) ==
    \A n \in Entries(e[0]) :
        \/ n \in Entries(d[0]) /\ Place(e[0], n) = Place(d[0], n)
        \/ Place(e[0], n) = o

\* The files after w writes of an append of the fetcher.
LEMMA AppendCopy ==
    ASSUME TypeOK, ReplicaInv, Appending, NEW w \in {0, 1, 2, 4},
           NEW e, e = DiskAfter(Fetched, Offset, w)
    PROVE  /\ DiskOK(e) /\ DOMAIN disk \subseteq DOMAIN e
           /\ HandlesOK(e, LogsAfter(Fetched, Offset + 1, w), Rolled.active)
           /\ CopyDisk(e, acked, Offset + 1)
           /\ w = 4 => CopyDisk(e, acked \cup {Replicated}, Offset + 1)
           /\ OnlyNew(disk, e, Offset)
  <1> DEFINE d == Rolled.disk
  <1>1. BatchInv /\ batch # <<>> /\ fetcher # "ended"
    BY DEF ReplicaInv, Appending
  <1>2. /\ Offset \in Nat /\ Offset + 1 \in Nat /\ Pending = Offset
        /\ Fetched \in Message /\ Fetched.id = Offset + 1
    BY <1>1, BatchHead
  <1>3. /\ CopyDisk(d, acked, Offset)
        /\ Target.size = d[Target.base].bytes
        /\ OnLast(d, Target)
        /\ DOMAIN disk \subseteq DOMAIN d
        /\ d[0] = disk[0]
    BY <1>1, <1>2, RolledCopy DEF ReplicaInv, FetcherInv
  <1>4. /\ DiskOK(d) /\ Target \in Handle /\ Target.base \in DOMAIN d
    BY RolledType
  <1>5. /\ DiskOK(e) /\ DOMAIN e = DOMAIN d
        /\ HandlesOK(e, LogsAfter(Fetched, Offset + 1, w), Rolled.active)
    BY <1>2, AfterTypeAt
  <1>6. \A a \in acked : a.offset \in Nat
    BY DEF TypeOK
  <1>7. e = [d EXCEPT ![Target.base] = Written(d[Target.base], Target, Fetched, Offset, w)]
    BY DEF DiskAfter
  <1> HIDE DEF d
  <1>8. CopyWrite(d, e, acked, Fetched, Offset, w)
    BY ONLY <1>2, <1>3, <1>4, <1>6, <1>7, WriteCopy, w \in {0, 1, 2, 4}
  <1>9. Replicated.offset = Offset /\ Replicated.msg = Fetched
    BY DEF Replicated
  <1> QED  BY <1>3, <1>5, <1>8, <1>9 DEF CopyWrite, OnlyNew

\* The handle after a whole append.
LEMMA AppendHandle ==
    ASSUME TypeOK, ReplicaInv, Appending,
           NEW e, e = DiskAfter(Fetched, Offset, 4),
           NEW hs, hs = LogsAfter(Fetched, Offset + 1, 4)
    PROVE  /\ hs[Rolled.active].size = e[hs[Rolled.active].base].bytes
           /\ OnLast(e, hs[Rolled.active])
  <1> DEFINE d == Rolled.disk
             h == Target
             g == Advanced(h, Fetched, Offset + 1, 4)
             new == Written(d[h.base], h, Fetched, Offset, 4)
  <1>1. BatchInv /\ batch # <<>> /\ fetcher # "ended"
    BY DEF ReplicaInv, Appending
  <1>2. Offset \in Nat /\ Pending = Offset /\ Fetched \in Message
    BY <1>1, BatchHead
  <1>3. h.size = d[h.base].bytes /\ OnLast(d, h)
    BY <1>1, <1>2, RolledCopy DEF ReplicaInv, FetcherInv
  <1>4. /\ DiskOK(d) /\ h \in Handle /\ h.base \in DOMAIN d
        /\ HandlesOK(d, Rolled.logs, Rolled.active)
    BY RolledType
  <1>5. g = [base |-> h.base, size |-> h.size + Fetched.len + 8, next |-> Offset + 1]
    <2>1. h = [base |-> h.base, size |-> h.size, next |-> h.next]
      BY <1>4 DEF Handle
    <2>2. g = [h EXCEPT !.size = h.size + Fetched.len + 8, !.next = Offset + 1]
      BY DEF Advanced, PrefixWidth
    <2> HIDE DEF h, g
    <2> QED  BY <2>1, <2>2
  <1>6. new.bytes = d[h.base].bytes + 8 + Fetched.len
    BY DEF Written, PrefixWidth
  <1>7. hs[Rolled.active] = g
    BY <1>4 DEF LogsAfter, HandlesOK, Target
  <1>8. e = [d EXCEPT ![h.base] = new]
    BY DEF DiskAfter
  <1>9. d[h.base].bytes \in Nat /\ Fetched.len \in Nat
    BY <1>2, <1>4, PartitionAssumption DEF DiskOK, IsSegment, Message
  <1> HIDE DEF d, h, g, new
  <1>10. DOMAIN e = DOMAIN d /\ e[h.base] = new
    BY <1>4, <1>8
  <1>11. g.base = h.base /\ g.size = new.bytes
    BY <1>3, <1>5, <1>6, <1>9
  <1> QED  BY <1>3, <1>7, <1>10, <1>11 DEF OnLast

\* An entry for a new offset hides nothing that was there at the last start.
LEMMA SavedKept ==
    ASSUME SavedInv, NEW o, CopyDisk(disk, acked, o), \A a \in acked : a.offset \in Nat,
           NEW e, DOMAIN disk \subseteq DOMAIN e, OnlyNew(disk, e, o), o \in Nat
    PROVE  /\ HandlesOK(e, served, 1)
           /\ \A a \in saved : \A n \in Entries(e[0]) :
                 Place(e[0], n) = a.offset => n < served[1].next
  <1>1. HandlesOK(e, served, 1)
    BY DEF SavedInv, HandlesOK
  <1>2. ASSUME NEW a \in saved, NEW n \in Entries(e[0]), Place(e[0], n) = a.offset
        PROVE  n < served[1].next
    <2>1. a.offset \in Nat /\ a.offset < o
      BY EnteredBelow DEF SavedInv
    <2>2. Place(e[0], n) # o
      BY <1>2, <2>1
    <2>3. n \in Entries(disk[0]) /\ Place(disk[0], n) = a.offset
      BY <1>2, <2>2 DEF OnlyNew
    <2> QED  BY <2>3 DEF SavedInv
  <1> QED  BY <1>1, <1>2

\* The start of the broker on files that are in order.
LEMMA StartedInv ==
    ASSUME DiskOK(disk'), acked' = acked, sent' = sent, sent \in Nat,
           CopyDisk(disk', acked, sent), StartReplication
    PROVE  /\ ReplicaInv'
           /\ HandlesOK(disk', logs', active') /\ maxSize' \in Nat
  <1>1. LoadPartition(disk')
    BY DEF StartReplication
  <1>2. /\ HandlesOK(disk', logs', active') /\ HandlesOK(disk', logs', 1)
        /\ logs'[1].base = 0 /\ logs'[1].next = Count(disk'[0])
        /\ logs'[active'].size = disk'[logs'[active'].base].bytes
        /\ OnLast(disk', logs'[active'])
        /\ logs'[active'].next > 0 => sent > 0
        /\ maxSize' \in Nat
    BY <1>1, LoadedCopy
  <1>3. served' = logs' /\ fetcher' = "fetch" /\ batch' = <<>> /\ saved' = acked
    BY DEF StartReplication
  <1>4. Pending' = sent
    BY <1>3 DEF Pending
  <1>5. BatchInv'
    BY <1>3 DEF BatchInv
  <1>6. CopyDisk(disk', acked', Pending')
    BY <1>4
  <1>7. FetcherInv'
    BY <1>2, <1>3, <1>4 DEF FetcherInv
  <1>8. \A n \in Entries(disk'[0]) : n < served'[1].next
    <2>1. Count(disk'[0]) \in Nat
      BY CountType DEF CopyDisk, DiskOK
    <2> QED  BY <1>2, <1>3, <2>1 DEF Entries
  <1>9. SavedInv'
    BY <1>2, <1>3, <1>8 DEF SavedInv
  <1> QED  BY <1>2, <1>5, <1>6, <1>7, <1>9 DEF ReplicaInv

----------------------------------------------------------------------------
(* Steps.                                                                  *)

\* A step that appends, ends the batch or goes on with it, and starts nothing.
LEMMA AppendKeeps ==
    ASSUME TypeOK, ReplicaInv, Appending, DiskOK(disk'), DOMAIN disk \subseteq DOMAIN disk',
           OnlyNew(disk, disk', Offset), UNCHANGED <<served, sent, saved>>,
           acked \subseteq acked', CopyDisk(disk', acked', Offset + 1),
           batch' = Tail(batch) \/ batch' = <<>>, fetcher' \in {"append", "ended"},
           fetcher' # "ended" => /\ logs'[active'].size = disk'[logs'[active'].base].bytes
                                 /\ OnLast(disk', logs'[active'])
    PROVE  ReplicaInv'
  <1>1. BatchInv /\ batch # <<>>
    BY DEF ReplicaInv, Appending
  <1>2. BatchInv' /\ Pending' \in Nat /\ Offset + 1 <= Pending'
    BY <1>1, BatchTail
  <1>3. Offset \in Nat /\ Pending = Offset
    BY <1>1, BatchHead
  <1>4. CopyDisk(disk', acked', Pending')
    BY <1>2, <1>3, LaterCopy
  <1>5. FetcherInv'
    BY <1>2, <1>3 DEF FetcherInv
  <1>6. SavedInv'
    <2>1. SavedInv /\ CopyDisk(disk, acked, Offset) /\ \A a \in acked : a.offset \in Nat
      BY <1>3 DEF ReplicaInv, TypeOK
    <2>2. /\ HandlesOK(disk', served, 1)
          /\ \A a \in saved : \A n \in Entries(disk'[0]) :
                Place(disk'[0], n) = a.offset => n < served[1].next
      BY <1>3, <2>1, SavedKept
    <2> QED  BY <2>1, <2>2 DEF SavedInv
  <1> QED  BY <1>2, <1>4, <1>5, <1>6 DEF ReplicaInv

\* Every step of a replica keeps the invariant.
LEMMA ReplicaInductive ==
    ASSUME CleanReplica, TypeOK, ReplicaInv, ReplicaStep
    PROVE  TypeOK' /\ ReplicaInv'
  <1>0. /\ BatchInv /\ CopyDisk(disk, acked, Pending) /\ FetcherInv /\ SavedInv
        /\ DiskOK(disk) /\ sent \in Nat /\ Pending \in Nat /\ Pending <= sent
    BY PendingBound DEF ReplicaInv, TypeOK, BatchInv
  <1>a. Attempt => attempts' \in 0..MaxAppends
    BY PartitionAssumption DEF Attempt, TypeOK
  <1>b. \A w \in ReplicaFaults : w \in {0, 1, 2, 4}
    BY ReplicaAssumption DEF CleanReplica
  <1>c. Appending => /\ Offset \in Nat /\ Pending = Offset /\ Offset + 1 <= sent
                     /\ Fetched \in Message
    BY <1>0, BatchHead DEF Appending
  <1>1. CASE FetchLog
    <2>1. UNCHANGED <<vars, served, saved>> /\ fetcher' = "append" /\ fetcher = "fetch"
      BY <1>1 DEF FetchLog
    <2>2. UNCHANGED <<disk, logs, active, maxSize, attempts, acked>>
      BY <2>1 DEF vars
    <2>3. BatchInv' /\ Pending' \in Nat /\ Pending <= Pending'
      BY <1>0, <1>1, AnswerBatch
    <2>4. CopyDisk(disk', acked', Pending')
      BY <1>0, <2>2, <2>3, LaterCopy
    <2>5. FetcherInv'
      BY <1>0, <2>1, <2>2, <2>3 DEF FetcherInv
    <2>6. SavedInv'
      BY <1>0, <2>1, <2>2 DEF SavedInv
    <2> QED  BY <2>2, <2>3, <2>4, <2>5, <2>6 DEF ReplicaInv, TypeOK
  <1>2. CASE FetchLogNotFound \/ FetchLogFails
    <2>1. /\ UNCHANGED <<vars, served, batch, sent, saved>>
          /\ fetcher' \in {"closed", "ended"} /\ fetcher # "ended"
      BY <1>2 DEF FetchLogNotFound, FetchLogFails
    <2>2. UNCHANGED <<disk, logs, active, maxSize, attempts, acked, served, batch, sent, saved>>
      BY <2>1 DEF vars
    <2>3. Pending' = Pending
      BY <2>2 DEF Pending
    <2>4. BatchInv' /\ SavedInv' /\ CopyDisk(disk', acked', Pending')
      BY <1>0, <2>2, <2>3 DEF BatchInv, SavedInv
    <2>5. FetcherInv'
      BY <1>0, <2>1, <2>2, <2>3 DEF FetcherInv
    <2> QED  BY <2>2, <2>4, <2>5 DEF ReplicaInv, TypeOK
  <1>3. CASE AppendReplicated
    <2>1. /\ Appending /\ Attempt
          /\ disk' = DiskAfter(Fetched, Offset, 4)
          /\ logs' = LogsAfter(Fetched, Offset + 1, 4) /\ active' = Rolled.active
          /\ acked' = acked \cup {Replicated}
          /\ batch' = Tail(batch) /\ UNCHANGED <<maxSize, served, fetcher, sent, saved>>
      BY <1>3 DEF AppendReplicated, Replicated
    <2>2. /\ DiskOK(disk') /\ DOMAIN disk \subseteq DOMAIN disk'
          /\ HandlesOK(disk', logs', active')
          /\ CopyDisk(disk', acked', Offset + 1) /\ OnlyNew(disk, disk', Offset)
      BY <2>1, AppendCopy
    <2>3. /\ logs'[active'].size = disk'[logs'[active'].base].bytes
          /\ OnLast(disk', logs'[active'])
      BY <2>1, AppendHandle
    <2>4. fetcher' = "append"
      BY <2>1 DEF Appending
    <2>5. ReplicaInv'
      BY <2>1, <2>2, <2>3, <2>4, AppendKeeps
    <2>6. Replicated \in [offset : Nat, returned : Nat, msg : Message]
      BY <1>c, <2>1 DEF Replicated
    <2> QED  BY <1>a, <2>1, <2>2, <2>5, <2>6 DEF TypeOK
  <1>4. CASE AppendReplicatedFails
    <2>1. /\ Appending /\ Attempt /\ fetcher' = "ended" /\ batch' = <<>>
          /\ UNCHANGED <<maxSize, acked, served, sent, saved>>
      BY <1>4 DEF AppendReplicatedFails
    <2>2. /\ DiskOK(disk') /\ DOMAIN disk \subseteq DOMAIN disk'
          /\ HandlesOK(disk', logs', active')
          /\ CopyDisk(disk', acked, Offset + 1) /\ OnlyNew(disk, disk', Offset)
      <3>1. CASE \E w \in ReplicaFaults \ {4} :
                    /\ disk' = DiskAfter(Fetched, Offset, w)
                    /\ logs' = LogsAfter(Fetched, Offset + 1, w)
                    /\ active' = Rolled.active
        BY <1>b, <2>1, <3>1, AppendCopy
      <3>2. CASE disk' \in {disk, Created(disk, RollBase)} /\ UNCHANGED <<logs, active>>
        <4>1. RollBase \in Nat /\ (RollBase > 0 => Pending > 0)
          <5>1. /\ logs[active] \in Handle /\ RollBase = logs[active].base + logs[active].next
                /\ logs[active].base \in DOMAIN disk
            BY RollBaseType DEF RollBase, TypeOK, HandlesOK
          <5>2. logs[active].base > 0 => Pending > 0
            BY <1>0, <5>1 DEF CopyDisk
          <5>3. logs[active].next > 0 => Pending > 0
            BY <1>0 DEF FetcherInv
          <5> QED  BY <5>1, <5>2, <5>3 DEF Handle
        <4>2. /\ DiskOK(disk') /\ DOMAIN disk \subseteq DOMAIN disk'
              /\ \A b \in DOMAIN disk : disk'[b] = disk[b]
              /\ CopyDisk(disk', acked, Pending)
          <5>1. CASE disk' = disk
            BY <1>0, <5>1
          <5>2. CASE disk' = Created(disk, RollBase)
            <6>1. CopyDisk(disk', acked, Pending)
              BY <1>0, <4>1, <5>2, CreatedCopy
            <6> QED  BY <1>0, <4>1, <5>2, <6>1, CreatedType
          <5> QED  BY <3>2, <5>1, <5>2
        <4>3. disk'[0] = disk[0]
          BY <1>0, <4>2 DEF CopyDisk
        <4>4. OnlyNew(disk, disk', Offset)
          BY <4>3 DEF OnlyNew
        <4>5. HandlesOK(disk', logs', active')
          BY <3>2, <4>2 DEF TypeOK, HandlesOK
        <4>6. CopyDisk(disk', acked, Offset + 1)
          BY <1>c, <2>1, <4>2, LaterCopy
        <4> QED  BY <4>2, <4>4, <4>5, <4>6
      <3> QED  BY <1>4, <3>1, <3>2 DEF AppendReplicatedFails
    <2>3. ReplicaInv'
      BY <2>1, <2>2, AppendKeeps
    <2> QED  BY <1>a, <2>1, <2>2, <2>3 DEF TypeOK
  <1>5. ASSUME NEW w \in ReplicaFaults, AppendReplicatedCrash(w) PROVE TypeOK' /\ ReplicaInv'
    <2>1. /\ Appending /\ Attempt /\ disk' = DiskAfter(Fetched, Offset, w)
          /\ StartReplication /\ UNCHANGED <<acked, sent>>
      BY <1>5 DEF AppendReplicatedCrash
    <2>2. DiskOK(disk') /\ CopyDisk(disk', acked, Offset + 1)
      BY <1>b, <2>1, AppendCopy
    <2>3. CopyDisk(disk', acked, sent)
      BY <1>0, <1>c, <2>1, <2>2, LaterCopy
    <2>4. ReplicaInv' /\ HandlesOK(disk', logs', active') /\ maxSize' \in Nat
      BY <1>0, <2>1, <2>2, <2>3, StartedInv
    <2> QED  BY <1>a, <2>1, <2>2, <2>4 DEF TypeOK
  <1>6. CASE RestartReplica
    <2>1. UNCHANGED <<disk, attempts, acked, sent>> /\ StartReplication
      BY <1>6 DEF RestartReplica
    <2>2. CopyDisk(disk', acked, sent)
      BY <1>0, <2>1, LaterCopy
    <2>3. ReplicaInv' /\ HandlesOK(disk', logs', active') /\ maxSize' \in Nat
      BY <1>0, <2>1, <2>2, StartedInv
    <2> QED  BY <2>1, <2>3 DEF TypeOK
  <1> QED  BY <1>1, <1>2, <1>3, <1>4, <1>5, <1>6 DEF ReplicaStep

\* A new copy is in order, on a leader and on a replica.
LEMMA InitCopy == CopyInit => CopyInv
  <1> SUFFICES ASSUME CopyInit PROVE CopyInv
    OBVIOUS
  <1>1. TypeOK
    BY InitType DEF CopyInit
  <1>2. /\ DOMAIN disk = {0} /\ disk[0] = EmptySegment /\ acked = {} /\ active = 1
        /\ logs = <<[base |-> 0, size |-> 0, next |-> 0]>>
        /\ served = logs /\ fetcher = "ended" /\ batch = <<>> /\ sent = 0 /\ saved = {}
        /\ role \in {"leader", "replica"}
    BY DEF CopyInit, Init
  <1>3. Pending = 0
    BY <1>2 DEF Pending
  <1>4. BatchInv
    BY <1>2 DEF BatchInv
  <1>5. CopyDisk(disk, acked, Pending)
    <2>1. Placed(0, disk[0], Pending) /\ Entries(disk[0]) = {} /\ DOMAIN disk[0].recs = {}
      BY <1>2, EmptyPlaced
    <2> QED  BY <1>2, <2>1 DEF CopyDisk, UniqueIds, Gaps
  <1>6. logs[1].base = 0 /\ logs[active].next = 0
    BY <1>2
  <1>7. FetcherInv
    BY <1>2, <1>3, <1>6 DEF FetcherInv
  <1>8. SavedInv
    BY <1>1, <1>2, <1>6 DEF SavedInv, TypeOK
  <1> QED  BY <1>1, <1>2, <1>4, <1>5, <1>7, <1>8 DEF CopyInv, ReplicaInv

\* Every step of a broker keeps its copy in order.
LEMMA CopyInductive ==
    CleanReplica /\ CopyInv /\ [CopyNext]_<<vars, replicaVars>> => CopyInv'
  <1> SUFFICES ASSUME CleanReplica, CopyInv, [CopyNext]_<<vars, replicaVars>> PROVE CopyInv'
    OBVIOUS
  <1>1. CASE LeaderStep
    <2>1. TypeOK'
      BY <1>1, TypeInductive DEF LeaderStep, CopyInv
    <2>2. role = "leader" /\ role' = "leader"
      BY <1>1 DEF LeaderStep
    <2> QED  BY <2>1, <2>2 DEF CopyInv
  <1>2. CASE ReplicaStep
    <2>1. role = "replica" /\ role' = "replica"
      BY <1>2 DEF ReplicaStep, FetchLog, FetchLogNotFound, FetchLogFails, AppendReplicated,
                  AppendReplicatedFails, AppendReplicatedCrash, RestartReplica, Appending
    <2>2. TypeOK' /\ ReplicaInv'
      BY <1>2, <2>1, ReplicaInductive DEF CopyInv
    <2> QED  BY <2>1, <2>2 DEF CopyInv
  <1>3. CASE UNCHANGED <<vars, replicaVars>>
    <2>1. UNCHANGED <<disk, logs, active, maxSize, attempts, acked,
                      role, served, fetcher, batch, sent, saved>>
      BY <1>3 DEF vars, replicaVars
    <2>2. Pending' = Pending
      BY <2>1 DEF Pending
    <2> QED  BY <2>1, <2>2 DEF CopyInv, TypeOK, ReplicaInv, BatchInv, FetcherInv, SavedInv
  <1> QED  BY <1>1, <1>2, <1>3 DEF CopyNext

\* The invariant of a copy holds for ever.
LEMMA CopyAlways == CleanReplica => (CopySpec => []CopyInv)
  <1> SUFFICES ASSUME CleanReplica PROVE CopySpec => []CopyInv
    OBVIOUS
  <1>1. CopyInv /\ [CopyNext]_<<vars, replicaVars>> => CopyInv'
    BY CopyInductive
  <1> QED  BY <1>1, InitCopy, PTL DEF CopySpec

----------------------------------------------------------------------------
(* What a replica serves.                                                  *)

\* What an index returns for n comes from entry n.
LEMMA FoundEntry ==
    ASSUME NEW seg, IsSegment(seg), Len(seg.idx) = 2 * Count(seg), NEW n \in Nat,
           NEW m \in LogReadAt(seg, n)
    PROVE  n \in Entries(seg) /\ Place(seg, n) = n /\ m = RecordOf(seg, n)
  <1>1. PICK pos \in IndexRead(seg, n) : m \in ReadAtByte(seg, pos)
    BY DEF LogReadAt
  <1>2. 2 * n + 2 <= Len(seg.idx) /\ seg.idx[2 * n + 1] = n /\ pos = seg.idx[2 * n + 2]
    BY <1>1 DEF IndexRead
  <1>3. m = seg.recs[pos]
    BY <1>1 DEF ReadAtByte
  <1>4. Count(seg) \in Nat
    BY CountType
  <1>5. n \in Entries(seg)
    <2>1. 2 * n + 2 <= 2 * Count(seg)
      BY <1>2
    <2> QED  BY <1>4, <2>1 DEF Entries
  <1> QED  BY <1>2, <1>3, <1>5 DEF Place, RecordOf

\* A replica whose copy is in order serves only the leader's messages.
LEMMA CopyAgrees == CopyInv => ReplicaAgrees
  <1> SUFFICES ASSUME CopyInv, role = "replica", NEW o \in 0..LeaderEnd,
                      NEW m \in ReadAt(disk, served, o)
               PROVE  m.id = o + 1
    BY DEF ReplicaAgrees
  <1>1. PICK i \in FirstCovering(served, o) :
           m \in LogReadAt(disk[served[i].base], o - served[i].base)
    BY DEF ReadAt
  <1> DEFINE b == served[i].base
             n == o - b
  <1>2. i \in DOMAIN served /\ b <= o
    BY <1>1 DEF FirstCovering, Covers
  <1>3. /\ DiskOK(disk) /\ CopyDisk(disk, acked, Pending) /\ HandlesOK(disk, served, 1)
    BY DEF CopyInv, ReplicaInv, TypeOK, SavedInv
  <1>4. b \in DOMAIN disk /\ b \in Nat /\ o \in Nat /\ IsSegment(disk[b])
    BY <1>2, <1>3, ReplicaAssumption DEF HandlesOK, DiskOK
  <1>5. n \in Nat
    <2> HIDE DEF b
    <2> QED  BY <1>2, <1>4
  <1>6. Len(disk[b].idx) = 2 * Count(disk[b]) /\ InPlace(b, disk[b], Pending)
    BY <1>3, <1>4 DEF CopyDisk, Placed
  <1>7. m \in LogReadAt(disk[b], n)
    BY <1>1
  <1> HIDE DEF n, b
  <1>8. n \in Entries(disk[b]) /\ Place(disk[b], n) = n /\ m = RecordOf(disk[b], n)
    BY <1>4, <1>5, <1>6, <1>7, FoundEntry
  <1>9. m.id = n + 1 /\ ~(b > 0)
    BY <1>5, <1>6, <1>8 DEF InPlace
  <1> QED  BY <1>4, <1>9 DEF n

\* What the first segment held at the last start, without a gap before it, is
\* within reach of the first handle.
LEMMA CopyServes == CopyInv => UnbrokenServed
  <1> SUFFICES ASSUME CopyInv, role = "replica", NEW a \in Unbroken(saved)
               PROVE  ReadAt(disk, served, a.offset) = {a.msg}
    BY DEF UnbrokenServed
  <1> DEFINE seg == disk[0]
             n == a.offset
  <1>1. /\ a \in saved
        /\ \E p \in DOMAIN seg.recs : seg.recs[p] = a.msg
        /\ \A o \in 0..n : \E c \in saved : c.offset = o
    BY DEF Unbroken
  <1>2. /\ DiskOK(disk) /\ CopyDisk(disk, acked, Pending) /\ SavedInv
        /\ acked \subseteq [offset : Nat, returned : Nat, msg : Message]
    BY DEF CopyInv, ReplicaInv, TypeOK
  <1>3. a \in acked /\ saved \subseteq acked /\ n \in Nat /\ 0 \in DOMAIN disk
    BY <1>1, <1>2 DEF SavedInv, CopyDisk
  <1>4. IsSegment(seg) /\ Len(seg.idx) = 2 * Count(seg) /\ InPlace(0, seg, Pending)
    BY <1>2, <1>3 DEF DiskOK, CopyDisk, Placed
  <1>5. PICK k \in Entries(seg) : Place(seg, k) = n /\ RecordOf(seg, k) = a.msg
    <2>1. PICK b \in DOMAIN disk : EnteredIn(disk[b], a)
      BY <1>2, <1>3 DEF CopyDisk, Entered
    <2>2. PICK k \in Entries(disk[b]) : Place(disk[b], k) = n /\ RecordOf(disk[b], k) = a.msg
      BY <2>1 DEF EnteredIn
    <2>3. disk[b].idx[2 * k + 2] \in DOMAIN disk[b].recs
      BY <1>2, <2>2 DEF CopyDisk, Placed, InPlace
    <2>4. b = 0
      BY <1>1, <1>2, <1>3, <2>2, <2>3 DEF CopyDisk, UniqueIds, RecordOf
    <2> QED  BY <2>2, <2>4
  <1>6. k = n
    <2>1. Place(seg, k) = k \/ \E g \in Nat : g < Place(seg, k) /\ \A c \in acked : c.offset # g
      BY <1>2, <1>5 DEF CopyDisk, Gaps
    <2>2. ASSUME NEW g \in Nat, g < n PROVE \E c \in acked : c.offset = g
      <3>1. g \in 0..n
        BY <1>3, <2>2
      <3> QED  BY <1>1, <1>3, <3>1
    <2> QED  BY <1>5, <2>1, <2>2
  <1>7. n < served[1].next /\ served[1].base = 0 /\ 1 \in DOMAIN served /\ served \in Seq(Handle)
    BY <1>1, <1>2, <1>5, <1>6 DEF SavedInv, HandlesOK
  <1>8. seg.idx[2 * n + 2] \in DOMAIN seg.recs
    BY <1>4, <1>5, <1>6 DEF InPlace
  <1>9. 2 * n + 2 <= Len(seg.idx) /\ seg.idx[2 * n + 1] = n /\ seg.recs[seg.idx[2 * n + 2]] = a.msg
    <2>1. Count(seg) \in Nat /\ n \in 0..(Count(seg) - 1)
      BY <1>4, <1>5, <1>6, CountType DEF Entries
    <2>2. seg.idx[2 * n + 1] = n /\ seg.recs[seg.idx[2 * n + 2]] = a.msg
      BY <1>5, <1>6 DEF Place, RecordOf
    <2> HIDE DEF seg, n
    <2>3. 2 * n + 2 <= 2 * Count(seg)
      BY <1>3, <2>1
    <2> QED  BY <1>4, <2>2, <2>3
  <1> HIDE DEF seg, n
  <1>10. LogReadAt(seg, n) = {a.msg}
    BY <1>8, <1>9 DEF LogReadAt, IndexRead, ReadAtByte
  <1>11. Covers(served[1], n)
    <2>1. served[1] \in Handle
      BY <1>7
    <2>2. served[1].next \in Nat
      BY <2>1 DEF Handle
    <2> QED  BY <1>3, <1>7, <2>2 DEF Covers
  <1>12. FirstCovering(served, n) = {1}
    <2>1. \A i \in DOMAIN served : i \in Nat /\ i >= 1
      BY <1>7
    <2> QED  BY <1>7, <1>11, <2>1 DEF FirstCovering
  <1>13. ReadAt(disk, served, n) = LogReadAt(disk[0], n)
    <2>1. n - 0 = n
      BY <1>3
    <2> QED  BY <1>7, <1>12, <2>1 DEF ReadAt
  <1> QED  BY <1>10, <1>13 DEF seg, n

\* For every number of rollovers, messages left out, failed appends, crashes
\* and restarts (but for an append cut off inside its index entry), a replica
\* never serves a message under an offset that is not the leader's.
THEOREM ReplicaAlwaysAgrees == CleanReplica => (CopySpec => []ReplicaAgrees)
  <1> SUFFICES ASSUME CleanReplica PROVE CopySpec => []ReplicaAgrees
    OBVIOUS
  <1>1. CopySpec => []CopyInv
    BY CopyAlways
  <1> QED  BY <1>1, CopyAgrees, PTL

\* Under the same faults, a replica that was started again serves everything
\* that it had replicated into its first segment before the first gap,
\* whatever its fetcher appends to the same files meanwhile.
THEOREM UnbrokenAlwaysServed == CleanReplica => (CopySpec => []UnbrokenServed)
  <1> SUFFICES ASSUME CleanReplica PROVE CopySpec => []UnbrokenServed
    OBVIOUS
  <1>1. CopySpec => []CopyInv
    BY CopyAlways
  <1> QED  BY <1>1, CopyServes, PTL


----------------------------------------------------------------------------
(* What a reader can get stays readable, whatever fails.                   *)

\* Every append adds at most the two words of one index entry, and the fetcher
\* has moved on by then: neither an index nor the handle of the fetcher gets
\* past the offsets of the leader.
WordsInv ==
    /\ \A b \in DOMAIN disk : Len(disk[b].idx) <= 2 * Pending
    /\ logs[active].next <= Pending

StableInv ==
    /\ TypeOK
    /\ LayoutInv
    /\ role \in {"leader", "replica"}
    /\ role = "leader" => served = logs
    /\ role = "replica" => BatchInv /\ WordsInv /\ HandlesOK(disk, served, 1)

\* Handles that stay as they are find what they found when the segments grow.
LEMMA SameHandlesRead ==
    ASSUME NEW d, NEW e, NEW hs, DiskGrows(d, e), DiskOK(d), HandlesOK(d, hs, 1), NEW o \in Nat
    PROVE  ReadAt(d, hs, o) \subseteq ReadAt(e, hs, o)
  <1> SUFFICES ASSUME NEW i \in FirstCovering(hs, o)
               PROVE  LogReadAt(d[hs[i].base], o - hs[i].base)
                         \subseteq LogReadAt(e[hs[i].base], o - hs[i].base)
    BY DEF ReadAt
  <1>1. i \in DOMAIN hs /\ hs[i].base <= o
    BY DEF FirstCovering, Covers
  <1>2. hs[i].base \in DOMAIN d /\ hs[i].base \in Nat
    BY <1>1 DEF HandlesOK, DiskOK
  <1>3. SegmentGrows(d[hs[i].base], e[hs[i].base]) /\ o - hs[i].base \in Nat
    BY <1>1, <1>2 DEF DiskGrows
  <1> QED  BY <1>3 DEF SegmentGrows

\* An index of 2 * n words at most has n entries at most.
LEMMA EntriesOfWords ==
    ASSUME NEW seg, IsSegment(seg), NEW n \in Nat, Len(seg.idx) <= 2 * n
    PROVE  Count(seg) \in Nat /\ Count(seg) <= n
  <1> DEFINE l == Len(seg.idx)
  <1>1. l \in Nat /\ l <= 2 * n
    BY DEF IsSegment
  <1>2. Count(seg) = l \div 2
    BY DEF Count
  <1> HIDE DEF l
  <1>3. (l \div 2) \in Nat /\ 2 * (l \div 2) <= l
    BY ONLY <1>1, HalfOf
  <1> QED  BY <1>1, <1>2, <1>3

\* The fetcher's handle after the rollover, and the words of every index.
LEMMA RolledWords ==
    ASSUME TypeOK, BatchInv, WordsInv
    PROVE  /\ Target.next <= Pending
           /\ \A b \in DOMAIN Rolled.disk : Len(Rolled.disk[b].idx) <= 2 * Pending
  <1>0. Pending \in Nat /\ DiskOK(disk) /\ RollBase \in Nat
    BY PendingBound, RollBaseType DEF TypeOK
  <1>1. CASE ~ShouldRoll
    BY <1>1 DEF Rolled, Target, WordsInv
  <1>2. CASE ShouldRoll
    <2> DEFINE d == Created(disk, RollBase)
               h == LoadLog(d, RollBase)
    <2>1. Rolled = [disk |-> d, logs |-> Append(logs, h), active |-> Len(logs) + 1]
      BY <1>2 DEF Rolled
    <2>2. /\ DiskOK(d) /\ RollBase \in DOMAIN d
          /\ DOMAIN d = DOMAIN disk \cup {RollBase}
          /\ \A b \in DOMAIN disk : d[b] = disk[b]
          /\ RollBase \notin DOMAIN disk => d[RollBase] = EmptySegment
      BY <1>0, CreatedType
    <2>3. h \in Handle /\ h.next = Count(d[RollBase])
      BY <2>2, LoadLogType DEF LoadLog
    <2>4. Len(EmptySegment.idx) = 0
      BY DEF EmptySegment
    <2> HIDE DEF d, h
    <2>5. Target = h
      BY <2>1, <2>3 DEF Target, TypeOK, HandlesOK
    <2>6. \A b \in DOMAIN d : Len(d[b].idx) <= 2 * Pending
      BY <1>0, <2>2, <2>4 DEF WordsInv
    <2>7. Count(d[RollBase]) <= Pending
      BY <1>0, <2>2, <2>6, EntriesOfWords DEF DiskOK
    <2> QED  BY <2>1, <2>3, <2>5, <2>6, <2>7
  <1> QED  BY <1>1, <1>2

\* Files and handles after w writes of an append of the fetcher, any w.
FetcherWrote(e, gs, a) ==
    /\ DiskOK(e) /\ HandlesOK(e, gs, a)
    /\ Spread(e, gs, a) /\ OnLast(e, gs[a])
    /\ DiskGrows(disk, e)
    /\ \A b \in DOMAIN e : Len(e[b].idx) <= 2 * (Offset + 1)
    /\ gs[a].next <= Offset + 1

LEMMA FetcherWrites ==
    ASSUME TypeOK, LayoutInv, BatchInv, WordsInv, Appending, NEW w \in 0..4
    PROVE  FetcherWrote(DiskAfter(Fetched, Offset, w), LogsAfter(Fetched, Offset + 1, w),
                        Rolled.active)
  <1> DEFINE d == Rolled.disk
             hs == Rolled.logs
             a == Rolled.active
             h == hs[a]
             m == Fetched
             o == Offset
             e == DiskAfter(m, o, w)
             gs == LogsAfter(m, o + 1, w)
  <1>1. /\ DiskOK(d) /\ HandlesOK(d, hs, a) /\ h = Target /\ h = hs[a] /\ h \in Handle
        /\ h.base \in DOMAIN d /\ DiskOK(disk)
    BY RolledType DEF Target, TypeOK
  <1>2. Spread(d, hs, a) /\ OnLast(d, h) /\ DiskGrows(disk, d)
    BY <1>1, RolledSpread DEF OnLast
  <1>3. o \in Nat /\ o + 1 \in Nat /\ m \in Message /\ Pending = o
    BY BatchHead DEF Appending
  <1>4. h.next <= o /\ \A b \in DOMAIN d : Len(d[b].idx) <= 2 * o
    BY <1>1, <1>3, RolledWords
  <1>5. e = [d EXCEPT ![h.base] = Written(d[h.base], h, m, o, w)]
    BY <1>1 DEF DiskAfter
  <1>6. gs = [hs EXCEPT ![a] = Advanced(h, m, o + 1, w)]
    BY <1>1 DEF LogsAfter
  <1>7. DiskOK(e) /\ HandlesOK(e, gs, a) /\ DOMAIN e = DOMAIN d
    BY <1>3, AfterTypeAt
  <1>8. w \in 0..4
    OBVIOUS
  <1> HIDE DEF d, hs, a, h, m, o, e, gs
  <1>9. Len(d[h.base].idx) <= 2 * o + 1
    <2>1. Len(d[h.base].idx) \in Nat
      BY <1>1, CountType DEF DiskOK
    <2> QED  BY <1>1, <1>3, <1>4, <2>1
  <1>10. Spread(e, gs, a) /\ OnLast(e, gs[a]) /\ DiskGrows(d, e)
    BY ONLY <1>1, <1>2, <1>3, <1>4, <1>5, <1>6, <1>8, <1>9, WriteSpread
  <1>11. DiskGrows(disk, e)
    BY <1>1, <1>2, <1>7, <1>10, GrowsTransitive
  <1>12. \A b \in DOMAIN e : Len(e[b].idx) <= 2 * (o + 1)
    <2>1. GrownBy(d[h.base], Written(d[h.base], h, m, o, w), w)
      <3>1. IsSegment(d[h.base]) /\ RecordsInFile(d[h.base])
        BY <1>1, <1>2 DEF DiskOK, Spread
      <3> QED  BY <1>1, <1>3, <1>8, <3>1, WrittenGrows
    <2>2. WordsOf(w) \in Nat /\ WordsOf(w) <= 2
      BY <1>8 DEF WordsOf
    <2>3. \A b \in DOMAIN d : Len(d[b].idx) \in Nat
      BY <1>1, CountType DEF DiskOK
    <2>4. Len(e[h.base].idx) <= 2 * (o + 1)
      <3>1. e[h.base] = Written(d[h.base], h, m, o, w)
        BY <1>1, <1>5
      <3>2. Len(e[h.base].idx) = Len(d[h.base].idx) + WordsOf(w)
        BY <2>1, <3>1 DEF GrownBy
      <3> QED  BY <1>1, <1>3, <1>4, <2>2, <2>3, <3>2
    <2>5. \A b \in DOMAIN d : b # h.base => e[b] = d[b]
      BY <1>5
    <2> QED  BY <1>3, <1>4, <1>7, <2>3, <2>4, <2>5
  <1>13. gs[a].next <= o + 1
    <2> DEFINE g == Advanced(h, m, o + 1, w)
    <2>1. gs[a] = g
      BY <1>1, <1>6 DEF HandlesOK
    <2>2. g = h \/ g.next = o + 1
      BY <1>1 DEF Advanced, Handle
    <2>3. h.next \in Nat
      BY <1>1 DEF Handle
    <2> HIDE DEF g
    <2> QED  BY <1>3, <1>4, <2>1, <2>2, <2>3
  <1> QED  BY <1>7, <1>10, <1>11, <1>12, <1>13 DEF FetcherWrote, e, gs, a, o, m

\* A start of the broker on any files reads what could be read before.
LEMMA StartStable ==
    ASSUME TypeOK, BatchInv, HandlesOK(disk, served, 1), DiskOK(disk'), DiskGrows(disk, disk'),
           \A b \in DOMAIN disk' : RecordsInFile(disk'[b]), DisjointSegments(disk'),
           \A b \in DOMAIN disk' : Len(disk'[b].idx) <= 2 * sent,
           attempts' \in 0..MaxAppends, acked' = acked, sent' = sent, StartReplication
    PROVE  /\ TypeOK' /\ LayoutInv' /\ BatchInv' /\ WordsInv' /\ HandlesOK(disk', served', 1)
           /\ \A o \in Nat : ReadAt(disk, served, o) \subseteq ReadAt(disk', served', o)
  <1>1. LoadPartition(disk') /\ served' = logs' /\ batch' = <<>>
    BY DEF StartReplication
  <1>2. DOMAIN disk' # {}
    BY DEF TypeOK, HandlesOK, DiskGrows
  <1>3. /\ HandlesOK(disk', logs', active') /\ maxSize' \in Nat
        /\ logs'[active'] = LoadLog(disk', logs'[active'].base)
    BY <1>1, <1>2, LoadPartitionLoads DEF HandlesOK
  <1>4. /\ Spread(disk', logs', active')
        /\ \A b \in DOMAIN disk' : b <= logs'[active'].base
        /\ \A b \in DOMAIN disk' : \E j \in DOMAIN logs' :
              logs'[j].base = b /\ logs'[j].next = Count(disk'[b])
    BY <1>1, <1>2, LoadSpread
  <1>5. TypeOK'
    BY <1>3 DEF TypeOK
  <1>6. LayoutInv'
    BY <1>4, <1>5, SpreadGivesLayout
  <1>7. sent \in Nat /\ Pending' = sent /\ BatchInv'
    BY <1>1 DEF BatchInv, Pending
  <1>8. WordsInv'
    <2>1. logs'[active'].base \in DOMAIN disk' /\ logs'[active'].next = Count(disk'[logs'[active'].base])
      BY <1>3 DEF HandlesOK, LoadLog
    <2>2. Count(disk'[logs'[active'].base]) <= sent
      BY <1>7, <2>1, EntriesOfWords DEF DiskOK
    <2> QED  BY <1>7, <2>1, <2>2 DEF WordsInv
  <1>9. HandlesOK(disk', served', 1)
    <2>1. 1 \in DOMAIN logs'
      BY <1>3 DEF HandlesOK
    <2> QED  BY <1>1, <1>3, <2>1 DEF HandlesOK
  <1>10. StillReached(disk, served, served')
    <2>1. DiskOK(disk)
      BY DEF TypeOK
    <2> QED  BY <1>1, <1>4, <2>1, LoadReaches
  <1>11. \A o \in Nat : ReadAt(disk, served, o) \subseteq ReadAt(disk', served', o)
    <2>1. DiskOK(disk) /\ HandlesOK(disk', served', active') /\ Spread(disk', served', active')
      BY <1>1, <1>3, <1>4 DEF TypeOK
    <2> QED  BY <1>10, <2>1, ReadsKept
  <1> QED  BY <1>5, <1>6, <1>7, <1>8, <1>9, <1>11

ReadsStay == \A o \in Nat : ReadAt(disk, served, o) \subseteq ReadAt(disk', served', o)

\* A step of a replica, whatever fails in it.
LEMMA ReplicaStable ==
    ASSUME StableInv, role = "replica", ReplicaStep
    PROVE  /\ TypeOK' /\ LayoutInv' /\ BatchInv' /\ WordsInv' /\ HandlesOK(disk', served', 1)
           /\ ReadsStay
  <1>0. /\ TypeOK /\ LayoutInv /\ BatchInv /\ WordsInv /\ HandlesOK(disk, served, 1)
        /\ DiskOK(disk) /\ sent \in Nat /\ Pending \in Nat /\ Pending <= sent
    BY PendingBound DEF StableInv, TypeOK, BatchInv
  <1>1. Attempt => attempts' \in 0..MaxAppends
    BY <1>0, PartitionAssumption DEF Attempt, TypeOK
  <1>2. \A w \in ReplicaFaults : w \in 0..4
    BY ReplicaAssumption
  <1>3. Appending => /\ Offset \in Nat /\ Pending = Offset /\ Offset + 1 <= sent
                     /\ Fetched \in Message /\ batch # <<>>
    BY <1>0, BatchHead DEF Appending
  <1>4. ASSUME served' = served, DiskGrows(disk, disk'), DiskOK(disk')
        PROVE  HandlesOK(disk', served', 1) /\ ReadsStay
    <2>1. HandlesOK(disk', served', 1)
      BY <1>0, <1>4 DEF HandlesOK, DiskGrows
    <2> QED  BY <1>0, <1>4, <2>1, SameHandlesRead DEF ReadsStay
  <1>5. \A P \in Nat : (\A b \in DOMAIN disk' : Len(disk'[b].idx) <= 2 * (Offset + 1)) /\
           DiskOK(disk') /\ Offset \in Nat /\ Offset + 1 <= P =>
              \A b \in DOMAIN disk' : Len(disk'[b].idx) <= 2 * P
    <2> SUFFICES ASSUME NEW P \in Nat, \A b \in DOMAIN disk' : Len(disk'[b].idx) <= 2 * (Offset + 1),
                        DiskOK(disk'), Offset \in Nat, Offset + 1 <= P, NEW b \in DOMAIN disk'
                 PROVE  Len(disk'[b].idx) <= 2 * P
      OBVIOUS
    <2>1. Len(disk'[b].idx) \in Nat /\ Len(disk'[b].idx) <= 2 * (Offset + 1)
      BY CountType DEF DiskOK
    <2> QED  BY <2>1
  <1>6. CASE FetchLog \/ FetchLogNotFound \/ FetchLogFails
    <2>1. UNCHANGED <<disk, logs, active, maxSize, attempts, acked, served>>
      BY <1>6 DEF FetchLog, FetchLogNotFound, FetchLogFails, vars
    <2>2. BatchInv' /\ Pending' \in Nat /\ Pending <= Pending'
      <3>1. CASE FetchLog
        BY <1>0, <3>1, AnswerBatch
      <3>2. CASE FetchLogNotFound \/ FetchLogFails
        <4>1. batch' = batch /\ sent' = sent
          BY <3>2 DEF FetchLogNotFound, FetchLogFails
        <4> QED  BY <1>0, <4>1 DEF BatchInv, Pending
      <3> QED  BY <1>6, <3>1, <3>2
    <2>3. TypeOK' /\ LayoutInv'
      BY <1>0, <2>1 DEF TypeOK, LayoutInv, OnlyRolledPast, RollBase, ShouldRoll
    <2>4. WordsInv'
      <3>1. \A b \in DOMAIN disk : Len(disk[b].idx) \in Nat
        BY <1>0, CountType DEF DiskOK
      <3>2. logs[active].next \in Nat
        BY <1>0, RollBaseType DEF Handle
      <3> QED  BY <1>0, <2>1, <2>2, <3>1, <3>2 DEF WordsInv
    <2>5. DiskGrows(disk, disk')
      BY <1>0, <2>1, GrowsReflexive
    <2> QED  BY <1>0, <1>4, <2>1, <2>2, <2>3, <2>4, <2>5
  <1>7. ASSUME Appending, Attempt, maxSize' = maxSize,
               NEW w \in 0..4, disk' = DiskAfter(Fetched, Offset, w),
               logs' = LogsAfter(Fetched, Offset + 1, w), active' = Rolled.active,
               acked' = acked \/ acked' = acked \cup {Replicated},
               batch' = Tail(batch) \/ batch' = <<>>, served' = served, sent' = sent
        PROVE  /\ TypeOK' /\ LayoutInv' /\ BatchInv' /\ WordsInv' /\ HandlesOK(disk', served', 1)
               /\ ReadsStay
    <2>1. FetcherWrote(disk', logs', active')
      BY <1>0, <1>7, FetcherWrites
    <2>2. acked' \subseteq [offset : Nat, returned : Nat, msg : Message]
      <3>1. Replicated \in [offset : Nat, returned : Nat, msg : Message]
        BY <1>3, <1>7 DEF Replicated
      <3> QED  BY <1>0, <1>7, <3>1 DEF TypeOK
    <2>3. TypeOK'
      BY <1>0, <1>1, <1>7, <2>1, <2>2 DEF TypeOK, FetcherWrote
    <2>4. LayoutInv'
      BY <2>1, <2>3, SpreadGivesLayout DEF FetcherWrote, OnLast
    <2>5. BatchInv' /\ Pending' \in Nat /\ Offset + 1 <= Pending'
      BY <1>0, <1>3, <1>7, BatchTail
    <2>6. WordsInv'
      <3>1. \A b \in DOMAIN disk' : Len(disk'[b].idx) <= 2 * Pending'
        BY <1>3, <1>5, <1>7, <2>1, <2>5 DEF FetcherWrote
      <3>2. logs'[active'].next <= Pending'
        <4>1. logs'[active'] \in Handle /\ logs'[active'].next <= Offset + 1
          BY <2>1 DEF FetcherWrote, HandlesOK
        <4>2. logs'[active'].next \in Nat
          BY <4>1 DEF Handle
        <4> QED  BY <1>3, <1>7, <2>5, <4>1, <4>2
      <3> QED  BY <3>1, <3>2 DEF WordsInv
    <2> QED  BY <1>4, <1>7, <2>1, <2>3, <2>4, <2>5, <2>6 DEF FetcherWrote
  <1>8. CASE AppendReplicated
    <2>1. 4 \in 0..4
      OBVIOUS
    <2> QED  BY <1>7, <1>8, <2>1 DEF AppendReplicated, Replicated
  <1>9. CASE AppendReplicatedFails
    <2>1. /\ Appending /\ Attempt /\ batch' = <<>>
          /\ UNCHANGED <<maxSize, acked, served, sent>>
      BY <1>9 DEF AppendReplicatedFails
    <2>2. CASE \E w \in ReplicaFaults \ {4} :
                  /\ disk' = DiskAfter(Fetched, Offset, w)
                  /\ logs' = LogsAfter(Fetched, Offset + 1, w)
                  /\ active' = Rolled.active
      BY <1>2, <1>7, <2>1, <2>2
    <2>3. CASE /\ ShouldRoll
               /\ disk' \in {disk, Created(disk, RollBase)}
               /\ UNCHANGED <<logs, active>>
      <3>1. RolloverFails
        BY <2>1, <2>3 DEF RolloverFails
      <3>2. TypeOK' /\ LayoutInv' /\ DiskGrows(disk, disk')
        BY <1>0, <3>1, TypeInductive, LayoutStep DEF Next
      <3>3. BatchInv' /\ Pending' \in Nat /\ Offset + 1 <= Pending'
        BY <1>0, <1>3, <2>1, BatchTail
      <3>4. \A b \in DOMAIN disk' : Len(disk'[b].idx) <= 2 * Offset
        <4>1. CASE disk' = disk
          BY <1>3, <2>1, <1>0, <4>1 DEF WordsInv
        <4>2. CASE disk' = Created(disk, RollBase)
          BY <1>0, <1>3, <2>1, <2>3, <4>2, RolledWords DEF Rolled
        <4> QED  BY <2>3, <4>1, <4>2
      <3>5. DiskOK(disk')
        BY <3>2 DEF TypeOK
      <3>6. \A b \in DOMAIN disk' : Len(disk'[b].idx) <= 2 * Pending'
        <4>1. \A b \in DOMAIN disk' : Len(disk'[b].idx) \in Nat
          BY <3>5, CountType DEF DiskOK
        <4> QED  BY <1>3, <2>1, <3>3, <3>4, <4>1
      <3>7. logs'[active'].next <= Pending'
        <4>1. logs[active].next \in Nat /\ logs[active].next <= Offset
          BY <1>0, <1>3, <2>1, RollBaseType DEF Handle, WordsInv
        <4> QED  BY <1>3, <2>1, <2>3, <3>3, <4>1
      <3> QED  BY <1>4, <2>1, <3>2, <3>3, <3>5, <3>6, <3>7 DEF WordsInv
    <2> QED  BY <1>9, <2>2, <2>3 DEF AppendReplicatedFails
  <1>10. ASSUME NEW w \in ReplicaFaults, AppendReplicatedCrash(w)
         PROVE  /\ TypeOK' /\ LayoutInv' /\ BatchInv' /\ WordsInv' /\ HandlesOK(disk', served', 1)
                /\ ReadsStay
    <2>1. /\ Appending /\ Attempt /\ disk' = DiskAfter(Fetched, Offset, w)
          /\ StartReplication /\ UNCHANGED <<acked, sent>> /\ w \in 0..4
      BY <1>2, <1>10 DEF AppendReplicatedCrash
    <2>2. FetcherWrote(disk', LogsAfter(Fetched, Offset + 1, w), Rolled.active)
      BY <1>0, <2>1, FetcherWrites
    <2>3. \A b \in DOMAIN disk' : Len(disk'[b].idx) <= 2 * sent
      BY <1>0, <1>3, <1>5, <2>1, <2>2 DEF FetcherWrote
    <2> QED  BY <1>0, <1>1, <2>1, <2>2, <2>3, StartStable DEF FetcherWrote, Spread, ReadsStay
  <1>11. CASE RestartReplica
    <2>1. UNCHANGED <<disk, attempts, acked, sent>> /\ StartReplication
      BY <1>11 DEF RestartReplica
    <2>2. /\ DiskGrows(disk, disk') /\ DiskOK(disk') /\ attempts' \in 0..MaxAppends
          /\ \A b \in DOMAIN disk' : RecordsInFile(disk'[b])
          /\ DisjointSegments(disk')
      BY <1>0, <2>1, GrowsReflexive DEF TypeOK, LayoutInv, Spread
    <2>3. \A b \in DOMAIN disk' : Len(disk'[b].idx) <= 2 * sent
      <3>1. \A b \in DOMAIN disk : Len(disk[b].idx) \in Nat /\ Len(disk[b].idx) <= 2 * Pending
        BY <1>0, CountType DEF DiskOK, WordsInv
      <3> QED  BY <1>0, <2>1, <3>1
    <2> QED  BY <1>0, <2>1, <2>2, <2>3, StartStable DEF ReadsStay
  <1> QED  BY <1>6, <1>8, <1>9, <1>10, <1>11 DEF ReplicaStep

\* Every step of a broker, as the leader or as a replica.
LEMMA StableStep ==
    ASSUME StableInv, [CopyNext]_<<vars, replicaVars>>
    PROVE  StableInv' /\ ReadsStay
  <1>1. CASE LeaderStep
    <2>1. role = "leader" /\ role' = "leader" /\ served' = logs' /\ served = logs /\ [Next]_vars
      BY <1>1 DEF LeaderStep, StableInv
    <2>2. /\ TypeOK /\ TypeOK' /\ LayoutInv'
          /\ DiskGrows(disk, disk') /\ StillReached(disk, logs, logs')
      BY <2>1, TypeInductive, LayoutStep DEF StableInv
    <2>3. /\ DiskOK(disk) /\ HandlesOK(disk, logs, active)
          /\ DiskOK(disk') /\ HandlesOK(disk', logs', active') /\ Spread(disk', logs', active')
      BY <2>2 DEF TypeOK, LayoutInv
    <2>4. ReadsStay
      BY <2>1, <2>2, <2>3, ReadsKept DEF ReadsStay
    <2> QED  BY <2>1, <2>2, <2>4 DEF StableInv
  <1>2. CASE ReplicaStep
    <2>1. role = "replica" /\ role' = "replica"
      BY <1>2 DEF ReplicaStep, FetchLog, FetchLogNotFound, FetchLogFails, AppendReplicated,
                  AppendReplicatedFails, AppendReplicatedCrash, RestartReplica, Appending
    <2> QED  BY <1>2, <2>1, ReplicaStable DEF StableInv
  <1>3. CASE UNCHANGED <<vars, replicaVars>>
    <2>1. UNCHANGED <<disk, logs, active, maxSize, attempts, acked,
                      role, served, fetcher, batch, sent, saved>>
      BY <1>3 DEF vars, replicaVars
    <2>2. Pending' = Pending
      BY <2>1 DEF Pending
    <2>3. LayoutInv' = LayoutInv
      BY <2>1 DEF LayoutInv, OnlyRolledPast, RollBase, ShouldRoll
    <2> QED  BY <2>1, <2>2, <2>3 DEF StableInv, TypeOK, BatchInv, WordsInv, ReadsStay
  <1> QED  BY <1>1, <1>2, <1>3 DEF CopyNext

\* No step takes a message away from a reader or puts another in its place, on
\* a leader and on a replica, which reads through other handles than its fetcher
\* writes through: with any write of any append failing or cut off by a crash,
\* in the middle of an index entry too, and with failed rollovers and restarts,
\* what Consume returns at an offset it returns for ever.
THEOREM ReadsAreStable == CopySpec => StableReads
  <1>1. CopyInit => StableInv
    <2> SUFFICES ASSUME CopyInit PROVE StableInv
      OBVIOUS
    <2>1. TypeOK /\ LayoutInv
      BY InitType, InitLayout DEF CopyInit
    <2>2. /\ DOMAIN disk = {0} /\ disk[0] = EmptySegment /\ active = 1
          /\ logs = <<[base |-> 0, size |-> 0, next |-> 0]>>
          /\ served = logs /\ batch = <<>> /\ sent = 0 /\ role \in {"leader", "replica"}
      BY DEF CopyInit, Init
    <2>3. BatchInv /\ Pending = 0
      BY <2>2 DEF BatchInv, Pending
    <2>4. Len(EmptySegment.idx) = 0 /\ logs[active].next = 0
      BY <2>2 DEF EmptySegment
    <2>5. WordsInv
      BY <2>2, <2>3, <2>4 DEF WordsInv
    <2> QED  BY <2>1, <2>2, <2>3, <2>5 DEF StableInv, TypeOK
  <1>2. StableInv /\ [CopyNext]_<<vars, replicaVars>> => StableInv'
    BY StableStep
  <1>3. StableInv /\ [CopyNext]_<<vars, replicaVars>> =>
           [\A o \in 0..MaxAppends :
               ReadAt(disk, served, o) \subseteq ReadAt(disk', served', o)]_<<vars, replicaVars>>
    <2> SUFFICES ASSUME StableInv, [CopyNext]_<<vars, replicaVars>>, NEW o \in 0..MaxAppends
                 PROVE  ReadAt(disk, served, o) \subseteq ReadAt(disk', served', o)
      OBVIOUS
    <2>1. o \in Nat
      BY PartitionAssumption
    <2> QED  BY <2>1, StableStep DEF ReadsStay
  <1> QED  BY <1>1, <1>2, <1>3, PTL DEF CopySpec, StableReads
=============================================================================
