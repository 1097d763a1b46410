--------------------------- MODULE ConsumerProofs ---------------------------
(***************************************************************************)
(* Machine-checked proofs about Consumer, for any number of partitions,    *)
(* brokers and messages, any channel capacity, and any crashes.            *)
(***************************************************************************)
EXTENDS Consumer, FiniteSetTheorems, TLAPS

----------------------------------------------------------------------------
(* Types, and what a goroutine holds at each stage.                        *)

Offsets == Nat \cup {None}
Result == [partition : Partitions, offset : Offsets]
Late == [partition : Partitions, offset : Nat, life : Nat]

TypeInv ==
    /\ up \in [Brokers -> BOOLEAN] /\ known \in BOOLEAN
    /\ end \in [Partitions -> Nat]
    /\ committed \in [Partitions -> Offsets]
    /\ late \subseteq Late
    /\ metadata \in BOOLEAN /\ boot \in {"none", "open", "dead"}
    /\ conn \in [Partitions -> {"none", "open", "dead"}]
    /\ unfetched \subseteq Partitions
    /\ pc \in [Partitions -> {"start", "poll", "send", "commit"}]
    /\ next \in [Partitions -> Nat]
    /\ result \in [Partitions -> Offsets]
    /\ ch \in Seq(Result) /\ Len(ch) <= ChanCap
    /\ received \in [Partitions -> SUBSET Nat]
    /\ last \in [Partitions -> Offsets]
    /\ dropped \in [Partitions -> SUBSET Nat] /\ stray \in BOOLEAN
    /\ crashes \in Nat /\ brokerCrashes \in Nat /\ dialFailures \in Nat

\* The goroutines start together, with an empty channel, and a message that was
\* polled is the one before c.offsets.
ThreadInv ==
    /\ \A p \in Partitions :
          pc[p] = "send" /\ result[p] # Err => next[p] = result[p] + 1
    /\ \A p \in Partitions : pc[p] = "commit" => result[p] # Err /\ next[p] = result[p] + 1
    /\ \A p, q \in Partitions : pc[p] = "start" => pc[q] = "start"
    /\ \A p \in Partitions : pc[p] = "start" => ch = <<>> /\ last[p] = None

\* The offsets below this one have gone into the channel.
Reached(p) == IF pc[p] = "send" /\ result[p] # Err THEN result[p] ELSE next[p]

Handed(p, o) == o \in received[p] \/ o \in InChannel(p)

Passed(p, o) == Handed(p, o) \/ o \in dropped[p]

\* All that a goroutine has passed, or that was committed, or that a commit on
\* its way speaks of, was handed over, or was in a channel that a crash took.
DeliveryInv ==
    /\ \A p \in Partitions : \A o \in 0..(Reached(p) - 1) : Passed(p, o)
    /\ \A p \in Partitions : \A o \in 0..(committed[p] - 1) : Passed(p, o)
    /\ \A l \in late : \A o \in 0..(l.offset - 1) : Passed(l.partition, o)

\* DeliveredInOrder, and the offset that comes after what is in the channel.
OrderAt(p) ==
    /\ \A i, j \in Waiting(p) : Adjacent(p, i, j) => ch[j].offset = ch[i].offset + 1
    /\ \A j \in Waiting(p) : last[p] # None /\ First(p, j) => ch[j].offset = last[p] + 1
    /\ \A i \in Waiting(p) :
          (\A k \in Waiting(p) : k <= i) => ch[i].offset + 1 = Reached(p)
    /\ Waiting(p) = {} /\ last[p] # None => last[p] + 1 = Reached(p)

OrderInv == \A p \in Partitions : OrderAt(p)

\* As long as the brokers run and can be reached, a consumer that starts finds
\* the offsets of its group, and is ahead of them from then on.
Undisturbed == brokerCrashes = 0 /\ dialFailures = 0 /\ ~stray

ForwardInv ==
    Undisturbed =>
        /\ \A b \in Brokers : up[b]
        /\ metadata => known
        /\ \A p \in Partitions :
              /\ committed[p] # None => known
              /\ pc[p] = "start" => metadata \/ boot = "none"
              /\ pc[p] = "start" /\ p \in unfetched => conn[p] = "none"
              /\ pc[p] # "start" \/ p \notin unfetched => committed[p] <= Reached(p)

\* A crash takes at most a channel of messages.
DroppedSet == UNION {{p} \X dropped[p] : p \in Partitions}

LossInv == IsFiniteSet(DroppedSet) /\ Cardinality(DroppedSet) <= crashes * ChanCap

\* Every step is of one of these kinds, by what it does to the goroutines and
\* to the channel.
Quiet == UNCHANGED <<committed, late, dropped, threadVars, appVars, crashes>>

Kinds ==
    \/ Quiet
    \/ Receive \/ Crash
    \/ \E p \in Partitions :
          \/ FetchOffset(p) \/ FetchAllOffsetsFails(p)
          \/ Poll(p) \/ PollFails(p) \/ Send(p) \/ CommitOffset(p) \/ CommitFails(p)
    \/ \E b \in Brokers : BrokerCrash(b)
    \/ \E l \in late : LateCommit(l)

LEMMA StepKinds ==
  ASSUME [Next]_vars
  PROVE  Kinds
  <1>1. CASE UNCHANGED vars
    BY <1>1 DEF vars, Kinds, Quiet, brokerVars, faultVars, crashVars
  <1>2. CASE Starting
    BY <1>2 DEF Starting, FetchTopicMetadata, Kinds, Quiet, brokerVars, faultVars, crashVars
  <1>3. CASE Receive \/ Crash
    BY <1>3 DEF Kinds
  <1>4. CASE TopicArrives \/ BootDeadlinePasses
    BY <1>4 DEF TopicArrives, BootDeadlinePasses, Kinds, Quiet, brokerVars, faultVars, crashVars
  <1>5. ASSUME NEW p \in Partitions, Goroutine(p) \/ Produce(p) \/ DeadlinePasses(p)
        PROVE  Kinds
    BY <1>5 DEF Goroutine, PollNotFound, Produce, DeadlinePasses, Kinds, Quiet, brokerVars, faultVars, crashVars
  <1>6. ASSUME NEW b \in Brokers, BrokerCrash(b) \/ BrokerRestart(b)
        PROVE  Kinds
    BY <1>6 DEF BrokerRestart, Kinds, Quiet, faultVars, crashVars
  <1>7. ASSUME NEW l \in late, LateCommit(l) PROVE Kinds
    BY <1>7 DEF Kinds
  <1> QED  BY <1>1, <1>2, <1>3, <1>4, <1>5, <1>6, <1>7 DEF Next

\* A result that is sent or received is one of the results.
LEMMA SentType ==
  ASSUME TypeInv, NEW p \in Partitions
  PROVE  /\ [partition |-> p, offset |-> result[p]] \in Result
         /\ Sent(p) \in Seq(Result) /\ Len(Sent(p)) = Len(ch) + 1
         /\ \A i \in 1..Len(ch) : Sent(p)[i] = ch[i]
         /\ Sent(p)[Len(ch) + 1] = [partition |-> p, offset |-> result[p]]
  <1>1. [partition |-> p, offset |-> result[p]] \in Result
    BY DEF TypeInv, Result
  <1> DEFINE r == [partition |-> p, offset |-> result[p]]
  <1>2. Sent(p) = Append(ch, r) /\ ch \in Seq(Result) /\ r \in Result
    BY <1>1 DEF Sent, TypeInv
  <1> HIDE DEF r
  <1>3. /\ Sent(p) \in Seq(Result) /\ Len(Sent(p)) = Len(ch) + 1
        /\ \A i \in 1..Len(ch) : Sent(p)[i] = ch[i]
        /\ Sent(p)[Len(ch) + 1] = r
    BY <1>2
  <1> QED  BY <1>1, <1>3 DEF r

LEMMA HeadType ==
  ASSUME TypeInv, ch # <<>>
  PROVE  /\ Head(ch) = ch[1] /\ Head(ch) \in Result
         /\ Head(ch).partition \in Partitions /\ Head(ch).offset \in Offsets
         /\ Len(ch) \in Nat \ {0} /\ Tail(ch) \in Seq(Result) /\ Len(Tail(ch)) = Len(ch) - 1
         /\ \A i \in 1..(Len(ch) - 1) : Tail(ch)[i] = ch[i + 1]
  <1>1. ch \in Seq(Result)
    BY DEF TypeInv
  <1>2. /\ Head(ch) = ch[1] /\ Head(ch) \in Result
        /\ Len(ch) \in Nat \ {0} /\ Tail(ch) \in Seq(Result) /\ Len(Tail(ch)) = Len(ch) - 1
        /\ \A i \in 1..(Len(ch) - 1) : Tail(ch)[i] = ch[i + 1]
    BY <1>1
  <1>3. \A r \in Result : r.partition \in Partitions /\ r.offset \in Offsets
    BY DEF Result
  <1> QED  BY <1>2, <1>3

LEMMA TypeStep ==
  ASSUME TypeInv, ThreadInv, [Next]_vars
  PROVE  TypeInv'
  <1> USE DEF brokerVars, clientVars, threadVars, appVars, faultVars, crashVars
  <1>0. ChanCap \in Nat \ {0}
    BY ConsumerAssumption
  <1>1. CASE UNCHANGED vars
    BY <1>1 DEF vars, TypeInv
  <1>2. CASE FetchTopicMetadata
    BY <1>2 DEF FetchTopicMetadata, TypeInv
  <1>3. ASSUME NEW p \in Partitions, FetchOffset(p) PROVE TypeInv'
    <2>1. pc' \in [Partitions -> {"start", "poll", "send", "commit"}] /\ unfetched' \subseteq Partitions
      BY <1>3 DEF FetchOffset, Proceed, All, TypeInv
    <2>2. next' \in [Partitions -> Nat]
      BY <1>3 DEF FetchOffset, TypeInv, Offsets
    <2> QED  BY <1>3, <2>1, <2>2 DEF FetchOffset, TypeInv
  <1>4. ASSUME NEW p \in Partitions, FetchAllOffsetsFails(p) PROVE TypeInv'
    BY <1>4 DEF FetchAllOffsetsFails, GetConnectionFails, DialFails, Proceed, All, Asked, TypeInv
  <1>5. CASE Receive
    <2> DEFINE r == Head(ch)
    <2>1. /\ ch # <<>> /\ ch' = Tail(ch)
          /\ IF r.offset = Err THEN UNCHANGED <<received, last>>
             ELSE /\ received' = [received EXCEPT ![r.partition] = @ \cup {r.offset}]
                  /\ last' = [last EXCEPT ![r.partition] = r.offset]
          /\ UNCHANGED <<brokerVars, clientVars, threadVars, faultVars>>
      BY <1>5 DEF Receive
    <2>2. /\ r.partition \in Partitions /\ r.offset \in Offsets
          /\ ch' \in Seq(Result) /\ Len(ch') = Len(ch) - 1 /\ Len(ch) \in Nat
      BY <2>1, HeadType
    <2> HIDE DEF r
    <2>3. received' \in [Partitions -> SUBSET Nat] /\ last' \in [Partitions -> Offsets]
      <3>1. CASE r.offset = Err
        BY <2>1, <3>1 DEF TypeInv
      <3>2. CASE r.offset # Err
        <4>1. r.offset \in Nat
          BY <2>2, <3>2 DEF Offsets, Err, None
        <4>2. /\ received' = [received EXCEPT ![r.partition] = @ \cup {r.offset}]
              /\ last' = [last EXCEPT ![r.partition] = r.offset]
          BY <2>1, <3>2
        <4> QED  BY <2>2, <4>1, <4>2 DEF TypeInv, Offsets
      <3> QED  BY <3>1, <3>2
    <2>4. Len(ch') <= ChanCap
      BY <1>0, <2>2 DEF TypeInv
    <2> QED  BY <2>1, <2>2, <2>3, <2>4 DEF TypeInv
  <1>6. CASE Crash
    <2>1. ch' \in Seq(Result) /\ Len(ch') <= ChanCap
      BY <1>0, <1>6 DEF Crash
    <2>2. /\ pc' \in [Partitions -> {"start", "poll", "send", "commit"}]
          /\ next' \in [Partitions -> Nat] /\ result' \in [Partitions -> Offsets]
          /\ conn' \in [Partitions -> {"none", "open", "dead"}] /\ last' \in [Partitions -> Offsets]
          /\ unfetched' \subseteq Partitions /\ crashes' \in Nat
      BY <1>6 DEF Crash, All, Offsets, Err, None, TypeInv
    <2>3. late' \subseteq Late /\ dropped' \in [Partitions -> SUBSET Nat]
      <3>1. \A p \in Sending : p \in Partitions /\ result[p] + 1 \in Nat
        BY DEF Sending, ThreadInv, TypeInv, Offsets, Err, None
      <3>2. late' \subseteq Late
        BY <1>6, <3>1 DEF Crash, TypeInv, Late
      <3>3. \A p \in Partitions : InChannel(p) \subseteq Nat
        <4> SUFFICES ASSUME NEW p \in Partitions, NEW i \in DOMAIN ch, ch[i].offset # Err
                     PROVE  ch[i].offset \in Nat
          BY DEF InChannel
        <4>1. ch[i] \in Result
          BY DEF TypeInv
        <4> QED  BY <4>1 DEF Result, Offsets, Err, None
      <3> QED  BY <1>6, <3>2, <3>3 DEF Crash, TypeInv
    <2> QED  BY <1>6, <2>1, <2>2, <2>3 DEF Crash, TypeInv
  <1>7. CASE TopicArrives \/ BootDeadlinePasses
    BY <1>7 DEF TopicArrives, BootDeadlinePasses, TypeInv
  <1>8. ASSUME NEW p \in Partitions, Poll(p) PROVE TypeInv'
    BY <1>8 DEF Poll, Served, Goes, TypeInv, Offsets
  <1>9. ASSUME NEW p \in Partitions, PollNotFound(p) \/ Produce(p) \/ DeadlinePasses(p) PROVE TypeInv'
    <2>1. CASE PollNotFound(p)  BY <2>1 DEF PollNotFound, Served, TypeInv
    <2>2. CASE Produce(p)  BY <2>2 DEF Produce, TypeInv
    <2>3. CASE DeadlinePasses(p)  BY <2>3 DEF DeadlinePasses, TypeInv
    <2> QED  BY <1>9, <2>1, <2>2, <2>3
  <1>10. ASSUME NEW p \in Partitions, PollFails(p) PROVE TypeInv'
    <2>1. result' \in [Partitions -> Offsets]
      BY <1>10 DEF PollFails, TypeInv, Offsets, Err, None
    <2> QED  BY <1>10, <2>1 DEF PollFails, GetConnectionFails, DialFails, Asked, Goes, TypeInv
  <1>11. ASSUME NEW p \in Partitions, Send(p) PROVE TypeInv'
    <2>1. ch' \in Seq(Result) /\ Len(ch') = Len(ch) + 1 /\ Len(ch) < ChanCap
      BY <1>11, SentType DEF Send
    <2>2. Len(ch') <= ChanCap
      <3>1. Len(ch) \in Nat  BY DEF TypeInv
      <3> QED  BY <1>0, <2>1, <3>1
    <2>3. pc' \in [Partitions -> {"start", "poll", "send", "commit"}]
      BY <1>11 DEF Send, AfterSend, Goes, TypeInv
    <2> QED  BY <1>11, <2>1, <2>2, <2>3 DEF Send, TypeInv
  <1>12. ASSUME NEW p \in Partitions, CommitOffset(p) PROVE TypeInv'
    <2>1. result[p] \in Nat
      BY <1>12 DEF CommitOffset, ThreadInv, TypeInv, Offsets, Err, None
    <2>2. committed' \in [Partitions -> Offsets]
      BY <1>12, <2>1 DEF CommitOffset, TypeInv, Offsets
    <2> QED  BY <1>12, <2>2 DEF CommitOffset, Served, Goes, TypeInv
  <1>13. ASSUME NEW p \in Partitions, CommitFails(p) PROVE TypeInv'
    BY <1>13 DEF CommitFails, Goes, TypeInv
  <1>14. ASSUME NEW b \in Brokers, BrokerCrash(b) PROVE TypeInv'
    <2>1. PICK done \in SUBSET {p \in Sending : Leader[p] = b} :
             committed' = [p \in Partitions |-> IF p \in done THEN result[p] + 1 ELSE committed[p]]
      BY <1>14 DEF BrokerCrash
    <2>2. \A p \in Partitions : p \in done => result[p] \in Nat
      BY <2>1 DEF Sending, ThreadInv, TypeInv, Offsets, Err, None
    <2>3. committed' \in [Partitions -> Offsets]
      BY <2>1, <2>2 DEF TypeInv, Offsets
    <2> QED  BY <1>14, <2>3 DEF BrokerCrash, TypeInv
  <1>15. ASSUME NEW b \in Brokers, BrokerRestart(b) PROVE TypeInv'
    BY <1>15 DEF BrokerRestart, TypeInv
  <1>16. ASSUME NEW l \in late, LateCommit(l) PROVE TypeInv'
    <2>1. l.partition \in Partitions /\ l.offset \in Nat
      BY DEF TypeInv, Late
    <2> QED  BY <1>16, <2>1 DEF LateCommit, TypeInv, Offsets
  <1> QED
    BY <1>1, <1>2, <1>3, <1>4, <1>5, <1>6, <1>7, <1>8, <1>9, <1>10, <1>11, <1>12, <1>13, <1>14, <1>15, <1>16
       DEF Next, Starting, Goroutine

LEMMA ThreadStep ==
  ASSUME TypeInv, ThreadInv, Kinds
  PROVE  ThreadInv'
  <1>1. CASE Quiet
    BY <1>1 DEF Quiet, ThreadInv, threadVars, appVars
  <1>2. CASE Receive
    <2>1. ch # <<>> /\ UNCHANGED threadVars
      BY <1>2 DEF Receive
    <2>2. \A p \in Partitions : pc[p] # "start"
      BY <2>1 DEF ThreadInv
    <2> QED  BY <2>1, <2>2 DEF ThreadInv, threadVars
  <1>3. CASE Crash
    BY <1>3 DEF Crash, All, ThreadInv
  <1>4. ASSUME NEW p \in Partitions, FetchOffset(p) \/ FetchAllOffsetsFails(p)
        PROVE  ThreadInv'
    <2>1. /\ pc[p] = "start" /\ (pc' = pc \/ pc' = All("poll"))
          /\ UNCHANGED <<result, ch, last>>
      BY <1>4 DEF FetchOffset, FetchAllOffsetsFails, Proceed, appVars
    <2>2. \A q \in Partitions : pc[q] = "start"
      BY <2>1 DEF ThreadInv
    <2> QED  BY <2>1, <2>2 DEF ThreadInv, All
  <1>5. ASSUME NEW p \in Partitions,
               Poll(p) \/ PollFails(p) \/ Send(p) \/ CommitOffset(p) \/ CommitFails(p)
        PROVE  ThreadInv'
    <2>1. \A q \in Partitions : pc[q] # "start"
      BY <1>5 DEF Poll, PollFails, Send, CommitOffset, CommitFails, ThreadInv
    <2>2. \A q \in Partitions : pc'[q] # "start"
      BY <1>5, <2>1 DEF Poll, PollFails, Send, CommitOffset, CommitFails, AfterSend, Goes, TypeInv
    <2>3. ASSUME NEW q \in Partitions
          PROVE  /\ pc'[q] = "send" /\ result'[q] # Err => next'[q] = result'[q] + 1
                 /\ pc'[q] = "commit" => result'[q] # Err /\ next'[q] = result'[q] + 1
      <3>1. CASE Poll(p)
        BY <3>1 DEF Poll, Goes, TypeInv, ThreadInv, Err
      <3>2. CASE PollFails(p)
        BY <3>2 DEF PollFails, Goes, TypeInv, ThreadInv
      <3>3. CASE Send(p)
        BY <3>3 DEF Send, AfterSend, Goes, TypeInv, ThreadInv
      <3>4. CASE CommitOffset(p) \/ CommitFails(p)
        BY <3>4 DEF CommitOffset, CommitFails, Goes, TypeInv, ThreadInv, threadVars
      <3> QED  BY <1>5, <3>1, <3>2, <3>3, <3>4
    <2> QED  BY <2>2, <2>3 DEF ThreadInv
  <1>6. ASSUME NEW b \in Brokers, BrokerCrash(b) PROVE ThreadInv'
    BY <1>6 DEF BrokerCrash, ThreadInv, threadVars, appVars
  <1>7. ASSUME NEW l \in late, LateCommit(l) PROVE ThreadInv'
    BY <1>7 DEF LateCommit, ThreadInv, threadVars, appVars
  <1> QED  BY <1>1, <1>2, <1>3, <1>4, <1>5, <1>6, <1>7 DEF Kinds

----------------------------------------------------------------------------
(* How far a goroutine is, and what it has handed over.                    *)

LEMMA ReachedType ==
  ASSUME TypeInv, NEW p \in Partitions
  PROVE  Reached(p) \in Nat
  <1>1. next[p] \in Nat /\ (result[p] # Err => result[p] \in Nat)
    BY DEF TypeInv, Offsets, Err, None
  <1> QED  BY <1>1 DEF Reached

\* Only Send, the start and a crash change how far a goroutine is.
LEMMA ReachedStep ==
  ASSUME TypeInv, ThreadInv, Kinds, NEW q \in Partitions
  PROVE  \/ Crash /\ Reached(q)' = 0
         \/ /\ FetchOffset(q)
            /\ Reached(q)' = IF committed[q] = None THEN 0 ELSE committed[q]
         \/ Send(q) /\ result[q] # Err /\ Reached(q) = result[q] /\ Reached(q)' = result[q] + 1
         \/ Reached(q)' = Reached(q)
  <1>1. CASE Quiet \/ Receive \/ (\E b \in Brokers : BrokerCrash(b)) \/ \E l \in late : LateCommit(l)
    BY <1>1 DEF Quiet, Receive, BrokerCrash, LateCommit, threadVars, Reached
  <1>2. CASE Crash
    BY <1>2 DEF Crash, All, Reached
  <1>3. ASSUME NEW p \in Partitions, FetchOffset(p) \/ FetchAllOffsetsFails(p)
        PROVE  \/ /\ FetchOffset(q)
                  /\ Reached(q)' = IF committed[q] = None THEN 0 ELSE committed[q]
               \/ Reached(q)' = Reached(q)
    <2>1. pc[p] = "start" /\ (pc' = pc \/ pc' = All("poll"))
      BY <1>3 DEF FetchOffset, FetchAllOffsetsFails, Proceed
    <2>2. pc[q] = "start" /\ pc'[q] \in {"start", "poll"}
      BY <2>1 DEF ThreadInv, All
    <2>3. Reached(q) = next[q] /\ Reached(q)' = next'[q]
      BY <2>2 DEF Reached
    <2>4. CASE FetchAllOffsetsFails(p)
      BY <2>3, <2>4 DEF FetchAllOffsetsFails
    <2>5. CASE FetchOffset(p) /\ p # q
      <3>1. next'[q] = next[q]  BY <2>5 DEF FetchOffset, TypeInv
      <3> QED  BY <2>3, <3>1
    <2>6. CASE FetchOffset(p) /\ p = q
      <3>1. next'[q] = IF committed[q] = None THEN 0 ELSE committed[q]
        BY <2>6 DEF FetchOffset, TypeInv
      <3> QED  BY <2>3, <2>6, <3>1
    <2> QED  BY <1>3, <2>4, <2>5, <2>6
  <1>4. ASSUME NEW p \in Partitions, Poll(p) \/ PollFails(p) \/ CommitOffset(p) \/ CommitFails(p)
        PROVE  Reached(q)' = Reached(q)
    <2>1. CASE p = q
      <3>1. CASE Poll(p)
        BY <2>1, <3>1 DEF Poll, Goes, TypeInv, Reached, Err
      <3>2. CASE PollFails(p)
        BY <2>1, <3>2 DEF PollFails, Goes, TypeInv, Reached
      <3>3. CASE CommitOffset(p) \/ CommitFails(p)
        BY <2>1, <3>3 DEF CommitOffset, CommitFails, Goes, TypeInv, Reached, threadVars
      <3> QED  BY <1>4, <3>1, <3>2, <3>3
    <2>2. CASE p # q
      <3>1. pc'[q] = pc[q] /\ next'[q] = next[q] /\ result'[q] = result[q]
        BY <1>4, <2>2 DEF Poll, PollFails, CommitOffset, CommitFails, Goes, TypeInv
      <3> QED  BY <3>1 DEF Reached
    <2> QED  BY <2>1, <2>2
  <1>5. ASSUME NEW p \in Partitions, Send(p)
        PROVE  \/ Send(q) /\ result[q] # Err /\ Reached(q) = result[q] /\ Reached(q)' = result[q] + 1
               \/ Reached(q)' = Reached(q)
    <2>1. CASE p # q
      BY <1>5, <2>1 DEF Send, AfterSend, Goes, TypeInv, Reached
    <2>2. CASE p = q
      <3>1. /\ pc[q] = "send" /\ next' = next /\ result' = result
            /\ pc'[q] = IF result[q] = Err THEN "poll" ELSE "commit"
        BY <1>5, <2>2 DEF Send, AfterSend, Goes, TypeInv
      <3>2. result[q] # Err => next[q] = result[q] + 1
        BY <3>1 DEF ThreadInv
      <3> QED  BY <1>5, <2>2, <3>1, <3>2 DEF Reached
    <2> QED  BY <2>1, <2>2
  <1> QED  BY <1>1, <1>2, <1>3, <1>4, <1>5 DEF Kinds

LEMMA InChannelDef ==
  ASSUME TypeInv
  PROVE  \A p, o : o \in InChannel(p) <=>
            o # Err /\ \E i \in 1..Len(ch) : ch[i].partition = p /\ ch[i].offset = o
  <1>1. DOMAIN ch = 1..Len(ch)
    BY DEF TypeInv
  <1> QED  BY <1>1 DEF InChannel

\* Unless the process dies, what was handed over stays so.
LEMMA HandedKept ==
  ASSUME TypeInv, TypeInv', Kinds, ~Crash, NEW q \in Partitions, NEW o, Handed(q, o)
  PROVE  Handed(q, o)'
  <1>0. DOMAIN ch = 1..Len(ch) /\ DOMAIN ch' = 1..Len(ch') /\ Len(ch) \in Nat /\ Len(ch') \in Nat
    BY DEF TypeInv
  <1>1. CASE UNCHANGED <<ch, received>>
    BY <1>1 DEF Handed, InChannel
  <1>2. CASE Receive
    <2> DEFINE r == Head(ch)
    <2>1. /\ ch # <<>> /\ ch' = Tail(ch)
          /\ IF r.offset = Err THEN received' = received
             ELSE received' = [received EXCEPT ![r.partition] = @ \cup {r.offset}]
      BY <1>2 DEF Receive
    <2>2. /\ r = ch[1] /\ r.partition \in Partitions /\ Len(ch) \in Nat \ {0} /\ Len(ch') = Len(ch) - 1
          /\ \A i \in 1..(Len(ch) - 1) : ch'[i] = ch[i + 1]
      BY <2>1, HeadType
    <2> HIDE DEF r
    <2>3. CASE o \in received[q]
      <3>1. received[q] \subseteq received'[q]
        <4>1. received \in [Partitions -> SUBSET Nat]  BY DEF TypeInv
        <4>2. CASE r.offset = Err  BY <2>1, <4>2
        <4>3. CASE received' = [received EXCEPT ![r.partition] = @ \cup {r.offset}]
          BY <2>2, <4>1, <4>3
        <4> QED  BY <2>1, <4>2, <4>3
      <3> QED  BY <2>3, <3>1 DEF Handed
    <2>4. CASE o \in InChannel(q)
      <3>1. PICK i \in 1..Len(ch) : o # Err /\ ch[i].partition = q /\ ch[i].offset = o
        BY <2>4, InChannelDef
      <3>2. CASE i = 1
        <4>1. r.partition = q /\ r.offset = o /\ o # Err
          BY <2>2, <3>1, <3>2
        <4> QED  BY <2>1, <4>1 DEF Handed, TypeInv
      <3>3. CASE i # 1
        <4>1. i - 1 \in 1..Len(ch') /\ i - 1 \in 1..(Len(ch) - 1) /\ (i - 1) + 1 = i
          BY <2>2, <3>1, <3>3
        <4>2. ch'[i - 1] = ch[i]
          BY <2>2, <4>1
        <4>3. \E k \in DOMAIN ch' : ch'[k].partition = q /\ ch'[k].offset = o
          BY <1>0, <3>1, <4>1, <4>2
        <4> QED  BY <3>1, <4>3 DEF Handed, InChannel
      <3> QED  BY <3>2, <3>3
    <2> QED  BY <2>3, <2>4 DEF Handed
  <1>3. ASSUME NEW p \in Partitions, Send(p)
        PROVE  Handed(q, o)'
    <2>1. ch' = Sent(p) /\ received' = received
      BY <1>3 DEF Send
    <2>2. Len(ch') = Len(ch) + 1 /\ \A i \in 1..Len(ch) : ch'[i] = ch[i]
      BY <2>1, SentType
    <2>3. CASE o \in InChannel(q)
      <3>1. PICK i \in 1..Len(ch) : o # Err /\ ch[i].partition = q /\ ch[i].offset = o
        BY <2>3, InChannelDef
      <3>2. i \in DOMAIN ch' /\ ch'[i] = ch[i]
        BY <1>0, <2>2, <3>1
      <3> QED  BY <3>1, <3>2 DEF Handed, InChannel
    <2> QED  BY <2>1, <2>3 DEF Handed
  <1> QED  BY <1>1, <1>2, <1>3 DEF Kinds, Quiet, FetchOffset, FetchAllOffsetsFails, Poll, PollFails,
                                   CommitOffset, CommitFails, BrokerCrash, LateCommit, appVars

----------------------------------------------------------------------------
(* Nothing is lost but by a crash.                                         *)

\* A commit is of a message that was handed over, and ends at the next one, or
\* is one that a consumer sent before it died.
LEMMA CommitStep ==
  ASSUME TypeInv, ThreadInv, Kinds, NEW q \in Partitions
  PROVE  \/ committed'[q] = committed[q]
         \/ pc[q] = "commit" /\ committed'[q] = Reached(q)
         \/ \E l \in late : LateCommit(l) /\ l.partition = q /\ committed'[q] = l.offset
  <1>1. ASSUME NEW p \in Partitions, CommitOffset(p)
        PROVE  committed'[q] = committed[q] \/ (pc[q] = "commit" /\ committed'[q] = Reached(q))
    <2>1. CASE p = q
      <3>1. pc[q] = "commit" /\ committed'[q] = result[q] + 1
        BY <1>1, <2>1 DEF CommitOffset, TypeInv
      <3> QED  BY <3>1 DEF ThreadInv, Reached
    <2>2. CASE p # q
      BY <1>1, <2>2 DEF CommitOffset, TypeInv
    <2> QED  BY <2>1, <2>2
  <1>2. ASSUME NEW b \in Brokers, BrokerCrash(b)
        PROVE  committed'[q] = committed[q] \/ (pc[q] = "commit" /\ committed'[q] = Reached(q))
    <2>1. PICK done \in SUBSET {p \in Sending : Leader[p] = b} :
             committed' = [p \in Partitions |-> IF p \in done THEN result[p] + 1 ELSE committed[p]]
      BY <1>2 DEF BrokerCrash
    <2>2. CASE q \in done
      <3>1. pc[q] = "commit" /\ committed'[q] = result[q] + 1
        BY <2>1, <2>2 DEF Sending
      <3> QED  BY <3>1 DEF ThreadInv, Reached
    <2>3. CASE q \notin done
      BY <2>1, <2>3
    <2> QED  BY <2>2, <2>3
  <1>3. ASSUME NEW l \in late, LateCommit(l)
        PROVE  committed'[q] = committed[q] \/ (l.partition = q /\ committed'[q] = l.offset)
    BY <1>3 DEF LateCommit, TypeInv, Late
  <1>4. CASE committed' = committed
    BY <1>4
  <1> QED  BY <1>1, <1>2, <1>3, <1>4 DEF Kinds, Quiet, Receive, Crash, FetchOffset,
              FetchAllOffsetsFails, Poll, PollFails, Send, CommitFails, brokerVars

\* The commits that are on their way when the consumer dies.
LEMMA LateStep ==
  ASSUME TypeInv, ThreadInv, Kinds, NEW l \in late', l \notin late
  PROVE  l.partition \in Partitions /\ l.offset = Reached(l.partition)
  <1>1. Crash
    BY DEF Kinds, Quiet, Receive, FetchOffset, FetchAllOffsetsFails, Poll, PollFails, Send,
           CommitOffset, CommitFails, BrokerCrash, LateCommit, brokerVars
  <1>2. PICK p \in Sending : l = [partition |-> p, offset |-> result[p] + 1, life |-> crashes]
    BY <1>1 DEF Crash
  <1>3. l.partition = p /\ l.offset = result[p] + 1 /\ p \in Partitions /\ pc[p] = "commit"
    BY <1>2 DEF Sending
  <1> QED  BY <1>3 DEF ThreadInv, Reached

\* What was handed over stays so, or is in the channel that a crash takes.
LEMMA PassedKept ==
  ASSUME TypeInv, TypeInv', Kinds, NEW q \in Partitions, NEW o, Passed(q, o)
  PROVE  Passed(q, o)'
  <1>1. CASE Crash
    <2>1. received' = received /\ dropped'[q] = dropped[q] \cup InChannel(q)
      BY <1>1 DEF Crash
    <2> QED  BY <2>1 DEF Passed, Handed
  <1>2. CASE ~Crash
    <2>1. dropped' = dropped
      BY <1>2 DEF Kinds, Quiet, Receive, FetchOffset, FetchAllOffsetsFails, Poll, PollFails, Send,
                  CommitOffset, CommitFails, BrokerCrash, LateCommit, faultVars, crashVars
    <2> QED  BY <1>2, <2>1, HandedKept DEF Passed
  <1> QED  BY <1>1, <1>2

\* A message that goes into the channel is handed over.
LEMMA SentPassed ==
  ASSUME TypeInv, TypeInv', NEW q \in Partitions, Send(q), NEW o, o = result[q], o # Err
  PROVE  Passed(q, o)'
  <1>1. ch' = Sent(q)
    BY DEF Send
  <1>2. Len(ch') = Len(ch) + 1 /\ DOMAIN ch' = 1..Len(ch') /\ Len(ch) \in Nat
    <2>1. DOMAIN ch' = 1..Len(ch') /\ Len(ch) \in Nat  BY DEF TypeInv
    <2>2. Len(ch') = Len(ch) + 1  BY <1>1, SentType
    <2> QED  BY <2>1, <2>2
  <1>3. /\ Len(ch) + 1 \in DOMAIN ch'
        /\ ch'[Len(ch) + 1] = [partition |-> q, offset |-> result[q]]
    BY <1>1, <1>2, SentType
  <1>4. \E k \in DOMAIN ch' : ch'[k].partition = q /\ ch'[k].offset = o
    BY <1>3
  <1> QED  BY <1>4 DEF Passed, Handed, InChannel

LEMMA DeliveryStep ==
  ASSUME TypeInv, TypeInv', ThreadInv, DeliveryInv, Kinds
  PROVE  DeliveryInv'
  <1>0. \A q \in Partitions : Reached(q) \in Nat /\ committed[q] \in Int
    <2>1. \A q \in Partitions : Reached(q) \in Nat
      BY ReachedType
    <2>2. \A q \in Partitions : committed[q] \in Int
      BY DEF TypeInv, Offsets, None
    <2> QED  BY <2>1, <2>2
  <1>1. ASSUME NEW q \in Partitions, NEW o \in 0..(Reached(q) - 1) PROVE Passed(q, o)'
    BY <1>1, PassedKept DEF DeliveryInv
  <1>2. ASSUME NEW q \in Partitions, NEW o \in 0..(committed[q] - 1) PROVE Passed(q, o)'
    BY <1>2, PassedKept DEF DeliveryInv
  <1>3. ASSUME NEW l \in late, NEW o \in 0..(l.offset - 1)
        PROVE  l.partition \in Partitions /\ Passed(l.partition, o)'
    <2>1. l.partition \in Partitions
      BY DEF TypeInv, Late
    <2> QED  BY <1>3, <2>1, PassedKept DEF DeliveryInv
  <1>4. ASSUME NEW q \in Partitions, NEW o \in 0..(Reached(q)' - 1) PROVE Passed(q, o)'
    <2>1. CASE Crash /\ Reached(q)' = 0
      BY <1>4, <2>1
    <2>2. CASE FetchOffset(q) /\ Reached(q)' = IF committed[q] = None THEN 0 ELSE committed[q]
      BY <1>0, <1>2, <1>4, <2>2
    <2>3. CASE Send(q) /\ result[q] # Err /\ Reached(q) = result[q] /\ Reached(q)' = result[q] + 1
      <3>1. CASE o = result[q]
        BY <2>3, <3>1, SentPassed
      <3>2. CASE o # result[q]
        <4>1. o \in 0..(Reached(q) - 1)
          BY <1>0, <1>4, <2>3, <3>2
        <4> QED  BY <1>1, <4>1
      <3> QED  BY <3>1, <3>2
    <2>4. CASE Reached(q)' = Reached(q)
      BY <1>1, <1>4, <2>4
    <2> QED  BY <2>1, <2>2, <2>3, <2>4, ReachedStep
  <1>5. ASSUME NEW q \in Partitions, NEW o \in 0..(committed'[q] - 1) PROVE Passed(q, o)'
    <2>1. CASE committed'[q] = committed[q]
      BY <1>2, <1>5, <2>1
    <2>2. CASE committed'[q] = Reached(q)
      BY <1>1, <1>5, <2>2
    <2>3. ASSUME NEW l \in late, l.partition = q, committed'[q] = l.offset PROVE Passed(q, o)'
      BY <1>3, <1>5, <2>3
    <2> QED  BY <2>1, <2>2, <2>3, CommitStep
  <1>6. ASSUME NEW l \in late', NEW o \in 0..(l.offset - 1) PROVE Passed(l.partition, o)'
    <2>1. CASE l \in late
      BY <1>3, <1>6, <2>1
    <2>2. CASE l \notin late
      <3>1. l.partition \in Partitions /\ l.offset = Reached(l.partition)
        BY <1>6, <2>2, LateStep
      <3> QED  BY <1>1, <1>6, <3>1
    <2> QED  BY <2>1, <2>2
  <1> QED  BY <1>4, <1>5, <1>6 DEF DeliveryInv

\* The channel of a consumer that dies holds at most ChanCap results.
Held == {<<ch[i].partition, ch[i].offset>> : i \in DOMAIN ch}

LEMMA HeldBounded ==
  ASSUME TypeInv
  PROVE  IsFiniteSet(Held) /\ Cardinality(Held) <= ChanCap
  <1>1. Len(ch) \in Nat /\ DOMAIN ch = 1..Len(ch) /\ Len(ch) <= ChanCap /\ ChanCap \in Nat
    BY ConsumerAssumption DEF TypeInv
  <1>2. IsFiniteSet(1..Len(ch)) /\ Cardinality(1..Len(ch)) = Len(ch)
    <2>1. 1 \in Int /\ Len(ch) \in Int  BY <1>1
    <2>2. Cardinality(1..Len(ch)) = IF 1 > Len(ch) THEN 0 ELSE Len(ch) - 1 + 1
      BY <2>1, FS_Interval
    <2>3. IsFiniteSet(1..Len(ch))
      BY <2>1, FS_Interval
    <2>4. (IF 1 > Len(ch) THEN 0 ELSE Len(ch) - 1 + 1) = Len(ch)
      BY <1>1
    <2> QED  BY <2>2, <2>3, <2>4
  <1> DEFINE f == [i \in 1..Len(ch) |-> <<ch[i].partition, ch[i].offset>>]
  <1>3. f \in Surjection(1..Len(ch), Held)
    BY <1>1 DEF Surjection, Held
  <1>4. IsFiniteSet(Held) /\ Cardinality(Held) <= Cardinality(1..Len(ch))
    <2> HIDE DEF f
    <2> QED  BY <1>2, <1>3, FS_Surjection
  <1>5. Cardinality(Held) \in Nat
    BY <1>4, FS_CardinalityType
  <1> QED  BY <1>1, <1>2, <1>4, <1>5

LEMMA LossStep ==
  ASSUME TypeInv, TypeInv', LossInv, Kinds
  PROVE  LossInv'
  <1> DEFINE L == DroppedSet
             M == DroppedSet'
  <1>0. /\ IsFiniteSet(L) /\ Cardinality(L) <= crashes * ChanCap
        /\ crashes \in Nat /\ ChanCap \in Nat /\ crashes' \in Nat
    BY ConsumerAssumption DEF LossInv, TypeInv
  <1>1. CASE ~Crash
    <2>1. dropped' = dropped /\ crashes' = crashes
      BY <1>1 DEF Kinds, Quiet, Receive, FetchOffset, FetchAllOffsetsFails, Poll, PollFails, Send,
                  CommitOffset, CommitFails, BrokerCrash, LateCommit, faultVars, crashVars
    <2> QED  BY <2>1 DEF LossInv, DroppedSet
  <1>2. CASE Crash
    <2>1. M \subseteq L \cup Held
      <3> SUFFICES ASSUME NEW q \in Partitions, NEW o \in dropped'[q], <<q, o>> \notin Held
                   PROVE  o \in dropped[q]
        BY DEF DroppedSet
      <3>1. o \in dropped[q] \cup InChannel(q)
        BY <1>2 DEF Crash
      <3>2. o \notin InChannel(q)
        BY DEF InChannel, Held
      <3> QED  BY <3>1, <3>2
    <2>2. crashes' = crashes + 1
      BY <1>2 DEF Crash
    <2>3. IsFiniteSet(Held) /\ Cardinality(Held) <= ChanCap
      BY HeldBounded
    <2> HIDE DEF L, M
    <2>4. /\ IsFiniteSet(L \cup Held)
          /\ Cardinality(L \cup Held) = Cardinality(L) + Cardinality(Held) - Cardinality(L \cap Held)
      BY <1>0, <2>3, FS_Union
    <2>5. IsFiniteSet(M) /\ Cardinality(M) <= Cardinality(L \cup Held)
      BY <2>1, <2>4, FS_Subset
    <2>6. IsFiniteSet(L \cap Held)
      BY <1>0, FS_Intersection
    <2>7. /\ Cardinality(L) \in Nat /\ Cardinality(M) \in Nat /\ Cardinality(Held) \in Nat
          /\ Cardinality(L \cap Held) \in Nat
      BY <1>0, <2>3, <2>5, <2>6, FS_CardinalityType
    <2>8. Cardinality(M) <= crashes * ChanCap + ChanCap
      <3>1. crashes * ChanCap \in Nat  BY <1>0
      <3> QED  BY <1>0, <2>3, <2>4, <2>5, <2>7, <3>1
    <2>9. (crashes + 1) * ChanCap = crashes * ChanCap + ChanCap
      BY <1>0
    <2> QED  BY <2>2, <2>5, <2>8, <2>9 DEF M, LossInv
  <1> QED  BY <1>1, <1>2

\* What is lost was in a channel that a crash took.
LEMMA LostDropped ==
  ASSUME TypeInv, DeliveryInv, NEW p \in Partitions
  PROVE  Lost(p) \subseteq dropped[p]
  BY DEF Lost, DeliveryInv, Passed, Handed

----------------------------------------------------------------------------
(* Messages are delivered in order.                                        *)

LEMMA WaitingIn ==
  ASSUME TypeInv
  PROVE  \A p : Waiting(p) = {i \in 1..Len(ch) : ch[i].partition = p /\ ch[i].offset # Err}
  <1>1. DOMAIN ch = 1..Len(ch)
    BY DEF TypeInv
  <1> QED  BY <1>1 DEF Waiting

\* Nothing of the partition is sent, taken out or polled.
LEMMA OrderKept ==
  ASSUME NEW q \in Partitions, OrderAt(q), Reached(q)' = Reached(q), last'[q] = last[q],
         Waiting(q)' = Waiting(q), \A i \in Waiting(q) : ch'[i] = ch[i]
  PROVE  OrderAt(q)'
  BY DEF OrderAt, Adjacent, First

\* The message that was polled last goes in last.
LEMMA OrderSent ==
  ASSUME TypeInv, TypeInv', NEW q \in Partitions, OrderAt(q), Send(q), result[q] # Err,
         Reached(q) = result[q], Reached(q)' = result[q] + 1
  PROVE  OrderAt(q)'
  <1> DEFINE n == Len(ch) + 1
             W == Waiting(q)
  <1>1. ch' = Sent(q) /\ last' = last
    BY DEF Send
  <1>2. /\ Len(ch') = n /\ \A i \in 1..Len(ch) : ch'[i] = ch[i]
        /\ ch'[n] = [partition |-> q, offset |-> result[q]]
    BY <1>1, SentType
  <1>3. Len(ch) \in Nat /\ W = {i \in 1..Len(ch) : ch[i].partition = q /\ ch[i].offset # Err}
    <2>1. Len(ch) \in Nat  BY DEF TypeInv
    <2> QED  BY <2>1, WaitingIn
  <1>4. Waiting(q)' = {i \in 1..Len(ch') : ch'[i].partition = q /\ ch'[i].offset # Err}
    <2>1. DOMAIN ch' = 1..Len(ch')
      BY DEF TypeInv
    <2> QED  BY <2>1 DEF Waiting
  <1>5. ch'[n].partition = q /\ ch'[n].offset = result[q]
    BY <1>2
  <1>6. 1..n = 1..Len(ch) \cup {n} /\ \A i \in 1..Len(ch) : i < n /\ i \in Int /\ n \in Int
    BY <1>3
  <1> HIDE DEF n, W
  <1>7. Waiting(q)' = W \cup {n}
    BY <1>2, <1>3, <1>4, <1>5, <1>6
  <1>8. \A i \in W : ch'[i] = ch[i] /\ i < n /\ i \in Int
    BY <1>2, <1>3, <1>6
  <1>9. n \in Int /\ n \notin W
    BY <1>3, <1>6 DEF n
  <1>10. \A i, j \in Waiting(q)' : Adjacent(q, i, j)' => ch'[j].offset = ch'[i].offset + 1
    <2> SUFFICES ASSUME NEW i \in W \cup {n}, NEW j \in W \cup {n},
                        i < j, \A k \in W \cup {n} : k <= i \/ k >= j
                 PROVE  ch'[j].offset = ch'[i].offset + 1
      BY <1>7 DEF Adjacent
    <2>1. i \in W
      BY <1>8, <1>9
    <2>2. CASE j \in W
      BY <1>8, <2>1, <2>2 DEF OrderAt, Adjacent, W
    <2>3. CASE j = n
      <3>1. \A k \in W : k <= i
        BY <1>8, <1>9, <2>3
      <3>2. ch[i].offset + 1 = Reached(q)
        BY <2>1, <3>1 DEF OrderAt, W
      <3> QED  BY <1>5, <1>8, <2>1, <2>3, <3>2
    <2> QED  BY <2>2, <2>3
  <1>11. \A j \in Waiting(q)' : last'[q] # None /\ First(q, j)' => ch'[j].offset = last'[q] + 1
    <2> SUFFICES ASSUME NEW j \in W \cup {n}, last[q] # None, \A k \in W \cup {n} : k >= j
                 PROVE  ch'[j].offset = last[q] + 1
      BY <1>1, <1>7 DEF First
    <2>1. CASE j \in W
      BY <1>8, <2>1 DEF OrderAt, First, W
    <2>2. CASE j = n
      <3>1. W = {}
        BY <1>8, <1>9, <2>2
      <3>2. last[q] + 1 = Reached(q)
        BY <3>1 DEF OrderAt, W
      <3> QED  BY <1>5, <2>2, <3>2
    <2> QED  BY <2>1, <2>2
  <1>12. \A i \in Waiting(q)' :
            (\A k \in Waiting(q)' : k <= i) => ch'[i].offset + 1 = Reached(q)'
    <2> SUFFICES ASSUME NEW i \in W \cup {n}, \A k \in W \cup {n} : k <= i
                 PROVE  ch'[i].offset + 1 = Reached(q)'
      BY <1>7
    <2>1. i = n
      BY <1>8, <1>9
    <2> QED  BY <1>5, <2>1
  <1>13. Waiting(q)' # {}
    BY <1>7
  <1> QED  BY <1>10, <1>11, <1>12, <1>13 DEF OrderAt

\* The oldest result comes out.
LEMMA OrderReceived ==
  ASSUME TypeInv, TypeInv', NEW q \in Partitions, OrderAt(q), Receive, Reached(q)' = Reached(q)
  PROVE  OrderAt(q)'
  <1> DEFINE W == Waiting(q)
             V == Waiting(q)'
             r == Head(ch)
  <1>1. /\ ch # <<>> /\ ch' = Tail(ch)
        /\ IF r.offset = Err THEN last' = last ELSE last' = [last EXCEPT ![r.partition] = r.offset]
    BY DEF Receive
  <1>2. /\ r = ch[1] /\ r.partition \in Partitions /\ Len(ch) \in Nat \ {0} /\ Len(ch') = Len(ch) - 1
        /\ \A i \in 1..(Len(ch) - 1) : ch'[i] = ch[i + 1]
    BY <1>1, HeadType
  <1>3. W = {i \in 1..Len(ch) : ch[i].partition = q /\ ch[i].offset # Err}
    BY WaitingIn
  <1>4. V = {i \in 1..Len(ch') : ch'[i].partition = q /\ ch'[i].offset # Err}
    <2>1. DOMAIN ch' = 1..Len(ch')
      BY DEF TypeInv
    <2> QED  BY <2>1 DEF Waiting
  <1> HIDE DEF r, V, W
  <1>5. \A i \in V : i \in Int /\ i >= 1 /\ i + 1 \in W /\ ch'[i] = ch[i + 1]
    BY <1>2, <1>3, <1>4
  <1>6. \A i \in W : i \in Int /\ i >= 1 /\ (i # 1 => i - 1 \in V /\ ch'[i - 1] = ch[i])
    <2> TAKE i \in W
    <2>1. i \in Int /\ i >= 1 /\ i <= Len(ch)
      BY <1>2, <1>3
    <2>2. CASE i # 1
      <3>1. i - 1 \in 1..Len(ch') /\ i - 1 \in 1..(Len(ch) - 1) /\ (i - 1) + 1 = i
        BY <1>2, <2>1, <2>2
      <3>2. ch'[i - 1] = ch[i]
        BY <1>2, <3>1
      <3> QED  BY <1>3, <1>4, <2>1, <3>1, <3>2
    <2> QED  BY <2>1, <2>2
  <1>7. \A i, j \in V : Adjacent(q, i, j)' => ch'[j].offset = ch'[i].offset + 1
    <2> SUFFICES ASSUME NEW i \in V, NEW j \in V, i < j, \A k \in V : k <= i \/ k >= j
                 PROVE  ch'[j].offset = ch'[i].offset + 1
      BY DEF Adjacent, V
    <2>1. \A k \in W : k <= i + 1 \/ k >= j + 1
      <3> TAKE k \in W
      <3>1. CASE k = 1  BY <1>5, <3>1
      <3>2. CASE k # 1
        <4>1. k - 1 \in V /\ k \in Int  BY <1>6, <3>2
        <4>2. k - 1 <= i \/ k - 1 >= j  BY <4>1
        <4> QED  BY <1>5, <4>1, <4>2
      <3> QED  BY <3>1, <3>2
    <2>2. Adjacent(q, i + 1, j + 1)
      BY <1>5, <2>1 DEF Adjacent, W
    <2>3. i + 1 \in W /\ j + 1 \in W
      BY <1>5
    <2>4. ch[j + 1].offset = ch[i + 1].offset + 1
      BY <2>2, <2>3 DEF OrderAt, W
    <2> QED  BY <1>5, <2>4
  <1>8. \A i \in V : (\A k \in V : k <= i) => ch'[i].offset + 1 = Reached(q)'
    <2> SUFFICES ASSUME NEW i \in V, \A k \in V : k <= i
                 PROVE  ch'[i].offset + 1 = Reached(q)
      OBVIOUS
    <2>1. \A k \in W : k <= i + 1
      <3> TAKE k \in W
      <3>1. CASE k = 1  BY <1>5, <3>1
      <3>2. CASE k # 1
        <4>1. k - 1 \in V /\ k \in Int  BY <1>6, <3>2
        <4>2. k - 1 <= i  BY <4>1
        <4> QED  BY <1>5, <4>1, <4>2
      <3> QED  BY <3>1, <3>2
    <2>2. i + 1 \in W
      BY <1>5
    <2>3. ch[i + 1].offset + 1 = Reached(q)
      BY <2>1, <2>2 DEF OrderAt, W
    <2> QED  BY <1>5, <2>3
  <1>9. CASE 1 \in W
    <2>1. r.partition = q /\ r.offset # Err
      BY <1>2, <1>3, <1>9
    <2>2. last'[q] = r.offset
      BY <1>1, <1>2, <2>1 DEF TypeInv
    <2>3. \A j \in V : First(q, j)' => ch'[j].offset = last'[q] + 1
      <3> SUFFICES ASSUME NEW j \in V, \A k \in V : k >= j
                   PROVE  ch'[j].offset = r.offset + 1
        BY <2>2 DEF First, V
      <3>1. \A k \in W : k <= 1 \/ k >= j + 1
        <4> TAKE k \in W
        <4>1. CASE k # 1
          <5>1. k - 1 \in V /\ k \in Int  BY <1>6, <4>1
          <5>2. k - 1 >= j  BY <5>1
          <5> QED  BY <1>5, <5>1, <5>2
        <4> QED  BY <4>1
      <3>2. Adjacent(q, 1, j + 1)
        BY <1>5, <3>1 DEF Adjacent, W
      <3>3. j + 1 \in W
        BY <1>5
      <3>4. ch[j + 1].offset = ch[1].offset + 1
        BY <1>9, <3>2, <3>3 DEF OrderAt, W
      <3> QED  BY <1>2, <1>5, <3>4
    <2>4. V = {} => last'[q] + 1 = Reached(q)'
      <3> SUFFICES ASSUME V = {} PROVE r.offset + 1 = Reached(q)
        BY <2>2
      <3>1. \A k \in W : k <= 1
        BY <1>6
      <3>2. ch[1].offset + 1 = Reached(q)
        BY <1>9, <3>1 DEF OrderAt, W
      <3> QED  BY <1>2, <3>2
    <2> QED  BY <1>7, <1>8, <2>3, <2>4 DEF OrderAt, V
  <1>10. CASE 1 \notin W
    <2>1. last'[q] = last[q]
      <3>1. CASE r.offset = Err
        BY <1>1, <3>1
      <3>2. CASE r.offset # Err
        <4>1. r.partition # q
          BY <1>2, <1>3, <1>10, <3>2
        <4>2. last' = [last EXCEPT ![r.partition] = r.offset]
          BY <1>1, <3>2
        <4> QED  BY <1>2, <4>1, <4>2 DEF TypeInv
      <3> QED  BY <3>1, <3>2
    <2>2. \A k \in W : k # 1
      BY <1>10
    <2>3. \A j \in V : last'[q] # None /\ First(q, j)' => ch'[j].offset = last'[q] + 1
      <3> SUFFICES ASSUME NEW j \in V, last[q] # None, \A k \in V : k >= j
                   PROVE  ch'[j].offset = last[q] + 1
        BY <2>1 DEF First, V
      <3>1. \A k \in W : k >= j + 1
        <4> TAKE k \in W
        <4>1. k - 1 \in V /\ k \in Int  BY <1>6, <2>2
        <4>2. k - 1 >= j  BY <4>1
        <4> QED  BY <1>5, <4>1, <4>2
      <3>2. j + 1 \in W /\ First(q, j + 1)
        BY <1>5, <3>1 DEF First, W
      <3>3. ch[j + 1].offset = last[q] + 1
        BY <3>2 DEF OrderAt, W
      <3> QED  BY <1>5, <3>3
    <2>4. V = {} => W = {}
      BY <1>6, <2>2
    <2>5. V = {} /\ last'[q] # None => last'[q] + 1 = Reached(q)'
      BY <2>1, <2>4 DEF OrderAt, W
    <2> QED  BY <1>7, <1>8, <2>3, <2>5 DEF OrderAt, V
  <1> QED  BY <1>9, <1>10

LEMMA OrderStep ==
  ASSUME TypeInv, TypeInv', ThreadInv, OrderInv, Kinds
  PROVE  OrderInv'
  <1> SUFFICES ASSUME NEW q \in Partitions PROVE OrderAt(q)'
    BY DEF OrderInv
  <1>0. OrderAt(q)
    BY DEF OrderInv
  <1>1. ASSUME ch' = <<>>, last'[q] = None PROVE OrderAt(q)'
    <2>1. Waiting(q)' = {}
      BY <1>1 DEF Waiting
    <2> QED  BY <1>1, <2>1 DEF OrderAt
  <1>2. CASE Crash
    BY <1>1, <1>2 DEF Crash, All
  <1>3. CASE FetchOffset(q)
    BY <1>1, <1>3 DEF FetchOffset, ThreadInv, appVars
  <1>4. ASSUME Send(q), result[q] # Err, Reached(q) = result[q], Reached(q)' = result[q] + 1
        PROVE  OrderAt(q)'
    BY <1>0, <1>4, OrderSent
  <1>5. CASE Reached(q)' = Reached(q)
    <2>1. CASE ch' = ch /\ last' = last
      <3>1. Waiting(q)' = Waiting(q)
        BY <2>1 DEF Waiting
      <3> QED  BY <1>0, <1>5, <2>1, <3>1, OrderKept
    <2>2. CASE Receive
      BY <1>0, <1>5, <2>2, OrderReceived
    <2>3. ASSUME NEW p \in Partitions, Send(p) PROVE OrderAt(q)'
      <3>1. ch' = Sent(p) /\ last' = last
        BY <2>3 DEF Send
      <3>2. /\ Len(ch') = Len(ch) + 1 /\ \A i \in 1..Len(ch) : ch'[i] = ch[i]
            /\ ch'[Len(ch) + 1] = [partition |-> p, offset |-> result[p]]
        BY <3>1, SentType
      <3>3. p # q \/ result[p] = Err
        <4> SUFFICES ASSUME p = q, result[q] # Err PROVE FALSE
          OBVIOUS
        <4>1. pc[q] = "send" /\ pc'[q] = "commit" /\ next' = next
          BY <2>3 DEF Send, AfterSend, Goes, TypeInv
        <4>2. Reached(q) = result[q] /\ Reached(q)' = next[q] /\ next[q] = result[q] + 1
          BY <4>1 DEF Reached, ThreadInv
        <4>3. result[q] \in Nat
          BY DEF TypeInv, Offsets, Err, None
        <4> QED  BY <1>5, <4>2, <4>3
      <3>4. Len(ch) \in Nat /\ DOMAIN ch = 1..Len(ch) /\ DOMAIN ch' = 1..Len(ch')
        BY DEF TypeInv
      <3>5. ch'[Len(ch) + 1].partition = p /\ ch'[Len(ch) + 1].offset = result[p]
        BY <3>2
      <3>6. 1..Len(ch') = 1..Len(ch) \cup {Len(ch) + 1}
        BY <3>2, <3>4
      <3>7. Waiting(q)' = Waiting(q)
        BY <3>2, <3>3, <3>4, <3>5, <3>6 DEF Waiting
      <3>8. \A i \in Waiting(q) : ch'[i] = ch[i]
        BY <3>2, WaitingIn
      <3> QED  BY <1>0, <1>5, <3>1, <3>7, <3>8, OrderKept
    <2> QED  BY <1>2, <2>1, <2>2, <2>3 DEF Kinds, Quiet, FetchOffset, FetchAllOffsetsFails, Poll,
                PollFails, CommitOffset, CommitFails, BrokerCrash, LateCommit, appVars
  <1> QED  BY <1>2, <1>3, <1>4, <1>5, ReachedStep

----------------------------------------------------------------------------
(* Commits move forward.                                                   *)

\* Nothing has disturbed the consumer before if nothing has after.
LEMMA NoDisturbance ==
  ASSUME TypeInv, [Next]_vars, Undisturbed'
  PROVE  /\ Undisturbed
         /\ \A b \in Brokers : ~BrokerCrash(b)
         /\ \A l \in late : ~LateCommit(l)
         /\ \A p \in Partitions : ~DialFails(p)
  <1>1. \A b \in Brokers : ~BrokerCrash(b)
    BY DEF BrokerCrash, TypeInv, Undisturbed
  <1>2. \A l \in late : ~LateCommit(l)
    BY DEF LateCommit, Undisturbed
  <1>3. \A p \in Partitions : ~DialFails(p)
    BY DEF DialFails, TypeInv, Undisturbed
  <1>4. UNCHANGED <<brokerCrashes, dialFailures, stray>>
    BY <1>1, <1>2, <1>3 DEF Next, vars, Starting, FetchTopicMetadata, FetchOffset, FetchAllOffsetsFails,
                Receive, Crash, TopicArrives, BootDeadlinePasses, Goroutine, Poll, PollNotFound, PollFails,
                Send, CommitOffset, CommitFails, Produce, DeadlinePasses, BrokerRestart,
                GetConnectionFails, faultVars, crashVars
  <1> QED  BY <1>1, <1>2, <1>3, <1>4 DEF Undisturbed

LEMMA ForwardStep ==
  ASSUME TypeInv, TypeInv', ThreadInv, ForwardInv, [Next]_vars
  PROVE  ForwardInv'
  <1> USE DEF brokerVars, clientVars, threadVars, appVars, faultVars, crashVars
  <1> SUFFICES ASSUME Undisturbed' PROVE ForwardInv'
    BY DEF ForwardInv
  <1> DEFINE Ahead(p) == pc[p] # "start" \/ p \notin unfetched => committed[p] <= Reached(p)
  <1>0. /\ Undisturbed /\ Kinds /\ \A b \in Brokers : ~BrokerCrash(b)
        /\ \A l \in late : ~LateCommit(l)
    BY StepKinds, NoDisturbance
  <1>1. /\ \A b \in Brokers : up[b]
        /\ metadata => known
        /\ \A p \in Partitions :
              /\ committed[p] # None => known
              /\ pc[p] = "start" => metadata \/ boot = "none"
              /\ pc[p] = "start" /\ p \in unfetched => conn[p] = "none"
              /\ Ahead(p)
    BY <1>0 DEF ForwardInv
  <1>2. \A q \in Partitions : Reached(q) \in Nat /\ committed[q] \in Int /\ Leader[q] \in Brokers
    <2>1. \A q \in Partitions : Reached(q) \in Nat
      BY ReachedType
    <2>2. \A q \in Partitions : committed[q] \in Int
      BY DEF TypeInv, Offsets, None
    <2> QED  BY <2>1, <2>2, ConsumerAssumption
  \* A step that keeps the goroutines out of the start, or moves none of them.
  <1>3. ASSUME up' = up, known' = known \/ known', committed' = committed,
               metadata' = metadata \/ (metadata' /\ known'),
               unfetched' = unfetched,
               \A q \in Partitions :
                  /\ pc'[q] = "start" => pc[q] = "start"
                  /\ pc'[q] = "start" => boot' = boot \/ metadata'
                  /\ pc'[q] = "start" => conn'[q] = conn[q]
                  /\ pc'[q] # "start" => pc[q] # "start"
                  /\ Reached(q)' >= Reached(q) /\ Reached(q)' \in Nat
        PROVE  ForwardInv'
    <2>1. \A q \in Partitions :
             pc'[q] # "start" \/ q \notin unfetched' => committed'[q] <= Reached(q)'
      <3> TAKE q \in Partitions
      <3>1. pc'[q] # "start" \/ q \notin unfetched' => committed[q] <= Reached(q)
        BY <1>1, <1>3
      <3> QED  BY <1>2, <1>3, <3>1
    <2>2. \A q \in Partitions :
            /\ committed'[q] # None => known'
            /\ pc'[q] = "start" => metadata' \/ boot' = "none"
            /\ pc'[q] = "start" /\ q \in unfetched' => conn'[q] = "none"
      BY <1>1, <1>3
    <2>3. (\A b \in Brokers : up'[b]) /\ (metadata' => known')
      BY <1>1, <1>3
    <2> QED  BY <2>1, <2>2, <2>3 DEF ForwardInv
  <1>4. ASSUME UNCHANGED <<up, known, committed, metadata, unfetched, threadVars>>,
               \A q \in Partitions : pc[q] = "start" => UNCHANGED boot /\ conn'[q] = conn[q]
        PROVE  ForwardInv'
    <2>1. \A q \in Partitions : Reached(q)' = Reached(q)
      BY <1>4 DEF Reached
    <2> QED  BY <1>2, <1>3, <1>4, <2>1
  <1>5. CASE UNCHANGED vars
    BY <1>4, <1>5 DEF vars
  <1>6. CASE FetchTopicMetadata \/ TopicArrives
    <2>1. \A q \in Partitions : Reached(q)' = Reached(q)
      BY <1>6 DEF Reached, FetchTopicMetadata, TopicArrives
    <2>2. CASE FetchTopicMetadata
      <3>1. known /\ metadata' /\ UNCHANGED <<up, known, committed, conn, unfetched, pc>>
        BY <2>2 DEF FetchTopicMetadata
      <3> QED  BY <1>2, <1>3, <2>1, <3>1
    <2>3. CASE TopicArrives
      <3>1. known' /\ UNCHANGED <<up, committed, metadata, boot, conn, unfetched, pc>>
        BY <2>3 DEF TopicArrives
      <3> QED  BY <1>2, <1>3, <2>1, <3>1
    <2> QED  BY <1>6, <2>2, <2>3
  <1>7. ASSUME NEW p \in Partitions, FetchOffset(p) PROVE ForwardInv'
    <2>1. /\ p \in unfetched /\ unfetched' = unfetched \ {p}
          /\ pc' = IF unfetched \ {p} = {} THEN All("poll") ELSE pc
          /\ conn' = [conn EXCEPT ![p] = "open"]
          /\ UNCHANGED <<up, known, committed, metadata, boot>>
      BY <1>7 DEF FetchOffset, Proceed
    <2>2. \A q \in Partitions : pc'[q] = "start" => pc[q] = "start"
      BY <2>1 DEF All
    <2>3. \A q \in Partitions : pc'[q] # "start" => pc[q] # "start" \/ q \notin unfetched'
      BY <2>1 DEF All
    <2>4. ASSUME NEW q \in Partitions, pc'[q] # "start" \/ q \notin unfetched'
          PROVE  committed[q] <= Reached(q)'
      <3>1. CASE q = p
        <4>1. Reached(p)' = next'[p]
          <5>1. pc'[p] \in {"start", "poll"}
            BY <1>7, <2>1 DEF FetchOffset, All
          <5> QED  BY <5>1 DEF Reached
        <4>2. next'[p] = IF committed[p] = None THEN 0 ELSE committed[p]
          BY <1>7 DEF FetchOffset, TypeInv
        <4> QED  BY <1>2, <3>1, <4>1, <4>2 DEF None
      <3>2. CASE q # p
        <4>1. Reached(q)' = Reached(q)
          <5>1. pc[q] = "start" /\ pc'[q] \in {"start", "poll"}
            BY <1>7, <2>1 DEF FetchOffset, All, ThreadInv
          <5>2. next'[q] = next[q]
            BY <1>7, <3>2 DEF FetchOffset, TypeInv
          <5> QED  BY <5>1, <5>2 DEF Reached
        <4>2. pc[q] # "start" \/ q \notin unfetched
          BY <2>1, <2>3, <2>4, <3>2
        <4> QED  BY <1>1, <4>1, <4>2
      <3> QED  BY <3>1, <3>2
    <2>5. ASSUME NEW q \in Partitions, pc'[q] = "start", q \in unfetched'
          PROVE  conn'[q] = "none"
      BY <1>1, <2>1, <2>2, <2>5 DEF TypeInv
    <2>6. /\ \A b \in Brokers : up'[b]
          /\ metadata' => known'
          /\ \A q \in Partitions : /\ committed'[q] # None => known'
                                   /\ pc'[q] = "start" => metadata' \/ boot' = "none"
      BY <1>1, <2>1, <2>2
    <2>7. \A q \in Partitions : pc'[q] # "start" \/ q \notin unfetched' => committed'[q] <= Reached(q)'
      BY <2>1, <2>4
    <2> QED  BY <2>5, <2>6, <2>7 DEF ForwardInv
  <1>8. ASSUME NEW p \in Partitions, FetchAllOffsetsFails(p) PROVE ForwardInv'
    <2>1. ~known
      <3>1. pc[p] = "start" /\ p \in unfetched /\ Unreachable(p) /\ Leader[p] \in Brokers /\ Bootstrap \in Brokers
        BY <1>8, NoDisturbance, ConsumerAssumption DEF FetchAllOffsetsFails, GetConnectionFails
      <3>2. conn[p] = "none" /\ (metadata \/ boot = "none") /\ up[Leader[p]] /\ up[Bootstrap]
        BY <1>1, <3>1
      <3> QED  BY <3>1, <3>2 DEF Unreachable, Connects
    <2>2. UNCHANGED <<up, known, committed, metadata>> /\ pc' = All("poll") /\ TypeInv'
      BY <1>8 DEF FetchAllOffsetsFails, Proceed
    <2>3. \A q \in Partitions : committed[q] = -1 /\ Reached(q)' \in Nat /\ pc'[q] # "start"
      <3> TAKE q \in Partitions
      <3>1. committed[q] = -1  BY <1>1, <2>1 DEF None
      <3>2. pc'[q] = "poll"  BY <2>2 DEF All
      <3>3. Reached(q)' = next'[q]  BY <3>2 DEF Reached
      <3>4. next'[q] \in Nat  BY DEF TypeInv
      <3> QED  BY <3>1, <3>2, <3>3, <3>4
    <2> QED  BY <1>1, <2>2, <2>3 DEF ForwardInv, None
  <1>9. CASE Receive
    BY <1>4, <1>9 DEF Receive
  <1>10. CASE Crash
    <2>1. \A q \in Partitions : pc'[q] = "start" /\ q \in unfetched' /\ conn'[q] = "none"
      BY <1>10 DEF Crash, All
    <2>2. ~metadata' /\ boot' = "none" /\ UNCHANGED <<up, known, committed>>
      BY <1>10 DEF Crash
    <2> QED  BY <1>1, <2>1, <2>2 DEF ForwardInv
  <1>11. CASE BootDeadlinePasses
    <2>1. \A q \in Partitions : pc[q] # "start"
      BY <1>1, <1>11 DEF BootDeadlinePasses
    <2> QED  BY <1>4, <1>11, <2>1 DEF BootDeadlinePasses
  <1>12. ASSUME NEW p \in Partitions, Produce(p) PROVE ForwardInv'
    BY <1>4, <1>12 DEF Produce
  <1>13. ASSUME NEW p \in Partitions, DeadlinePasses(p) \/ PollNotFound(p) PROVE ForwardInv'
    <2>1. \A q \in Partitions : pc[q] # "start"
      BY <1>13 DEF DeadlinePasses, PollNotFound, ThreadInv
    <2> QED  BY <1>4, <1>13, <2>1 DEF DeadlinePasses, PollNotFound
  <1>14. ASSUME NEW p \in Partitions, Poll(p) \/ PollFails(p) \/ Send(p) \/ CommitFails(p)
         PROVE  ForwardInv'
    <2>1. \A q \in Partitions : pc[q] # "start"
      BY <1>14 DEF Poll, PollFails, Send, CommitFails, ThreadInv
    <2>2. ThreadInv'
      BY <1>0, ThreadStep
    <2>3. pc'[p] # "start"
      BY <1>14 DEF Poll, PollFails, Send, CommitFails, AfterSend, Goes, TypeInv
    <2>4. \A q \in Partitions : pc'[q] # "start"
      BY <2>2, <2>3 DEF ThreadInv
    <2>5. UNCHANGED <<up, known, committed, metadata, unfetched, crashes>>
      BY <1>14 DEF Poll, PollFails, Send, CommitFails
    <2>6. \A q \in Partitions : Reached(q)' >= Reached(q) /\ Reached(q)' \in Nat
      <3> TAKE q \in Partitions
      <3>1. ~Crash /\ ~FetchOffset(q)
        BY <2>1, <2>5 DEF Crash, FetchOffset, TypeInv
      <3>2. Reached(q)' = Reached(q) \/ Reached(q)' = Reached(q) + 1
        BY <1>0, <3>1, ReachedStep
      <3> QED  BY <1>2, <3>2
    <2> QED  BY <1>3, <2>1, <2>4, <2>5, <2>6
  <1>15. ASSUME NEW p \in Partitions, CommitOffset(p) PROVE ForwardInv'
    <2>1. \A q \in Partitions : pc[q] # "start"
      BY <1>15 DEF CommitOffset, ThreadInv
    <2>2. ThreadInv' /\ pc'[p] = "poll"
      BY <1>0, <1>15, ThreadStep DEF CommitOffset, Goes, TypeInv
    <2>3. \A q \in Partitions : pc'[q] # "start"
      BY <2>2 DEF ThreadInv
    <2>4. metadata /\ UNCHANGED <<up, known, metadata, crashes>>
      BY <1>15 DEF CommitOffset, Reaches
    <2>5. ASSUME NEW q \in Partitions PROVE committed'[q] <= Reached(q)'
      <3>1. Reached(q)' = Reached(q)
        <4>1. ~Crash /\ ~FetchOffset(q) /\ ~Send(q)
          <5>1. committed'[p] = result[p] + 1 /\ pc'[p] = "poll" /\ pc[p] = "commit" /\ ch' = ch
            BY <1>15, <2>2 DEF CommitOffset, TypeInv
          <5>2. ~Send(q)
            <6>1. ASSUME Send(q) PROVE FALSE
              <7>1. ch' = Sent(q)  BY <6>1 DEF Send
              <7>2. Len(ch') = Len(ch) + 1  BY <7>1, SentType
              <7>3. Len(ch) \in Nat  BY DEF TypeInv
              <7> QED  BY <5>1, <7>2, <7>3
            <6> QED  BY <6>1
          <5> QED  BY <2>1, <2>4, <5>2 DEF Crash, FetchOffset, TypeInv
        <4> QED  BY <1>0, <4>1, ReachedStep
      <3>2. committed[q] <= Reached(q)
        BY <1>1, <2>1
      <3> QED  BY <1>0, <1>2, <3>1, <3>2, CommitStep
    <2> QED  BY <1>1, <2>3, <2>4, <2>5 DEF ForwardInv
  <1>16. ASSUME NEW b \in Brokers, BrokerRestart(b) PROVE ForwardInv'
    BY <1>1, <1>16 DEF BrokerRestart
  <1> QED
    BY <1>0, <1>5, <1>6, <1>7, <1>8, <1>9, <1>10, <1>11, <1>12, <1>13, <1>14, <1>15, <1>16
       DEF Next, Starting, Goroutine

----------------------------------------------------------------------------
(* The theorems.                                                           *)

Inv == TypeInv /\ ThreadInv /\ DeliveryInv /\ OrderInv /\ ForwardInv /\ LossInv

LEMMA ConsumerInit ==
  ASSUME Init
  PROVE  Inv
  <1>0. ChanCap \in Nat /\ Backlog \in [Partitions -> Nat]
    BY ConsumerAssumption
  <1>1. TypeInv
    <2>1. ch \in Seq(Result) /\ Len(ch) <= ChanCap
      BY <1>0 DEF Init
    <2> QED  BY <1>0, <2>1 DEF Init, TypeInv, All, Offsets, None, Err
  <1>2. ThreadInv
    BY DEF Init, ThreadInv, All
  <1>3. \A p \in Partitions :
           /\ Reached(p) = 0 /\ Waiting(p) = {} /\ last[p] = None
           /\ pc[p] = "start" /\ p \in unfetched /\ committed[p] = None /\ conn[p] = "none"
    <2> TAKE p \in Partitions
    <2>1. /\ pc[p] = "start" /\ p \in unfetched /\ committed[p] = None /\ conn[p] = "none"
          /\ next[p] = 0 /\ last[p] = None /\ ch = <<>>
      BY DEF Init, All
    <2>2. Reached(p) = 0 /\ Waiting(p) = {}
      BY <2>1 DEF Reached, Waiting
    <2> QED  BY <2>1, <2>2
  <1>4. DeliveryInv
    <2>1. late = {}
      BY DEF Init
    <2> QED  BY <1>3, <2>1 DEF DeliveryInv, None
  <1>5. OrderInv
    BY <1>3 DEF OrderInv, OrderAt
  <1>6. ForwardInv
    BY <1>3 DEF ForwardInv, Init
  <1>7. LossInv
    <2>1. DroppedSet = {}
      BY DEF Init, All, DroppedSet
    <2>2. crashes * ChanCap = 0
      BY <1>0 DEF Init
    <2>3. IsFiniteSet(DroppedSet) /\ Cardinality(DroppedSet) = 0
      BY <2>1, FS_EmptySet
    <2> QED  BY <2>2, <2>3 DEF LossInv
  <1> QED  BY <1>1, <1>2, <1>4, <1>5, <1>6, <1>7 DEF Inv

LEMMA ConsumerStep ==
  ASSUME Inv, [Next]_vars
  PROVE  Inv'
  <1>1. Kinds /\ TypeInv'
    BY StepKinds, TypeStep DEF Inv
  <1> QED  BY <1>1, ThreadStep, DeliveryStep, OrderStep, ForwardStep, LossStep DEF Inv

LEMMA ConsumerInvariant == Spec => []Inv
  <1>1. Init => Inv
    BY ConsumerInit
  <1>2. Inv /\ [Next]_vars => Inv'
    BY ConsumerStep
  <1> QED  BY <1>1, <1>2, PTL DEF Spec

\* Within a life of the consumer process the goroutines of consumer.Run, which
\* share a channel, hand the messages of each partition to the application in
\* offset order, without a gap or a repetition.
THEOREM InOrder == Spec => []DeliveredInOrder
  <1>1. Inv => DeliveredInOrder
    BY DEF Inv, OrderInv, OrderAt, DeliveredInOrder
  <1> QED  BY <1>1, ConsumerInvariant, PTL

\* A crash of the consumer loses no more than its channel can hold.
THEOREM LossesBounded == Spec => []LossBounded
  <1>1. Inv => LossBounded
    <2> SUFFICES ASSUME Inv PROVE LossBounded
      OBVIOUS
    <2> DEFINE L == UNION {{p} \X Lost(p) : p \in Partitions}
    <2>1. L \subseteq DroppedSet
      BY LostDropped DEF Inv, DroppedSet
    <2>2. /\ IsFiniteSet(DroppedSet) /\ Cardinality(DroppedSet) <= crashes * ChanCap
          /\ crashes \in Nat /\ ChanCap \in Nat
      BY ConsumerAssumption DEF Inv, LossInv, TypeInv
    <2> HIDE DEF L
    <2>3. IsFiniteSet(L) /\ Cardinality(L) <= Cardinality(DroppedSet)
      BY <2>1, <2>2, FS_Subset
    <2>4. Cardinality(L) \in Nat /\ Cardinality(DroppedSet) \in Nat
      BY <2>2, <2>3, FS_CardinalityType
    <2>5. Cardinality(L) <= crashes * ChanCap
      <3>1. crashes * ChanCap \in Nat  BY <2>2
      <3> QED  BY <2>2, <2>3, <2>4, <3>1
    <2> QED  BY <2>5 DEF L, LossBounded
  <1> QED  BY <1>1, ConsumerInvariant, PTL

\* Until the consumer process crashes, no offset is committed for the group
\* before its message was handed over, through failed commits, connections that
\* the server closed and brokers that crash in the middle of a commit.
THEOREM CommittedDelivered == Spec => []CommittedIsDelivered
  <1>1. Inv => CommittedIsDelivered
    <2> SUFFICES ASSUME Inv, crashes = 0, NEW p \in Partitions
                 PROVE  Lost(p) = {}
      BY DEF CommittedIsDelivered
    <2>1. IsFiniteSet(DroppedSet) /\ Cardinality(DroppedSet) <= 0
      BY ConsumerAssumption DEF Inv, LossInv
    <2>2. Cardinality(DroppedSet) \in Nat
      BY <2>1, FS_CardinalityType
    <2>3. Cardinality(DroppedSet) = 0
      BY <2>1, <2>2
    <2>4. DroppedSet = {}
      BY <2>1, <2>3, FS_EmptySet
    <2>5. \A o \in dropped[p] : <<p, o>> \in DroppedSet
      BY DEF DroppedSet
    <2>6. dropped[p] = {}
      BY <2>4, <2>5
    <2> QED  BY <2>6, LostDropped DEF Inv
  <1> QED  BY <1>1, ConsumerInvariant, PTL

\* No commit takes the group's offset back, however often the consumer is
\* restarted and whatever connection is closed, until a broker crashes, a dial
\* fails or a commit of a consumer that died is handled after its death.
THEOREM CommitsForward == Spec => CommitsMoveForward
  <1>1. Inv /\ [Next]_vars =>
          [brokerCrashes' = 0 /\ dialFailures' = 0 /\ ~stray'
             => \A p \in Partitions : committed'[p] >= committed[p]]_vars
    <2> SUFFICES ASSUME Inv, [Next]_vars, Undisturbed', NEW p \in Partitions
                 PROVE  committed'[p] >= committed[p]
      BY DEF Undisturbed
    <2>1. TypeInv /\ ThreadInv /\ ForwardInv /\ Kinds /\ TypeInv'
      BY StepKinds, TypeStep DEF Inv
    <2>2. committed[p] \in Int /\ Reached(p) \in Nat
      <3>1. committed[p] \in Int
        BY <2>1 DEF TypeInv, Offsets, None
      <3> QED  BY <2>1, <3>1, ReachedType
    <2>3. Undisturbed /\ \A l \in late : ~LateCommit(l)
      BY <2>1, NoDisturbance
    <2>4. CASE committed'[p] = committed[p]
      BY <2>2, <2>4
    <2>5. CASE pc[p] = "commit" /\ committed'[p] = Reached(p)
      <3>1. committed[p] <= Reached(p)
        BY <2>1, <2>3, <2>5 DEF ForwardInv
      <3> QED  BY <2>2, <2>5, <3>1
    <2> QED  BY <2>1, <2>3, <2>4, <2>5, CommitStep
  <1> QED  BY <1>1, ConsumerInvariant, PTL DEF Spec, CommitsMoveForward
=============================================================================
