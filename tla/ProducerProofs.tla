--------------------------- MODULE ProducerProofs ---------------------------
(***************************************************************************)
(* Machine-checked proofs about Producer, for any brokers, keys, hash      *)
(* function, leaders and number of messages, and any number of crashes and *)
(* shutdowns of the brokers.                                               *)
(***************************************************************************)
EXTENDS Producer, FiniteSetTheorems, TLAPS

----------------------------------------------------------------------------
(* The invariant.                                                          *)

\* What can be on a connection.
ProduceFrame == [type : {"produce"}, partition : Partitions, msg : Message]
Frames == {None, Frame("getMetadata"), Frame("admin"), Frame("stored"), Frame("error"),
           Frame("full"), Frame("bare"), Frame("done")} \cup ProduceFrame

LinkType == [conn : {"none", "open", "dead"}, at : {"none", "queued", "read", "work", "extend"},
             req : Frames, job : Frames, ans : Frames, late : BOOLEAN, shut : BOOLEAN]

\* An open connection has a handler or waits for one; a dead one has neither,
\* and no request is left on it.
SoundLink(k) ==
    /\ k \in LinkType
    /\ k.at = "none" => k.req = None /\ k.job = None
    /\ k.conn = "open" => k.at # "none"
    /\ k.conn = "dead" => k.at = "none"

Clean(k) == k.req = None /\ k.job = None /\ k.ans = None

Pending(k) == k.req # None \/ k.job # None

\* The request, or its answer, or neither.
OneFrame(k, request, answers) ==
    /\ k.req \in {None, request} /\ k.job \in {None, request}
    /\ k.req = None \/ k.job = None
    /\ k.ans \in {None} \cup answers
    /\ k.ans # None => ~Pending(k)

\* The broker that the producer waits for, what it was asked and may answer.
Waits(b) ==
    \/ doing = "fetching" /\ b = Bootstrap
    \/ doing = "sending" /\ b = Leader[PartitionFor(key)]

AskedFor == IF doing = "sending" THEN Request ELSE Frame("getMetadata")

AnswersTo == IF doing = "sending" THEN {Frame("stored"), Frame("error")}
             ELSE {Frame("full"), Frame("bare"), Frame("error")}

Busy == doing \in {"fetching", "route", "sending"}

TypeInv ==
    /\ phase \in [Brokers -> {"up", "stopping", "draining", "down"}]
    /\ link \in [Links -> LinkType]
    /\ \A l \in Links : SoundLink(link[l])
    /\ store \in [Brokers -> [Partitions -> Seq(Message)]]
    /\ metadata \in {"none", "full", "bare"}
    /\ doing \in {"idle", "closed", "fetching", "route", "sending"}
    /\ sends \in 0..MaxSends
    /\ Busy => key \in Keys /\ sends >= 1
    /\ acked \subseteq Message

\* The producer has at most one frame on its connections, and only on the one
\* it waits for; the admin client sends no messages.
LinkInv ==
    /\ \A b \in Brokers : IF Waits(b) THEN OneFrame(link[PLink(b)], AskedFor, AnswersTo)
                          ELSE Clean(link[PLink(b)])
    /\ \A l \in ALinks : link[l].req.type # "produce" /\ link[l].job.type # "produce"

\* A log holds messages of its keys, in the order of their sends, and every one
\* of them has a number of its own.
StoreInv ==
    \A b \in Brokers, p \in Partitions :
        /\ \A i \in DOMAIN store[b][p] :
              LET m == store[b][p][i]
              IN  i <= m.n /\ m.n <= sends /\ p = PartitionFor(m.key) /\ b = Leader[p]
        /\ \A i, j \in DOMAIN store[b][p] : i < j => store[b][p][i].n < store[b][p][j].n

\* The message of the Send in progress is not stored yet.
Unstored == \A b \in Brokers, p \in Partitions :
               \A i \in DOMAIN store[b][p] : store[b][p][i].n < sends

FreshInv ==
    /\ doing \in {"fetching", "route"} => Unstored
    /\ doing = "sending" /\ Pending(link[PLink(Leader[PartitionFor(key)])]) => Unstored

In(m) ==
    LET p == PartitionFor(m.key)
    IN  \E i \in DOMAIN store[Leader[p]][p] : store[Leader[p]][p][i] = m

AckInv ==
    /\ \A m \in acked : In(m)
    /\ doing = "sending" /\ link[PLink(Leader[PartitionFor(key)])].ans = Frame("stored")
          => In(Request.msg)

Inv == TypeInv /\ LinkInv /\ StoreInv /\ FreshInv /\ AckInv

----------------------------------------------------------------------------
(* Frames, connections and partitions.                                     *)

\* Frames are told apart by their types.
LEMMA FrameTypes ==
    /\ \A a : Frame(a).type = a
    /\ \A f \in ProduceFrame : f.type = "produce"
    /\ None.type = "none" /\ None = Frame("none")
BY DEF Frame, ProduceFrame, None

LEMMA FramesTypes ==
    /\ None \in Frames
    /\ \A a \in {"getMetadata", "admin", "stored", "error", "full", "bare", "done"} :
          Frame(a) \in Frames
    /\ ProduceFrame \subseteq Frames
<1>1. \A a \in {"getMetadata", "admin", "stored", "error", "full", "bare", "done"} :
          Frame(a) \in Frames
  BY Zenon DEF Frames
<1> QED
  BY <1>1, Zenon DEF Frames

LEMMA PartitionForType == \A k \in Keys : PartitionFor(k) \in Partitions
<1> SUFFICES ASSUME NEW k \in Keys
             PROVE  PartitionFor(k) \in Partitions
  OBVIOUS
<1>1. Hash[k] \in Nat
  BY ProducerAssumption
<1>2. \A h \in Nat, n \in Nat \ {0} : h % n \in 0..(n - 1)
  BY SMT
<1> QED
  BY <1>1, <1>2, ProducerAssumption DEF PartitionFor, Partitions

LEMMA LeaderForType == \A k \in Keys : Leader[PartitionFor(k)] \in Brokers
BY PartitionForType, ProducerAssumption

\* The connections of the producer, one for each broker, and of the admin client.
LEMMA LinkFacts ==
    /\ \A b \in Brokers : PLink(b) \in Links /\ PLink(b) \notin ALinks /\ BrokerOf(PLink(b)) = b
    /\ \A b, c : PLink(b) = PLink(c) => b = c
    /\ \A l \in Links : l \in ALinks \/ \E b \in Brokers : l = PLink(b)
    /\ \A l \in Links : BrokerOf(l) \in Brokers
    /\ ALinks \subseteq Links
<1>1. \A b \in Brokers : PLink(b) \in Links /\ PLink(b)[1] = Producer /\ BrokerOf(PLink(b)) = b
  BY ProducerAssumption DEF PLink, BrokerOf
<1>2. \A b \in Brokers : PLink(b) \notin ALinks
  BY <1>1, ProducerAssumption DEF ALinks
<1>3. \A b, c : PLink(b) = PLink(c) => b = c
  BY DEF PLink
<1>4. \A l \in Links : l \in ALinks \/ \E b \in Brokers : l = PLink(b)
  BY ProducerAssumption DEF ALinks, PLink
<1>5. \A l \in Links : BrokerOf(l) \in Brokers
  BY ProducerAssumption DEF BrokerOf
<1> QED
  BY <1>1, <1>2, <1>3, <1>4, <1>5 DEF ALinks

LEMMA RequestType ==
    ASSUME key \in Keys, sends \in 1..MaxSends
    PROVE  /\ Request \in ProduceFrame
           /\ Request.msg \in Message
           /\ Request.msg.n = sends /\ Request.msg.key = key
           /\ Request.partition = PartitionFor(key)
<1>1. PartitionFor(key) \in Partitions
  BY PartitionForType
<1>2. [n |-> sends, key |-> key] \in Message
  BY DEF Message
<1> QED
  BY <1>1, <1>2 DEF Request, ProduceFrame

----------------------------------------------------------------------------
(* What the server does to a connection by itself.                         *)

\* The request moves on or is lost, and the answer stays.
Drift(k, k2) ==
    /\ SoundLink(k2)
    /\ k2.ans = k.ans
    /\ \/ k2.req = k.req /\ k2.job = k.job
       \/ k2.req = None /\ k2.job = k.req
       \/ k2.req = None /\ k2.job = None

LEMMA NoLinkSound == SoundLink(NoLink)
BY FramesTypes DEF SoundLink, LinkType, NoLink

LEMMA ClosedDrift ==
    ASSUME NEW k, SoundLink(k)
    PROVE  Drift(k, Closed(k))
<1>1. k \in LinkType
  BY DEF SoundLink
<1>2. k.ans \in Frames /\ k.conn \in {"none", "open", "dead"}
  BY <1>1 DEF LinkType
<1>3. /\ Closed(k).conn = IF k.conn = "open" THEN "dead" ELSE k.conn
      /\ Closed(k).at = "none" /\ Closed(k).req = None /\ Closed(k).job = None
      /\ Closed(k).ans = k.ans
  BY DEF Closed, NoLink
<1>4. Closed(k) \in LinkType
  BY <1>2, FramesTypes DEF Closed, NoLink, LinkType
<1> QED
  BY <1>2, <1>3, <1>4 DEF Drift, SoundLink

Drifts == \A l \in Links : Drift(link[l], link'[l])

LEMMA SameDrift ==
    ASSUME NEW k, SoundLink(k)
    PROVE  Drift(k, k)
BY DEF Drift

\* It is enough to look at the connection that changes.
LEMMA OneDrifts ==
    ASSUME TypeInv, NEW l \in Links, NEW k, Drift(link[l], k), link' = [link EXCEPT ![l] = k]
    PROVE  Drifts /\ link' \in [Links -> LinkType]
<1>1. \A j \in Links : link'[j] = IF j = l THEN k ELSE link[j]
  BY DEF TypeInv
<1>2. k \in LinkType
  BY DEF Drift, SoundLink
<1>3. link' \in [Links -> LinkType]
  BY <1>2 DEF TypeInv
<1>4. \A j \in Links : Drift(link[j], link[j])
  BY SameDrift DEF TypeInv
<1> QED
  BY <1>1, <1>3, <1>4 DEF Drifts

\* The steps of the accept loop, a handler and its deadlines.
LEMMA HandlerDrifts ==
    ASSUME TypeInv, NEW l \in Links,
           HandlerStep(l) \/ Accept(l) \/ DeadlinePasses(l) \/ Kick(l)
    PROVE  Drifts /\ link' \in [Links -> LinkType]
<1> DEFINE k == link[l]
<1>1. SoundLink(k) /\ k \in LinkType
  BY DEF TypeInv
<1>2. /\ k.conn \in {"none", "open", "dead"} /\ k.req \in Frames /\ k.job \in Frames
      /\ k.ans \in Frames /\ k.late \in BOOLEAN /\ k.shut \in BOOLEAN
      /\ k.at \in {"none", "queued", "read", "work", "extend"}
      /\ k.conn = "open" => k.at # "none"
      /\ k.conn = "dead" => k.at = "none"
  BY <1>1 DEF SoundLink, LinkType
<1>3. CASE Accept(l) \/ Extend(l)
  <2> DEFINE j == [k EXCEPT !.at = "read", !.late = FALSE]
  <2>1. link' = [link EXCEPT ![l] = j] /\ k.at # "none"
    BY <1>3 DEF Accept, Extend, At, TypeInv
  <2>2. j \in LinkType
    BY <1>1 DEF LinkType
  <2>3. Drift(k, j)
    BY <1>1, <1>2, <2>1, <2>2 DEF Drift, SoundLink, LinkType
  <2> HIDE DEF j
  <2> QED
    BY <2>1, <2>3, OneDrifts
<1>4. CASE DeadlinePasses(l)
  <2> DEFINE j == [k EXCEPT !.late = TRUE]
  <2>1. link' = [link EXCEPT ![l] = j]
    BY <1>4 DEF DeadlinePasses, TypeInv
  <2>2. j \in LinkType
    BY <1>1 DEF LinkType
  <2>3. Drift(k, j)
    BY <1>1, <1>2, <2>1, <2>2 DEF Drift, SoundLink, LinkType
  <2> HIDE DEF j
  <2> QED
    BY <2>1, <2>3, OneDrifts
<1>5. CASE Kick(l)
  <2> DEFINE j == [k EXCEPT !.late = TRUE, !.shut = TRUE]
  <2>1. link' = [link EXCEPT ![l] = j]
    BY <1>5 DEF Kick, TypeInv
  <2>2. j \in LinkType
    BY <1>1 DEF LinkType
  <2>3. Drift(k, j)
    BY <1>1, <1>2, <2>1, <2>2 DEF Drift, SoundLink, LinkType
  <2> HIDE DEF j
  <2> QED
    BY <2>1, <2>3, OneDrifts
<1>6. CASE ReadFrame(l)
  <2> DEFINE j == [k EXCEPT !.at = "work", !.job = k.req, !.req = None]
  <2>1. link' = [link EXCEPT ![l] = j] /\ k.at = "read"
    BY <1>6 DEF ReadFrame, At, TypeInv
  <2>2. j \in LinkType
    BY <1>1, <1>2, FramesTypes DEF LinkType
  <2>3. Drift(k, j)
    BY <1>1, <1>2, <2>1, <2>2 DEF Drift, SoundLink, LinkType
  <2> HIDE DEF j
  <2> QED
    BY <2>1, <2>3, OneDrifts
<1>7. CASE ReadFrameFails(l)
  BY <1>1, <1>7, ClosedDrift, OneDrifts DEF ReadFrameFails, TypeInv
<1> QED
  BY <1>3, <1>4, <1>5, <1>6, <1>7 DEF HandlerStep

\* The steps of a broker.
LEMMA BrokerDrifts ==
    ASSUME TypeInv, NEW b \in Brokers,
           Stop(b) \/ CloseListener(b) \/ Exit(b) \/ Crash(b) \/ Start(b)
    PROVE  /\ Drifts /\ link' \in [Links -> LinkType]
           /\ phase' \in [Brokers -> {"up", "stopping", "draining", "down"}]
<1>1. \A l \in Links : Drift(link[l], link[l]) /\ Drift(link[l], Closed(link[l]))
  BY SameDrift, ClosedDrift DEF TypeInv
<1>2. CASE Stop(b) \/ Start(b)
  <2>1. link' = link
    BY <1>2 DEF Stop, Start
  <2>2. phase' \in [Brokers -> {"up", "stopping", "draining", "down"}]
    BY <1>2 DEF Stop, Start, TypeInv
  <2> QED
    BY <1>1, <2>1, <2>2 DEF Drifts, TypeInv
<1>4. CASE CloseListener(b)
  <2> DEFINE P(l) == BrokerOf(l) = b /\ At(l, "queued")
  <2>1. link' = [l \in Links |-> IF P(l) THEN Closed(link[l]) ELSE link[l]]
    BY <1>4 DEF CloseListener
  <2>2. \A l \in Links : Drift(link[l], link'[l]) /\ link'[l] \in LinkType
    BY <1>1, <2>1 DEF Drift, SoundLink
  <2> QED
    BY <1>4, <2>1, <2>2 DEF Drifts, CloseListener, TypeInv
<1>5. CASE Exit(b) \/ Crash(b)
  <2>1. link' = [l \in Links |-> IF BrokerOf(l) = b THEN Closed(link[l]) ELSE link[l]]
    BY <1>5 DEF Exit, Crash
  <2>2. \A l \in Links : Drift(link[l], link'[l]) /\ link'[l] \in LinkType
    BY <1>1, <2>1 DEF Drift, SoundLink
  <2>3. link' \in [Links -> LinkType]
    BY <2>1, <2>2
  <2>4. phase' \in [Brokers -> {"up", "stopping", "draining", "down"}]
    BY <1>5 DEF Exit, Crash, TypeInv
  <2> QED
    BY <2>2, <2>3, <2>4 DEF Drifts
<1> QED
  BY <1>2, <1>4, <1>5

LEMMA DriftFrames ==
    ASSUME NEW k, NEW k2, Drift(k, k2)
    PROVE  /\ Clean(k) => Clean(k2)
           /\ \A r, A : OneFrame(k, r, A) => OneFrame(k2, r, A)
           /\ Pending(k2) => Pending(k)
           /\ k.req.type # "produce" /\ k.job.type # "produce"
                 => k2.req.type # "produce" /\ k2.job.type # "produce"
<1>1. None.type # "produce"
  BY FrameTypes
<1> QED
  BY <1>1 DEF Drift, Clean, OneFrame, Pending

LEMMA DriftLinks ==
    ASSUME LinkInv, Drifts, UNCHANGED <<doing, sends, key>>
    PROVE  LinkInv'
<1>1. \A b : Waits(b)' <=> Waits(b)
  BY DEF Waits, PartitionFor
<1>2. AskedFor' = AskedFor /\ AnswersTo' = AnswersTo
  BY DEF AskedFor, AnswersTo, Request, PartitionFor
<1>3. \A b \in Brokers : Drift(link[PLink(b)], link'[PLink(b)])
  BY LinkFacts DEF Drifts
<1>4. \A b \in Brokers : IF Waits(b) THEN OneFrame(link'[PLink(b)], AskedFor, AnswersTo)
                         ELSE Clean(link'[PLink(b)])
  BY <1>3, DriftFrames DEF LinkInv
<1>5. \A l \in ALinks : link'[l].req.type # "produce" /\ link'[l].job.type # "produce"
  BY LinkFacts, DriftFrames DEF LinkInv, Drifts
<1> QED
  BY <1>1, <1>2, <1>4, <1>5 DEF LinkInv

\* What is drifting disturbs nothing.
LEMMA DriftKeeps ==
    ASSUME Inv, Drifts, Apart, link' \in [Links -> LinkType],
           phase' \in [Brokers -> {"up", "stopping", "draining", "down"}]
    PROVE  Inv'
<1>1. LinkInv'
  BY DriftLinks DEF Inv, Apart
<1>2. TypeInv'
  <2>1. \A l \in Links : SoundLink(link'[l])
    BY DEF Drifts, Drift
  <2> QED
    BY <2>1 DEF Inv, TypeInv, Apart, Busy
<1>3. StoreInv'
  BY DEF Inv, StoreInv, Apart, PartitionFor
<1> DEFINE l == PLink(Leader[PartitionFor(key)])
<1>4. ASSUME doing = "sending"
      PROVE  Drift(link[l], link'[l])
  BY <1>4, LeaderForType, LinkFacts DEF Inv, TypeInv, Busy, Drifts
<1>5. FreshInv'
  <2>1. Unstored' <=> Unstored
    BY DEF Unstored, Apart
  <2>2. doing = "sending" /\ Pending(link'[l]) => Pending(link[l])
    BY <1>4, DriftFrames
  <2> QED
    BY <2>1, <2>2 DEF Inv, FreshInv, Apart, PartitionFor
<1>6. AckInv'
  <2>1. \A m : In(m)' <=> In(m)
    BY DEF In, Apart, PartitionFor
  <2>2. doing = "sending" => link'[l].ans = link[l].ans
    BY <1>4 DEF Drift
  <2>3. Request' = Request
    BY DEF Request, Apart, PartitionFor
  <2> QED
    BY <2>1, <2>2, <2>3 DEF Inv, AckInv, Apart, PartitionFor
<1> QED
  BY <1>1, <1>2, <1>3, <1>5, <1>6 DEF Inv

----------------------------------------------------------------------------
(* The handlers of requests.                                               *)

\* A handler that works on a message works on the one the producer waits for.
LEMMA ProducesFacts ==
    ASSUME TypeInv, LinkInv, NEW l \in Links, Produces(l)
    PROVE  /\ doing = "sending" /\ key \in Keys /\ sends \in 1..MaxSends
           /\ l = PLink(Leader[PartitionFor(key)]) /\ BrokerOf(l) = Leader[PartitionFor(key)]
           /\ link[l].job = Request /\ Pending(link[l])
           /\ link[l].req = None /\ link[l].ans = None
<1>1. link[l].job.type = "produce"
  BY DEF Produces
<1>2. link[l].job # None /\ link[l].job # Frame("getMetadata")
  BY <1>1, FrameTypes
<1>3. PICK b \in Brokers : l = PLink(b)
  BY <1>1, LinkFacts DEF LinkInv
<1>4. Waits(b)
  BY <1>2, <1>3 DEF LinkInv, Clean
<1>5. OneFrame(link[l], AskedFor, AnswersTo)
  BY <1>3, <1>4 DEF LinkInv
<1>6. doing = "sending" /\ b = Leader[PartitionFor(key)]
  BY <1>2, <1>4, <1>5 DEF Waits, OneFrame, AskedFor
<1>7. key \in Keys /\ sends \in 1..MaxSends
  BY <1>6, ProducerAssumption DEF TypeInv, Busy
<1> QED
  BY <1>2, <1>3, <1>5, <1>6, <1>7, LinkFacts DEF OneFrame, AskedFor, Pending

\* The new message goes behind those of earlier sends.
LEMMA StoredFacts ==
    ASSUME TypeInv, LinkInv, StoreInv, FreshInv, NEW l \in Links, Produces(l), store' = Stored(l),
           UNCHANGED <<sends, key>>
    PROVE  /\ store' \in [Brokers -> [Partitions -> Seq(Message)]]
           /\ StoreInv'
           /\ \A m \in Message : In(m) => In(m)'
           /\ In(Request.msg)'
<1> DEFINE q == PartitionFor(key)
           c == Leader[q]
           m0 == Request.msg
<1>1. /\ doing = "sending" /\ key \in Keys /\ sends \in 1..MaxSends
      /\ BrokerOf(l) = c /\ link[l].job = Request /\ Pending(link[l]) /\ l = PLink(c)
  BY ProducesFacts
<1>2. q \in Partitions /\ c \in Brokers
  BY <1>1, PartitionForType, LeaderForType
<1>3. /\ m0 \in Message /\ m0.n = sends /\ m0.key = key /\ Request.partition = q
  BY <1>1, RequestType
<1>4. store' = [store EXCEPT ![c][q] = Append(@, m0)]
  BY <1>1, <1>3 DEF Stored
<1>5. Unstored
  BY <1>1 DEF FreshInv
<1> HIDE DEF q, c, m0
<1>6. /\ store[c][q] \in Seq(Message)
      /\ store'[c][q] = Append(store[c][q], m0)
      /\ \A b \in Brokers, p \in Partitions : b # c \/ p # q => store'[b][p] = store[b][p]
  BY <1>2, <1>4 DEF TypeInv
<1>7. store' \in [Brokers -> [Partitions -> Seq(Message)]]
  BY <1>2, <1>3, <1>4 DEF TypeInv
<1> DEFINE s == store[c][q]
<1>8. /\ Len(s) \in Nat /\ DOMAIN s = 1..Len(s)
      /\ DOMAIN store'[c][q] = 1..(Len(s) + 1)
      /\ \A i \in 1..Len(s) : store'[c][q][i] = s[i] /\ s[i] \in Message
      /\ store'[c][q][Len(s) + 1] = m0
  BY <1>6
<1>9. \A i \in 1..Len(s) : i <= s[i].n /\ s[i].n < sends
  BY <1>2, <1>5, <1>8 DEF StoreInv, Unstored
<1>10. \A i \in 1..Len(s) : s[i].n \in Nat
  BY <1>8 DEF Message
<1>11. Len(s) + 1 <= sends
  <2>1. CASE Len(s) = 0
    BY <1>1, <2>1
  <2>2. CASE Len(s) > 0
    <3>1. Len(s) \in 1..Len(s)
      BY <1>8, <2>2
    <3>2. Len(s) <= s[Len(s)].n /\ s[Len(s)].n < sends /\ s[Len(s)].n \in Nat
      BY <1>9, <1>10, <3>1
    <3> QED
      BY <1>1, <1>8, <3>2
  <2> QED
    BY <1>8, <2>1, <2>2
<1>12. StoreInv'
  <2> SUFFICES ASSUME NEW b \in Brokers, NEW p \in Partitions
               PROVE  /\ \A i \in DOMAIN store'[b][p] :
                            LET m == store'[b][p][i]
                            IN  i <= m.n /\ m.n <= sends /\ p = PartitionFor(m.key) /\ b = Leader[p]
                      /\ \A i, j \in DOMAIN store'[b][p] :
                            i < j => store'[b][p][i].n < store'[b][p][j].n
    BY DEF StoreInv, PartitionFor
  <2>1. CASE b # c \/ p # q
    BY <1>6, <2>1 DEF StoreInv
  <2>2. CASE b = c /\ p = q
    <3>1. q = PartitionFor(m0.key) /\ c = Leader[q]
      BY <1>3 DEF q, c
    <3>2. \A i \in 1..Len(s) : q = PartitionFor(s[i].key)
      BY <1>2, <1>8 DEF StoreInv
    <3>3. \A i \in 1..(Len(s) + 1) : i \in 1..Len(s) \/ i = Len(s) + 1
      BY <1>8
    <3> HIDE DEF s
    <3>4. \A i \in 1..(Len(s) + 1) :
             LET m == store'[c][q][i]
             IN  i <= m.n /\ m.n <= sends /\ q = PartitionFor(m.key) /\ c = Leader[q]
      <4> SUFFICES ASSUME NEW i \in 1..(Len(s) + 1)
                   PROVE  LET m == store'[c][q][i]
                          IN  i <= m.n /\ m.n <= sends /\ q = PartitionFor(m.key) /\ c = Leader[q]
        OBVIOUS
      <4>1. CASE i \in 1..Len(s)
        <5>1. store'[c][q][i] = s[i] /\ s[i].n \in Nat /\ i <= s[i].n /\ s[i].n < sends
          BY <1>8, <1>9, <1>10, <4>1
        <5>2. s[i].n <= sends
          BY <1>1, <5>1
        <5> QED
          BY <3>1, <3>2, <4>1, <5>1, <5>2
      <4>2. CASE i = Len(s) + 1
        BY <1>1, <1>3, <1>8, <1>11, <3>1, <4>2
      <4> QED
        BY <3>3, <4>1, <4>2
    <3>5. \A i, j \in 1..(Len(s) + 1) : i < j => store'[c][q][i].n < store'[c][q][j].n
      <4> SUFFICES ASSUME NEW i \in 1..(Len(s) + 1), NEW j \in 1..(Len(s) + 1), i < j
                   PROVE  store'[c][q][i].n < store'[c][q][j].n
        OBVIOUS
      <4>1. i \in 1..Len(s)
        BY <1>8
      <4>2. CASE j = Len(s) + 1
        BY <1>3, <1>8, <1>9, <4>1, <4>2
      <4>3. CASE j \in 1..Len(s)
        BY <1>2, <1>8, <4>1, <4>3 DEF StoreInv, s
      <4> QED
        BY <3>3, <4>2, <4>3
    <3> QED
      BY <1>8, <2>2, <3>4, <3>5
  <2> QED
    BY <2>1, <2>2
<1>13. ASSUME NEW m \in Message, In(m)
       PROVE  In(m)'
  <2> DEFINE p == PartitionFor(m.key)
  <2>1. m.key \in Keys /\ p \in Partitions /\ Leader[p] \in Brokers
    BY PartitionForType, LeaderForType DEF Message
  <2>2. PICK i \in DOMAIN store[Leader[p]][p] : store[Leader[p]][p][i] = m
    BY <1>13 DEF In
  <2>3. i \in DOMAIN store'[Leader[p]][p] /\ store'[Leader[p]][p][i] = m
    <3> HIDE DEF p
    <3>1. CASE Leader[p] # c \/ p # q
      BY <1>6, <2>1, <2>2, <3>1
    <3>2. CASE Leader[p] = c /\ p = q
      <4> HIDE DEF s
      <4>1. i \in 1..Len(s) /\ s[i] = m
        BY <1>8, <2>2, <3>2 DEF s
      <4> QED
        BY <1>8, <3>2, <4>1
    <3> QED
      BY <3>1, <3>2
  <2> QED
    BY <2>3 DEF In, PartitionFor
<1>14. In(m0)'
  <2>1. PartitionFor(m0.key) = q /\ Leader[q] = c
    BY <1>3 DEF q, c
  <2>2. Len(s) + 1 \in DOMAIN store'[c][q] /\ store'[c][q][Len(s) + 1] = m0
    BY <1>8
  <2>3. m0' = m0
    BY DEF m0, Request, PartitionFor
  <2> QED
    BY <2>1, <2>2, <2>3 DEF In, PartitionFor
<1> QED
  BY <1>7, <1>12, <1>13, <1>14 DEF m0

Answers == {"stored", "error", "full", "bare", "done"}

\* The handler is done with the request, and the answer is written or not.
LEMMA AnswerFacts ==
    ASSUME TypeInv, NEW l \in Links, NEW a \in Answers, Answer(l, a)
    PROVE  /\ link' \in [Links -> LinkType]
           /\ \A j \in Links : SoundLink(link'[j])
           /\ \A j \in Links : j # l => link'[j] = link[j]
           /\ link'[l].job = None /\ link'[l].req = link[l].req
           /\ link'[l].ans \in {link[l].ans, Frame(a)}
           /\ phase' = phase
<1> DEFINE k == link[l]
           w == WriteFrame(link[l], a)
           j == [k EXCEPT !.job = None, !.ans = w, !.at = IF a = "error" THEN "read" ELSE "extend"]
<1>1. SoundLink(k) /\ k \in LinkType
  BY DEF TypeInv
<1>2. w \in {k.ans, Frame(a)}
  BY DEF WriteFrame
<1>3. k.ans \in Frames
  BY <1>1 DEF LinkType
<1>4. w \in Frames
  BY <1>2, <1>3, FramesTypes DEF Answers
<1>5. link' = [link EXCEPT ![l] = j] /\ k.at = "work" /\ phase' = phase
  BY DEF Answer, At, TypeInv
<1> HIDE DEF w
<1>6. j \in LinkType
  BY <1>1, <1>4, FramesTypes DEF LinkType
<1>7. /\ j.job = None /\ j.req = k.req /\ j.ans = w /\ j.at # "none" /\ j.conn = k.conn
  BY <1>1 DEF LinkType
<1>8. SoundLink(j)
  BY <1>1, <1>5, <1>6, <1>7 DEF SoundLink
<1> HIDE DEF j
<1>9. link'[l] = j /\ \A i \in Links : i # l => link'[i] = link[i]
  BY <1>5 DEF TypeInv
<1>10. link' \in [Links -> LinkType]
  BY <1>5, <1>6 DEF TypeInv
<1>11. \A i \in Links : SoundLink(link'[i])
  BY <1>8, <1>9 DEF TypeInv
<1> QED
  BY <1>2, <1>5, <1>7, <1>9, <1>10, <1>11

\* An answer to the producer is one to what it asked for.
LEMMA AnswerLinks ==
    ASSUME TypeInv, LinkInv, UNCHANGED <<doing, sends, key>>,
           NEW l \in Links, NEW a \in Answers, Answer(l, a),
           link[l].job # None, l \in ALinks \/ Frame(a) \in AnswersTo
    PROVE  LinkInv'
<1>1. \A b : Waits(b)' <=> Waits(b)
  BY DEF Waits, PartitionFor
<1>2. AskedFor' = AskedFor /\ AnswersTo' = AnswersTo
  BY DEF AskedFor, AnswersTo, Request, PartitionFor
<1>3. /\ \A j \in Links : j # l => link'[j] = link[j]
      /\ link'[l].job = None /\ link'[l].req = link[l].req
      /\ link'[l].ans \in {link[l].ans, Frame(a)}
  BY AnswerFacts
<1>4. ASSUME NEW b \in Brokers
      PROVE  IF Waits(b) THEN OneFrame(link'[PLink(b)], AskedFor, AnswersTo)
             ELSE Clean(link'[PLink(b)])
  <2>1. CASE PLink(b) # l
    BY <1>3, <2>1, LinkFacts DEF LinkInv
  <2>2. CASE PLink(b) = l
    <3>1. Waits(b) /\ OneFrame(link[l], AskedFor, AnswersTo)
      BY <2>2 DEF LinkInv, Clean
    <3>2. Frame(a) \in AnswersTo
      BY <2>2, LinkFacts
    <3> QED
      BY <1>3, <2>2, <3>1, <3>2 DEF OneFrame, Pending
  <2> QED
    BY <2>1, <2>2
<1>5. \A j \in ALinks : link'[j].req.type # "produce" /\ link'[j].job.type # "produce"
  <2>1. None.type # "produce"
    BY FrameTypes
  <2> QED
    BY <1>3, <2>1, LinkFacts DEF LinkInv
<1> QED
  BY <1>1, <1>2, <1>4, <1>5 DEF LinkInv

\* A request that stores nothing.
LEMMA QuietAnswer ==
    ASSUME Inv, Apart, NEW l \in Links, NEW a \in Answers \ {"stored"}, Answer(l, a),
           link[l].job # None, l \in ALinks \/ Frame(a) \in AnswersTo
    PROVE  Inv'
<1>1. LinkInv'
  BY AnswerLinks DEF Inv, Apart
<1>2. /\ link' \in [Links -> LinkType]
      /\ \A j \in Links : SoundLink(link'[j])
      /\ \A j \in Links : j # l => link'[j] = link[j]
      /\ link'[l].job = None /\ link'[l].req = link[l].req
      /\ link'[l].ans \in {link[l].ans, Frame(a)}
      /\ phase' = phase
  BY AnswerFacts DEF Inv
<1>3. TypeInv'
  BY <1>2 DEF Inv, TypeInv, Apart, Busy
<1>4. StoreInv'
  BY DEF Inv, StoreInv, Apart, PartitionFor
<1> DEFINE p == PLink(Leader[PartitionFor(key)])
<1>5. doing = "sending" => p \in Links
  BY LeaderForType, LinkFacts DEF Inv, TypeInv, Busy
<1>6. Frame(a) # Frame("stored")
  BY FrameTypes
<1>7. FreshInv'
  <2>1. Unstored' <=> Unstored
    BY DEF Unstored, Apart
  <2>2. doing = "sending" /\ Pending(link'[p]) => Pending(link[p])
    BY <1>2, <1>5 DEF Pending
  <2> QED
    BY <2>1, <2>2 DEF Inv, FreshInv, Apart, PartitionFor
<1>8. AckInv'
  <2>1. \A m : In(m)' <=> In(m)
    BY DEF In, Apart, PartitionFor
  <2>2. doing = "sending" /\ link'[p].ans = Frame("stored") => link[p].ans = Frame("stored")
    BY <1>2, <1>5, <1>6
  <2>3. Request' = Request
    BY DEF Request, Apart, PartitionFor
  <2> QED
    BY <2>1, <2>2, <2>3 DEF Inv, AckInv, Apart, PartitionFor
<1> QED
  BY <1>1, <1>3, <1>4, <1>7, <1>8 DEF Inv

\* The message is stored, and its request is gone.
LEMMA StoredKeeps ==
    ASSUME Inv, NEW l \in Links, Produces(l), store' = Stored(l),
           UNCHANGED <<metadata, doing, sends, key, acked, asking>>,
           phase' \in [Brokers -> {"up", "stopping", "draining", "down"}],
           link' \in [Links -> LinkType], \A j \in Links : SoundLink(link'[j]),
           LinkInv', ~Pending(link'[l])
    PROVE  Inv'
<1>1. /\ doing = "sending" /\ l = PLink(Leader[PartitionFor(key)])
  BY ProducesFacts DEF Inv
<1>2. /\ store' \in [Brokers -> [Partitions -> Seq(Message)]]
      /\ StoreInv'
      /\ \A m \in Message : In(m) => In(m)'
      /\ In(Request.msg)'
  BY StoredFacts DEF Inv
<1>3. TypeInv'
  BY <1>2 DEF Inv, TypeInv, Busy
<1>4. FreshInv'
  BY <1>1 DEF FreshInv, PartitionFor
<1>5. AckInv'
  <2>1. \A m \in acked' : In(m)'
    BY <1>2 DEF Inv, AckInv, TypeInv
  <2> QED
    BY <1>2, <2>1 DEF AckInv
<1> QED
  BY <1>2, <1>3, <1>4, <1>5 DEF Inv

LEMMA HandleProduceKeeps ==
    ASSUME Inv, NEW l \in Links, HandleProduce(l)
    PROVE  Inv'
<1>1. /\ doing = "sending" /\ link[l].job = Request /\ link[l].req = None
      /\ Pending(link[l])
  BY ProducesFacts DEF HandleProduce, Inv
<1>2. AnswersTo = {Frame("stored"), Frame("error")} /\ link[l].job # None
  BY <1>1 DEF AnswersTo, Pending
<1>3. CASE Answer(l, "stored") /\ store' = Stored(l)
  <2>1. "stored" \in Answers
    BY DEF Answers
  <2>2. LinkInv'
    BY <1>2, <1>3, <2>1, AnswerLinks DEF Inv, HandleProduce
  <2>3. /\ link' \in [Links -> LinkType] /\ \A j \in Links : SoundLink(link'[j])
        /\ phase' = phase /\ link'[l].job = None /\ link'[l].req = None
    BY <1>1, <1>3, <2>1, AnswerFacts DEF Inv
  <2>4. ~Pending(link'[l])
    BY <2>3 DEF Pending
  <2> QED
    BY <1>3, <2>2, <2>3, <2>4, StoredKeeps DEF HandleProduce, Inv, TypeInv
<1>4. CASE Answer(l, "error") /\ UNCHANGED store
  BY <1>2, <1>4, QuietAnswer DEF Answers, HandleProduce, Apart
<1> QED
  BY <1>3, <1>4 DEF HandleProduce

LEMMA HandleOthersKeep ==
    ASSUME Inv, NEW l \in Links, HandleGetMetadata(l) \/ HandleAdmin(l)
    PROVE  Inv'
<1>1. Apart
  BY DEF HandleGetMetadata, HandleAdmin, Apart
<1>2. link[l].job.type \in {"getMetadata", "admin"}
  BY DEF HandleGetMetadata, HandleAdmin
<1>3. link[l].job # None
  BY <1>2, FrameTypes
<1>4. ASSUME l \notin ALinks
      PROVE  link[l].job = Frame("getMetadata") /\ doing # "sending"
  <2>1. PICK b \in Brokers : l = PLink(b)
    BY <1>4, LinkFacts
  <2>2. Waits(b) /\ link[l].job = AskedFor
    BY <1>3, <2>1 DEF Inv, LinkInv, Clean, OneFrame
  <2>3. CASE doing = "sending"
    <3>1. Request \in ProduceFrame
      BY <2>3, RequestType, ProducerAssumption DEF Inv, TypeInv, Busy
    <3> QED
      BY <1>2, <2>2, <2>3, <3>1, FrameTypes DEF AskedFor
  <2> QED
    BY <2>2, <2>3 DEF AskedFor
<1>5. CASE HandleGetMetadata(l)
  <2>1. PICK a \in {"full", "bare", "error"} : Answer(l, a)
    BY <1>5 DEF HandleGetMetadata
  <2>2. a \in Answers \ {"stored"}
    BY DEF Answers
  <2>3. l \in ALinks \/ Frame(a) \in AnswersTo
    BY <1>4 DEF AnswersTo
  <2> QED
    BY <1>1, <1>3, <2>1, <2>2, <2>3, QuietAnswer
<1>6. CASE HandleAdmin(l)
  <2>1. PICK a \in {"done", "error"} : Answer(l, a)
    BY <1>6 DEF HandleAdmin
  <2>2. a \in Answers \ {"stored"}
    BY DEF Answers
  <2>3. l \in ALinks
    BY <1>4, <1>6, FrameTypes DEF HandleAdmin
  <2> QED
    BY <1>1, <1>3, <2>1, <2>2, <2>3, QuietAnswer
<1> QED
  BY <1>5, <1>6

\* Whether a broker stored the message or not before it died.
LEMMA BrokerCrashKeeps ==
    ASSUME Inv, NEW b \in Brokers, BrokerCrash(b)
    PROVE  Inv'
<1>1. /\ Drifts /\ link' \in [Links -> LinkType]
      /\ phase' \in [Brokers -> {"up", "stopping", "draining", "down"}]
  BY BrokerDrifts DEF BrokerCrash, Inv
<1>2. CASE store' = store
  BY <1>1, <1>2, DriftKeeps DEF BrokerCrash, Apart
<1>3. CASE store' # store
  <2>1. PICK l \in Links : BrokerOf(l) = b /\ Produces(l) /\ store' = Stored(l)
    BY <1>3 DEF BrokerCrash
  <2>2. LinkInv'
    BY <1>1, DriftLinks DEF Inv, BrokerCrash
  <2>3. link'[l] = Closed(link[l])
    BY <2>1 DEF BrokerCrash, Crash
  <2>4. ~Pending(link'[l])
    BY <2>3 DEF Closed, NoLink, Pending
  <2>5. \A j \in Links : SoundLink(link'[j])
    BY <1>1 DEF Drifts, Drift
  <2> QED
    BY <1>1, <2>1, <2>2, <2>4, <2>5, StoredKeeps DEF BrokerCrash
<1> QED
  BY <1>2, <1>3

----------------------------------------------------------------------------
(* The clients.                                                            *)

\* The producer waits for no answer after the step.
LEMMA NotWaiting ==
    ASSUME Inv, UNCHANGED <<phase, store>>,
           doing' \in {"idle", "closed", "route"},
           metadata' \in {"none", "full", "bare"},
           sends' \in 0..MaxSends, sends <= sends',
           doing' = "route" => Unstored' /\ key' \in Keys /\ sends' >= 1,
           acked' \subseteq Message, \A m \in acked' : In(m),
           link' \in [Links -> LinkType], \A l \in Links : SoundLink(link'[l]),
           \A b \in Brokers : Clean(link'[PLink(b)]),
           \A l \in ALinks : link'[l] = link[l]
    PROVE  Inv'
<1>1. TypeInv'
  BY DEF Inv, TypeInv, Busy
<1>2. LinkInv'
  BY DEF Inv, LinkInv, Waits
<1>3. StoreInv'
  <2>1. ASSUME NEW b \in Brokers, NEW p \in Partitions, NEW i \in DOMAIN store[b][p]
        PROVE  store[b][p][i].n <= sends'
    <3>1. store[b][p] \in Seq(Message)
      BY DEF Inv, TypeInv
    <3>2. store[b][p][i].n \in Nat
      <4>1. store[b][p][i] \in Message
        BY <3>1
      <4>2. \A m \in Message : m.n \in Nat
        BY DEF Message
      <4> QED
        BY <4>1, <4>2
    <3>3. store[b][p][i].n <= sends
      BY DEF Inv, StoreInv
    <3>4. sends \in Nat /\ sends' \in Nat
      BY DEF Inv, TypeInv
    <3> QED
      BY <3>2, <3>3, <3>4
  <2> QED
    BY <2>1 DEF Inv, StoreInv, PartitionFor
<1>4. FreshInv'
  BY DEF FreshInv
<1>5. AckInv'
  <2>1. \A m : In(m)' <=> In(m)
    BY DEF In, PartitionFor
  <2> QED
    BY <2>1 DEF AckInv
<1> QED
  BY <1>1, <1>2, <1>3, <1>4, <1>5 DEF Inv

\* An answer is on the connection that the producer waits for, alone.
LEMMA ReadFacts ==
    ASSUME Inv, NEW b \in Brokers, NEW a \in Answers, ReadResponse(PLink(b), a)
    PROVE  /\ Waits(b) /\ Frame(a) \in AnswersTo
           /\ link' \in [Links -> LinkType] /\ \A l \in Links : SoundLink(link'[l])
           /\ \A c \in Brokers : Clean(link'[PLink(c)])
           /\ \A l \in ALinks : link'[l] = link[l]
<1> DEFINE k == link[PLink(b)]
           j == [k EXCEPT !.ans = None]
<1>1. PLink(b) \in Links /\ SoundLink(k) /\ k \in LinkType
  BY LinkFacts DEF Inv, TypeInv
<1>2. k.ans = Frame(a) /\ k.ans # None
  BY FrameTypes DEF ReadResponse, Answers
<1>3. Waits(b) /\ OneFrame(k, AskedFor, AnswersTo)
  BY <1>2 DEF Inv, LinkInv, Clean
<1>4. Frame(a) \in AnswersTo /\ k.req = None /\ k.job = None
  BY <1>2, <1>3 DEF OneFrame, Pending
<1>5. link' = [link EXCEPT ![PLink(b)] = j]
  BY <1>1 DEF ReadResponse, Inv, TypeInv
<1>6. j \in LinkType
  BY <1>1, FramesTypes DEF LinkType
<1>7. /\ j.req = None /\ j.job = None /\ j.ans = None
      /\ j.conn = k.conn /\ j.at = k.at
  BY <1>1, <1>4 DEF LinkType
<1>8. SoundLink(j) /\ Clean(j)
  BY <1>1, <1>6, <1>7 DEF SoundLink, Clean
<1> HIDE DEF j
<1>9. link'[PLink(b)] = j /\ \A l \in Links : l # PLink(b) => link'[l] = link[l]
  BY <1>1, <1>5 DEF Inv, TypeInv
<1>10. link' \in [Links -> LinkType]
  BY <1>5, <1>6 DEF Inv, TypeInv
<1>11. \A l \in Links : SoundLink(link'[l])
  BY <1>8, <1>9 DEF Inv, TypeInv
<1>12. ASSUME NEW c \in Brokers
       PROVE  Clean(link'[PLink(c)])
  <2>1. CASE c = b
    BY <1>8, <1>9, <2>1
  <2>2. CASE c # b
    <3>1. ~Waits(c) /\ PLink(c) # PLink(b)
      BY <1>3, <2>2, LinkFacts DEF Waits
    <3> QED
      BY <1>9, <3>1, LinkFacts DEF Inv, LinkInv
  <2> QED
    BY <2>1, <2>2
<1> QED
  BY <1>3, <1>4, <1>9, <1>10, <1>11, <1>12, LinkFacts

\* A request goes out over the connection that is there or a new one.
LEMMA WriteFacts ==
    ASSUME TypeInv, NEW l \in Links, NEW r \in Frames, WriteRequest(l, r)
    PROVE  /\ link' \in [Links -> LinkType] /\ \A j \in Links : SoundLink(link'[j])
           /\ \A j \in Links : j # l => link'[j] = link[j]
           /\ link'[l].req = r
           /\ link'[l].job \in {None, link[l].job} /\ link'[l].ans \in {None, link[l].ans}
           /\ phase' = phase
<1> DEFINE d == Dialled(l)
           j == [d EXCEPT !.req = r]
<1>1. link' = [link EXCEPT ![l] = j] /\ phase' = phase
  BY DEF WriteRequest
<1>2. SoundLink(d) /\ d.conn = "open"
  <2>1. CASE link[l].conn = "open"
    BY <2>1 DEF Dialled, TypeInv
  <2>2. CASE link[l].conn # "open"
    <3>1. d = [NoLink EXCEPT !.conn = "open", !.at = "queued"]
      BY <2>2 DEF Dialled
    <3>2. d \in LinkType
      BY <3>1, NoLinkSound, FramesTypes DEF LinkType, NoLink
    <3>3. d.conn = "open" /\ d.at = "queued"
      BY <3>1 DEF NoLink
    <3> QED
      BY <3>2, <3>3 DEF SoundLink
  <2> QED
    BY <2>1, <2>2
<1>3. d.job \in {None, link[l].job} /\ d.ans \in {None, link[l].ans}
  BY DEF Dialled, NoLink
<1> HIDE DEF d
<1>4. d \in LinkType /\ d.at # "none"
  BY <1>2 DEF SoundLink
<1>5. j \in LinkType
  BY <1>4 DEF LinkType
<1>6. /\ j.req = r /\ j.job = d.job /\ j.ans = d.ans /\ j.conn = "open" /\ j.at = d.at
  BY <1>2, <1>4 DEF LinkType
<1>7. SoundLink(j)
  BY <1>4, <1>5, <1>6 DEF SoundLink
<1> HIDE DEF j
<1>8. link'[l] = j /\ \A i \in Links : i # l => link'[i] = link[i]
  BY <1>1 DEF TypeInv
<1>9. link' \in [Links -> LinkType]
  BY <1>1, <1>5 DEF TypeInv
<1>10. \A i \in Links : SoundLink(link'[i])
  BY <1>7, <1>8 DEF TypeInv
<1> QED
  BY <1>1, <1>3, <1>6, <1>8, <1>9, <1>10

\* The producer asks one broker, having nothing on any connection.
LEMMA AskFacts ==
    ASSUME Inv, \A c \in Brokers : ~Waits(c), NEW b \in Brokers, NEW r \in Frames,
           WriteRequest(PLink(b), r), NEW A
    PROVE  /\ link' \in [Links -> LinkType] /\ \A j \in Links : SoundLink(link'[j])
           /\ OneFrame(link'[PLink(b)], r, A) /\ link'[PLink(b)].ans = None
           /\ \A c \in Brokers : c # b => Clean(link'[PLink(c)])
           /\ \A l \in ALinks : link'[l] = link[l]
           /\ phase' = phase
<1>1. PLink(b) \in Links /\ TypeInv
  BY LinkFacts DEF Inv
<1>2. \A c \in Brokers : Clean(link[PLink(c)])
  BY DEF Inv, LinkInv
<1>3. /\ link' \in [Links -> LinkType] /\ \A j \in Links : SoundLink(link'[j])
      /\ \A j \in Links : j # PLink(b) => link'[j] = link[j]
      /\ link'[PLink(b)].req = r
      /\ link'[PLink(b)].job \in {None, link[PLink(b)].job}
      /\ link'[PLink(b)].ans \in {None, link[PLink(b)].ans}
      /\ phase' = phase
  BY <1>1, WriteFacts
<1>4. OneFrame(link'[PLink(b)], r, A) /\ link'[PLink(b)].ans = None
  BY <1>2, <1>3 DEF OneFrame, Clean
<1>5. \A c \in Brokers : c # b => Clean(link'[PLink(c)])
  BY <1>2, <1>3, LinkFacts
<1> QED
  BY <1>3, <1>4, <1>5, LinkFacts

\* When it waits for nothing, nothing is on the producer's connections.
LEMMA IdleFacts ==
    ASSUME Inv, doing \in {"idle", "route", "closed"}
    PROVE  /\ \A b \in Brokers : ~Waits(b) /\ Clean(link[PLink(b)])
           /\ link \in [Links -> LinkType] /\ \A l \in Links : SoundLink(link[l])
<1>1. \A b \in Brokers : ~Waits(b)
  BY DEF Waits
<1> QED
  BY <1>1 DEF Inv, LinkInv, TypeInv

LEMMA ConnectBootstrapKeeps ==
    ASSUME Inv, ConnectBootstrap
    PROVE  Inv'
<1> DEFINE l == PLink(Bootstrap)
           d == Dialled(l)
<1>1. l \in Links /\ Clean(link[l]) /\ TypeInv
  BY IdleFacts, LinkFacts, ProducerAssumption DEF ConnectBootstrap, Inv
<1>2. d = [NoLink EXCEPT !.conn = "open", !.at = "queued"]
  BY DEF ConnectBootstrap, Dial, Dials, Dialled
<1>3. d \in LinkType
  BY <1>2, FramesTypes DEF LinkType, NoLink
<1>4. /\ d.conn = "open" /\ d.at = "queued"
      /\ d.req = None /\ d.job = None /\ d.ans = None
  BY <1>2 DEF NoLink
<1>5. Drift(link[l], d)
  BY <1>1, <1>3, <1>4 DEF Drift, SoundLink, Clean
<1>6. link' = [link EXCEPT ![l] = d] /\ phase' = phase /\ Apart
  BY DEF ConnectBootstrap, Dial, Apart
<1> HIDE DEF l, d
<1>7. Drifts /\ link' \in [Links -> LinkType]
  BY <1>1, <1>5, <1>6, OneDrifts
<1> QED
  BY <1>6, <1>7, DriftKeeps DEF Inv, TypeInv

\* A call of Send: every message that is stored is of an earlier one.
LEMMA NewSend ==
    ASSUME Inv, UNCHANGED store, sends < MaxSends, sends' = sends + 1
    PROVE  Unstored' /\ sends' \in 1..MaxSends /\ sends <= sends'
<1>1. sends \in Nat /\ MaxSends \in Nat
  BY ProducerAssumption DEF Inv, TypeInv
<1>2. ASSUME NEW b \in Brokers, NEW p \in Partitions, NEW i \in DOMAIN store[b][p]
      PROVE  store[b][p][i].n < sends'
  <2>1. store[b][p][i] \in Message
    BY DEF Inv, TypeInv
  <2>2. \A m \in Message : m.n \in Nat
    BY DEF Message
  <2>3. store[b][p][i].n <= sends
    BY DEF Inv, StoreInv
  <2> QED
    BY <1>1, <2>1, <2>2, <2>3
<1>3. Unstored'
  BY <1>2 DEF Unstored
<1> QED
  BY <1>1, <1>3

LEMMA SendKeeps ==
    ASSUME Inv, NEW k \in Keys, Send(k)
    PROVE  Inv'
<1>1. Unstored' /\ sends' \in 1..MaxSends /\ sends <= sends'
  BY NewSend DEF Send
<1>2. /\ \A b \in Brokers : Clean(link'[PLink(b)])
      /\ link' \in [Links -> LinkType] /\ \A l \in Links : SoundLink(link'[l])
      /\ \A l \in ALinks : link'[l] = link[l]
      /\ UNCHANGED <<phase, store>>
  BY IdleFacts DEF Send, serverVars
<1>3. /\ acked' \subseteq Message /\ \A m \in acked' : In(m)
      /\ metadata' \in {"none", "full", "bare"}
  BY DEF Send, Inv, TypeInv, AckInv
<1>4. doing' = "route" /\ key' \in Keys
  BY DEF Send
<1>5. sends' \in 0..MaxSends /\ sends' >= 1
  BY <1>1
<1> QED
  BY <1>1, <1>2, <1>3, <1>4, <1>5, NotWaiting

LEMMA FetchTopicMetadataKeeps ==
    ASSUME Inv, NEW k \in Keys, FetchTopicMetadata(k)
    PROVE  Inv'
<1>1. Unstored' /\ sends' \in 1..MaxSends /\ sends <= sends'
  BY NewSend DEF FetchTopicMetadata
<1>2. doing = "idle" /\ UNCHANGED <<store, metadata, acked>> /\ key' = k
  BY DEF FetchTopicMetadata
<1>3. sends' \in 0..MaxSends /\ sends' >= 1
  BY <1>1
<1>4. /\ acked' \subseteq Message /\ \A m \in acked' : In(m)
      /\ metadata' \in {"none", "full", "bare"}
  BY <1>2 DEF Inv, TypeInv, AckInv
<1>5. CASE UNCHANGED <<serverVars, doing>>
  <2>1. /\ \A b \in Brokers : Clean(link'[PLink(b)])
        /\ link' \in [Links -> LinkType] /\ \A l \in Links : SoundLink(link'[l])
        /\ \A l \in ALinks : link'[l] = link[l]
        /\ UNCHANGED <<phase, store>>
    BY <1>2, <1>5, IdleFacts DEF serverVars
  <2>2. doing' = "idle"
    BY <1>2, <1>5
  <2> QED
    BY <1>1, <1>3, <1>4, <2>1, <2>2, NotWaiting
<1>6. CASE WriteRequest(PLink(Bootstrap), Frame("getMetadata")) /\ doing' = "fetching"
  <2>1. /\ link' \in [Links -> LinkType] /\ \A j \in Links : SoundLink(link'[j])
        /\ OneFrame(link'[PLink(Bootstrap)], Frame("getMetadata"),
                    {Frame("full"), Frame("bare"), Frame("error")})
        /\ \A c \in Brokers : c # Bootstrap => Clean(link'[PLink(c)])
        /\ \A l \in ALinks : link'[l] = link[l]
        /\ phase' = phase
    BY <1>2, <1>6, IdleFacts, FramesTypes, AskFacts, ProducerAssumption
  <2>2. TypeInv'
    BY <1>2, <1>3, <1>4, <1>6, <2>1 DEF Inv, TypeInv, Busy
  <2>3. LinkInv'
    <3>1. \A b : Waits(b)' <=> b = Bootstrap
      BY <1>6 DEF Waits
    <3>2. AskedFor' = Frame("getMetadata")
          /\ AnswersTo' = {Frame("full"), Frame("bare"), Frame("error")}
      BY <1>6 DEF AskedFor, AnswersTo
    <3> QED
      BY <2>1, <3>1, <3>2 DEF Inv, LinkInv
  <2>4. StoreInv'
    <3>1. ASSUME NEW b \in Brokers, NEW p \in Partitions, NEW i \in DOMAIN store[b][p]
          PROVE  store[b][p][i].n <= sends'
      <4>1. store[b][p][i] \in Message
        BY DEF Inv, TypeInv
      <4>2. \A m \in Message : m.n \in Nat
        BY DEF Message
      <4>3. store[b][p][i].n < sends'
        BY <1>1, <1>2 DEF Unstored
      <4> QED
        BY <1>3, <4>1, <4>2, <4>3
    <3> QED
      BY <1>2, <3>1 DEF Inv, StoreInv, PartitionFor
  <2>5. FreshInv'
    BY <1>1, <1>6 DEF FreshInv
  <2>6. AckInv'
    <3>1. \A m : In(m)' <=> In(m)
      BY <1>2 DEF In, PartitionFor
    <3> QED
      BY <1>4, <1>6, <3>1 DEF AckInv
  <2> QED
    BY <2>2, <2>3, <2>4, <2>5, <2>6 DEF Inv
<1> QED
  BY <1>5, <1>6 DEF FetchTopicMetadata

LEMMA MetadataLoadedKeeps ==
    ASSUME Inv, NEW m \in {"full", "bare"}, MetadataLoaded(m)
    PROVE  Inv'
<1>1. m \in Answers /\ Bootstrap \in Brokers
  BY ProducerAssumption DEF Answers
<1>2. /\ link' \in [Links -> LinkType] /\ \A l \in Links : SoundLink(link'[l])
      /\ \A c \in Brokers : Clean(link'[PLink(c)])
      /\ \A l \in ALinks : link'[l] = link[l]
  BY <1>1, ReadFacts DEF MetadataLoaded
<1>3. /\ doing = "fetching" /\ doing' = "route" /\ metadata' = m
      /\ UNCHANGED <<phase, store, sends, key, acked>>
  BY DEF MetadataLoaded, ReadResponse
<1>4. Unstored'
  BY <1>3 DEF Inv, FreshInv, Unstored
<1>5. key' \in Keys /\ sends' >= 1 /\ sends' \in 0..MaxSends /\ sends <= sends'
  BY <1>3 DEF Inv, TypeInv, Busy
<1>6. acked' \subseteq Message /\ \A x \in acked' : In(x)
  BY <1>3 DEF Inv, TypeInv, AckInv
<1>7. metadata' \in {"none", "full", "bare"}
  BY <1>3
<1> QED
  BY <1>2, <1>3, <1>4, <1>5, <1>6, <1>7, NotWaiting

LEMMA ProduceKeeps ==
    ASSUME Inv, Produce
    PROVE  Inv'
<1> DEFINE b == Leader[PartitionFor(key)]
<1>1. /\ doing = "route" /\ doing' = "sending"
      /\ UNCHANGED <<store, metadata, sends, key, acked>>
  BY DEF Produce
<1>2. WriteRequest(PLink(b), Request)
  BY DEF Produce, LeaderFor
<1>3. key \in Keys /\ sends \in 1..MaxSends
  BY <1>1, ProducerAssumption DEF Inv, TypeInv, Busy
<1>4. b \in Brokers /\ Request \in Frames
  BY <1>3, LeaderForType, RequestType, FramesTypes
<1>5. /\ link' \in [Links -> LinkType] /\ \A j \in Links : SoundLink(link'[j])
      /\ OneFrame(link'[PLink(b)], Request, {Frame("stored"), Frame("error")})
      /\ link'[PLink(b)].ans = None
      /\ \A c \in Brokers : c # b => Clean(link'[PLink(c)])
      /\ \A l \in ALinks : link'[l] = link[l]
      /\ phase' = phase
  BY <1>1, <1>2, <1>4, IdleFacts, AskFacts
<1>6. TypeInv'
  BY <1>1, <1>3, <1>5 DEF Inv, TypeInv, Busy
<1>7. LinkInv'
  <2>1. \A c : Waits(c)' <=> c = b
    BY <1>1 DEF Waits, PartitionFor
  <2>2. AskedFor' = Request /\ AnswersTo' = {Frame("stored"), Frame("error")}
    BY <1>1 DEF AskedFor, AnswersTo, Request, PartitionFor
  <2> QED
    BY <1>5, <2>1, <2>2 DEF Inv, LinkInv
<1>8. StoreInv'
  BY <1>1 DEF Inv, StoreInv, PartitionFor
<1>9. FreshInv'
  BY <1>1 DEF Inv, FreshInv, Unstored
<1>10. AckInv'
  <2>1. \A m : In(m)' <=> In(m)
    BY <1>1 DEF In, PartitionFor
  <2>2. link'[PLink(Leader[PartitionFor(key)])].ans # Frame("stored")
    BY <1>5, FrameTypes
  <2> QED
    BY <1>1, <2>1, <2>2 DEF Inv, AckInv, PartitionFor
<1> QED
  BY <1>6, <1>7, <1>8, <1>9, <1>10 DEF Inv

\* The answer says that the message is stored, and it is.
LEMMA AcknowledgedKeeps ==
    ASSUME Inv, Acknowledged
    PROVE  Inv'
<1>1. PICK b \in Brokers : ReadResponse(PLink(b), "stored")
  BY DEF Acknowledged
<1>2. /\ Waits(b)
      /\ link' \in [Links -> LinkType] /\ \A l \in Links : SoundLink(link'[l])
      /\ \A c \in Brokers : Clean(link'[PLink(c)])
      /\ \A l \in ALinks : link'[l] = link[l]
  BY <1>1, ReadFacts DEF Answers
<1>3. /\ doing = "sending" /\ doing' = "idle" /\ acked' = acked \cup {Request.msg}
      /\ UNCHANGED <<phase, store, metadata, sends, key>>
  BY <1>1 DEF Acknowledged, ReadResponse
<1>4. In(Request.msg)
  BY <1>1, <1>2, <1>3 DEF Inv, AckInv, Waits, ReadResponse
<1>5. Request.msg \in Message
  BY <1>3, RequestType, ProducerAssumption DEF Inv, TypeInv, Busy
<1>6. acked' \subseteq Message /\ \A x \in acked' : In(x)
  BY <1>3, <1>4, <1>5 DEF Inv, TypeInv, AckInv
<1>7. metadata' \in {"none", "full", "bare"} /\ sends' \in 0..MaxSends /\ sends <= sends'
  BY <1>3 DEF Inv, TypeInv
<1> QED
  BY <1>2, <1>3, <1>6, <1>7, NotWaiting

LEMMA RefusedKeeps ==
    ASSUME Inv, Refused
    PROVE  Inv'
<1>1. PICK b \in Brokers : ReadResponse(PLink(b), "error")
  BY DEF Refused
<1>2. /\ link' \in [Links -> LinkType] /\ \A l \in Links : SoundLink(link'[l])
      /\ \A c \in Brokers : Clean(link'[PLink(c)])
      /\ \A l \in ALinks : link'[l] = link[l]
  BY <1>1, ReadFacts DEF Answers
<1>3. doing' = "idle" /\ UNCHANGED <<phase, store, metadata, sends, key, acked>>
  BY <1>1 DEF Refused, ReadResponse
<1>4. acked' \subseteq Message /\ \A x \in acked' : In(x)
  BY <1>3 DEF Inv, TypeInv, AckInv
<1>5. metadata' \in {"none", "full", "bare"} /\ sends' \in 0..MaxSends /\ sends <= sends'
  BY <1>3 DEF Inv, TypeInv
<1> QED
  BY <1>2, <1>3, <1>4, <1>5, NotWaiting

\* A connection that is dead holds no request, so none is left behind.
LEMMA SendFailsKeeps ==
    ASSUME Inv, SendFails
    PROVE  Inv'
<1>1. doing' = "idle" /\ UNCHANGED <<phase, link, store, metadata, sends, key, acked>>
  BY DEF SendFails, serverVars
<1>2. ASSUME NEW c \in Brokers
      PROVE  Clean(link[PLink(c)])
  <2>1. CASE ~Waits(c)
    BY <2>1 DEF Inv, LinkInv
  <2>2. CASE Waits(c)
    <3>1. ReadResponseFails(PLink(c))
      BY <2>2 DEF SendFails, Waits, LeaderFor
    <3>2. PLink(c) \in Links /\ SoundLink(link[PLink(c)])
      BY LinkFacts DEF Inv, TypeInv
    <3> QED
      BY <3>1, <3>2 DEF ReadResponseFails, SoundLink, Clean
  <2> QED
    BY <2>1, <2>2
<1>3. /\ link' \in [Links -> LinkType] /\ \A l \in Links : SoundLink(link'[l])
      /\ \A l \in ALinks : link'[l] = link[l]
  BY <1>1 DEF Inv, TypeInv
<1>4. acked' \subseteq Message /\ \A x \in acked' : In(x)
  BY <1>1 DEF Inv, TypeInv, AckInv
<1>5. metadata' \in {"none", "full", "bare"} /\ sends' \in 0..MaxSends /\ sends <= sends'
  BY <1>1 DEF Inv, TypeInv
<1>6. \A c \in Brokers : Clean(link'[PLink(c)])
  BY <1>1, <1>2
<1> QED
  BY <1>1, <1>3, <1>4, <1>5, <1>6, NotWaiting

LEMMA CloseKeeps ==
    ASSUME Inv, Close
    PROVE  Inv'
<1>1. /\ doing = "idle" /\ doing' = "closed"
      /\ UNCHANGED <<phase, store, metadata, sends, key, acked>>
      /\ link' = [l \in Links |-> IF l[1] = Producer THEN [link[l] EXCEPT !.conn = "none"]
                                  ELSE link[l]]
  BY DEF Close
<1>2. ASSUME NEW l \in Links
      PROVE  SoundLink(link'[l]) /\ (Clean(link[l]) => Clean(link'[l]))
  <2> DEFINE k == link[l]
             j == [k EXCEPT !.conn = "none"]
  <2>1. SoundLink(k) /\ k \in LinkType
    BY DEF Inv, TypeInv
  <2>2. j \in LinkType
    BY <2>1 DEF LinkType
  <2>3. /\ j.conn = "none" /\ j.at = k.at
        /\ j.req = k.req /\ j.job = k.job /\ j.ans = k.ans
    BY <2>1 DEF LinkType
  <2>4. SoundLink(j) /\ (Clean(k) => Clean(j))
    BY <2>1, <2>2, <2>3 DEF SoundLink, Clean
  <2> HIDE DEF j
  <2>5. link'[l] = k \/ link'[l] = j
    BY <1>1 DEF j
  <2> QED
    BY <2>1, <2>4, <2>5
<1>3. link' \in [Links -> LinkType]
  BY <1>1, <1>2 DEF SoundLink
<1>4. \A c \in Brokers : Clean(link'[PLink(c)])
  BY <1>1, <1>2, IdleFacts, LinkFacts
<1>5. \A l \in ALinks : link'[l] = link[l]
  BY <1>1, ProducerAssumption DEF ALinks
<1>6. acked' \subseteq Message /\ \A x \in acked' : In(x)
  BY <1>1 DEF Inv, TypeInv, AckInv
<1>7. metadata' \in {"none", "full", "bare"} /\ sends' \in 0..MaxSends /\ sends <= sends'
  BY <1>1 DEF Inv, TypeInv
<1> QED
  BY <1>1, <1>2, <1>3, <1>4, <1>5, <1>6, <1>7, NotWaiting

\* The admin client has connections of its own, and sends no message.
LEMMA AdminKeeps ==
    ASSUME Inv, NEW l \in ALinks, AdminAsks(l) \/ AdminReturns(l) \/ AdminCloses(l)
    PROVE  Inv'
<1>1. UNCHANGED <<phase, store, metadata, doing, sends, key, acked>>
  BY DEF AdminAsks, AdminReturns, AdminCloses, WriteRequest
<1>2. l \in Links
  BY LinkFacts
<1>3. /\ link' \in [Links -> LinkType] /\ \A j \in Links : SoundLink(link'[j])
      /\ \A j \in Links : j # l => link'[j] = link[j]
      /\ link'[l].req.type # "produce" /\ link'[l].job.type # "produce"
  <2>1. Frame("admin").type # "produce" /\ None.type # "produce" /\ Frame("admin") \in Frames
    BY FrameTypes, FramesTypes
  <2>2. CASE AdminAsks(l)
    <3>1. /\ link' \in [Links -> LinkType] /\ \A j \in Links : SoundLink(link'[j])
          /\ \A j \in Links : j # l => link'[j] = link[j]
          /\ link'[l].req = Frame("admin") /\ link'[l].job \in {None, link[l].job}
      BY <1>2, <2>1, <2>2, WriteFacts DEF AdminAsks, Inv
    <3> QED
      BY <2>1, <3>1 DEF Inv, LinkInv
  <2>3. link[l] \in LinkType /\ SoundLink(link[l])
    BY <1>2 DEF Inv, TypeInv
  <2> DEFINE Done(j) == /\ SoundLink(j) /\ j.req = link[l].req /\ j.job = link[l].job
                        /\ link' = [link EXCEPT ![l] = j]
  <2>4. ASSUME NEW j, Done(j)
        PROVE  /\ link' \in [Links -> LinkType] /\ \A i \in Links : SoundLink(link'[i])
               /\ \A i \in Links : i # l => link'[i] = link[i]
               /\ link'[l].req.type # "produce" /\ link'[l].job.type # "produce"
    <3>1. j \in LinkType
      BY <2>4 DEF SoundLink
    <3>2. link'[l] = j /\ \A i \in Links : i # l => link'[i] = link[i]
      BY <1>2, <2>4 DEF Inv, TypeInv
    <3>3. link' \in [Links -> LinkType]
      BY <2>4, <3>1 DEF Inv, TypeInv
    <3>4. \A i \in Links : SoundLink(link'[i])
      BY <2>4, <3>2 DEF Inv, TypeInv
    <3>5. link'[l].req.type # "produce" /\ link'[l].job.type # "produce"
      BY <2>4, <3>2 DEF Inv, LinkInv
    <3> QED
      BY <3>2, <3>3, <3>4, <3>5
  <2>5. CASE AdminReturns(l)
    <3> DEFINE j == [link[l] EXCEPT !.ans = None]
    <3>1. j \in LinkType
      BY <2>3, FramesTypes DEF LinkType
    <3>2. j.conn = link[l].conn /\ j.at = link[l].at /\ j.req = link[l].req /\ j.job = link[l].job
      BY <2>3 DEF LinkType
    <3>3. SoundLink(j)
      BY <2>3, <3>1, <3>2 DEF SoundLink
    <3>4. link' = [link EXCEPT ![l] = j]
      BY <1>2, <2>5 DEF AdminReturns, Inv, TypeInv
    <3>5. Done(j)
      BY <3>2, <3>3, <3>4
    <3> HIDE DEF j, Done
    <3> QED
      BY <2>4, <3>5
  <2>6. CASE AdminCloses(l)
    <3> DEFINE j == [link[l] EXCEPT !.conn = "none"]
    <3>1. j \in LinkType
      BY <2>3 DEF LinkType
    <3>2. j.conn = "none" /\ j.at = link[l].at /\ j.req = link[l].req /\ j.job = link[l].job
      BY <2>3 DEF LinkType
    <3>3. SoundLink(j)
      BY <2>3, <3>1, <3>2 DEF SoundLink
    <3>4. link' = [link EXCEPT ![l] = j]
      BY <1>2, <2>6 DEF AdminCloses, Inv, TypeInv
    <3>5. Done(j)
      BY <3>2, <3>3, <3>4
    <3> HIDE DEF j, Done
    <3> QED
      BY <2>4, <3>5
  <2> QED
    BY <2>2, <2>5, <2>6
<1>4. \A b \in Brokers : link'[PLink(b)] = link[PLink(b)]
  BY <1>3, LinkFacts
<1>5. TypeInv'
  BY <1>1, <1>3 DEF Inv, TypeInv, Busy
<1>6. LinkInv'
  <2>1. \A b : Waits(b)' <=> Waits(b)
    BY <1>1 DEF Waits, PartitionFor
  <2>2. AskedFor' = AskedFor /\ AnswersTo' = AnswersTo
    BY <1>1 DEF AskedFor, AnswersTo, Request, PartitionFor
  <2>3. \A j \in ALinks : link'[j].req.type # "produce" /\ link'[j].job.type # "produce"
    BY <1>3, LinkFacts DEF Inv, LinkInv
  <2> QED
    BY <1>4, <2>1, <2>2, <2>3 DEF Inv, LinkInv
<1>7. StoreInv'
  BY <1>1 DEF Inv, StoreInv, PartitionFor
<1>8. doing = "sending" => link'[PLink(Leader[PartitionFor(key)])] = link[PLink(Leader[PartitionFor(key)])]
  BY <1>4, LeaderForType DEF Inv, TypeInv, Busy
<1>9. FreshInv'
  BY <1>1, <1>8 DEF Inv, FreshInv, Unstored, PartitionFor
<1>10. AckInv'
  <2>1. \A m : In(m)' <=> In(m)
    BY <1>1 DEF In, PartitionFor
  <2>2. Request' = Request
    BY <1>1 DEF Request, PartitionFor
  <2> QED
    BY <1>1, <1>8, <2>1, <2>2 DEF Inv, AckInv, PartitionFor
<1> QED
  BY <1>5, <1>6, <1>7, <1>9, <1>10 DEF Inv

----------------------------------------------------------------------------
(* The invariant holds.                                                    *)

LEMMA InitInv ==
    Init => Inv
<1> SUFFICES ASSUME Init
             PROVE  Inv
  OBVIOUS
<1>1. NoLink \in LinkType /\ SoundLink(NoLink)
  BY NoLinkSound DEF SoundLink
<1>2. \A l \in Links : link[l] = NoLink
  BY DEF Init, ServerInit
<1>3. NoLink.req = None /\ NoLink.job = None /\ NoLink.ans = None
  BY DEF NoLink
<1>4. \A b \in Brokers, p \in Partitions : store[b][p] = <<>>
  BY DEF Init
<1>5. TypeInv
  <2>1. link \in [Links -> LinkType] /\ \A l \in Links : SoundLink(link[l])
    BY <1>1, <1>2 DEF Init, ServerInit
  <2>2. store \in [Brokers -> [Partitions -> Seq(Message)]]
    <3>1. <<>> \in Seq(Message)
      OBVIOUS
    <3> QED
      BY <3>1 DEF Init
  <2>3. sends \in 0..MaxSends /\ ~Busy
    BY ProducerAssumption DEF Init, Busy
  <2> QED
    BY <2>1, <2>2, <2>3 DEF Init, ServerInit, TypeInv
<1>6. LinkInv
  <2>1. \A b \in Brokers : ~Waits(b) /\ Clean(link[PLink(b)])
    BY <1>2, <1>3, LinkFacts DEF Init, Waits, Clean
  <2>2. \A l \in ALinks : link[l].req.type # "produce" /\ link[l].job.type # "produce"
    BY <1>2, <1>3, LinkFacts, FrameTypes
  <2> QED
    BY <2>1, <2>2 DEF LinkInv
<1>7. StoreInv /\ FreshInv /\ AckInv
  BY <1>4 DEF Init, StoreInv, FreshInv, AckInv
<1> QED
  BY <1>5, <1>6, <1>7 DEF Inv

\* The server's steps, and those of the clients.
LEMMA NextInv ==
    ASSUME Inv, Next
    PROVE  Inv'
<1> USE DEF Apart
<1>1. CASE ProducerStep
  BY <1>1, MetadataLoadedKeeps, ProduceKeeps, AcknowledgedKeeps, RefusedKeeps, SendFailsKeeps
     DEF ProducerStep
<1>2. CASE ConnectBootstrap
  BY <1>2, ConnectBootstrapKeeps
<1>3. CASE Close
  BY <1>3, CloseKeeps
<1>4. CASE \E k \in Keys : Send(k) \/ FetchTopicMetadata(k)
  BY <1>4, SendKeeps, FetchTopicMetadataKeeps
<1>5. CASE \E l \in ALinks : AdminAsks(l) \/ AdminReturns(l) \/ AdminCloses(l)
  BY <1>5, AdminKeeps
<1>6. ASSUME NEW l \in Links,
             (HandlerStep(l) \/ Accept(l) \/ DeadlinePasses(l) \/ Kick(l)) /\ Apart
      PROVE  Inv'
  <2>1. Drifts /\ link' \in [Links -> LinkType]
    BY <1>6, HandlerDrifts DEF Inv
  <2>2. phase' = phase
    BY <1>6 DEF HandlerStep, ReadFrame, ReadFrameFails, Extend, Accept, DeadlinePasses, Kick
  <2> QED
    BY <1>6, <2>1, <2>2, DriftKeeps DEF Inv, TypeInv
<1>7. ASSUME NEW l \in Links, HandleProduce(l) \/ HandleGetMetadata(l) \/ HandleAdmin(l)
      PROVE  Inv'
  BY <1>7, HandleProduceKeeps, HandleOthersKeep
<1>8. ASSUME NEW b \in Brokers, (Stop(b) \/ CloseListener(b) \/ Exit(b) \/ Start(b)) /\ Apart
      PROVE  Inv'
  BY <1>8, BrokerDrifts, DriftKeeps DEF Inv
<1>9. ASSUME NEW b \in Brokers, BrokerCrash(b)
      PROVE  Inv'
  BY <1>9, BrokerCrashKeeps
<1> QED
  BY <1>1, <1>2, <1>3, <1>4, <1>5, <1>6, <1>7, <1>8, <1>9 DEF Next, Handler

\* A step that changes nothing.
LEMMA StutterInv ==
    ASSUME Inv, UNCHANGED vars
    PROVE  Inv'
<1>1. Drifts
  BY SameDrift DEF Drifts, Inv, TypeInv, vars, serverVars
<1> QED
  BY <1>1, DriftKeeps DEF Inv, TypeInv, vars, serverVars, Apart

LEMMA SpecInv == Spec => []Inv
<1>1. Inv /\ [Next]_vars => Inv'
  BY NextInv, StutterInv
<1> QED
  BY InitInv, <1>1, PTL DEF Spec

----------------------------------------------------------------------------
(* What follows from it.                                                   *)

\* A broker has handlers while its process runs, and takes connections while
\* its listener is open.
PhaseInv ==
    \A l \in Links :
        /\ phase[BrokerOf(l)] = "down" => link[l].at = "none"
        /\ phase[BrokerOf(l)] = "draining" => link[l].at # "queued"

\* A handler starts only while the broker listens.
Moves(l) ==
    \/ link'[l].at \in {link[l].at, "none"}
    \/ link[l].at # "none" /\ link'[l].at \in Handling
    \/ Listening(BrokerOf(l))

LEMMA MovesKeep ==
    ASSUME PhaseInv, phase' = phase, \A l \in Links : Moves(l)
    PROVE  PhaseInv'
  BY DEF PhaseInv, Moves, Listening, Handling

LEMMA WriteMoves ==
    ASSUME TypeInv, NEW l, NEW r, WriteRequest(l, r) \/ Dial(l)
    PROVE  phase' = phase /\ \A k \in Links : Moves(k)
<1>1. \A k \in Links : k # l => link'[k] = link[k]
  BY DEF WriteRequest, Dial, TypeInv
<1>2. ASSUME l \in Links PROVE Moves(l)
  <2>1. link[l] \in LinkType
    BY <1>2 DEF TypeInv
  <2>2. CASE link[l].conn = "open"
    <3>1. link'[l].at = link[l].at
      BY <1>2, <2>1, <2>2 DEF WriteRequest, Dial, Dials, Dialled, LinkType, TypeInv
    <3> QED  BY <3>1 DEF Moves
  <2>3. CASE link[l].conn # "open"
    BY <2>3 DEF WriteRequest, Dial, Reaches, Dials, Moves
  <2> QED  BY <2>2, <2>3
<1>3. phase' = phase
  BY DEF WriteRequest, Dial
<1> QED  BY <1>1, <1>2, <1>3 DEF Moves

LEMMA ReadMoves ==
    ASSUME TypeInv, NEW l, NEW a, ReadResponse(l, a)
    PROVE  phase' = phase /\ \A k \in Links : Moves(k)
<1>1. \A k \in Links : link'[k].at = link[k].at
  BY DEF ReadResponse, TypeInv, LinkType
<1> QED  BY <1>1 DEF Moves, ReadResponse

LEMMA HandlerMoves ==
    ASSUME TypeInv, NEW l \in Links,
           \/ HandlerStep(l) \/ Accept(l) \/ DeadlinePasses(l) \/ Kick(l)
           \/ \E a : Answer(l, a)
    PROVE  phase' = phase /\ \A k \in Links : Moves(k)
<1>1. link[l] \in LinkType
  BY DEF TypeInv
<1>2. \A k \in Links : k # l => link'[k] = link[k]
  BY DEF HandlerStep, ReadFrame, ReadFrameFails, Extend, Accept, DeadlinePasses, Kick, Answer, TypeInv
<1>3. Moves(l)
  <2>1. CASE ReadFrameFails(l)
    <3>1. Closed(link[l]).at = "none"
      BY DEF Closed, NoLink
    <3> QED  BY <2>1, <3>1 DEF ReadFrameFails, Moves, TypeInv
  <2>2. CASE Accept(l)
    BY <2>2 DEF Accept, Moves
  <2>3. CASE DeadlinePasses(l) \/ Kick(l)
    BY <1>1, <2>3 DEF DeadlinePasses, Kick, Moves, TypeInv, LinkType
  <2>4. CASE ReadFrame(l) \/ Extend(l)
    BY <1>1, <2>4 DEF ReadFrame, Extend, Moves, TypeInv, LinkType, Handling, At
  <2>5. ASSUME NEW a, Answer(l, a) PROVE Moves(l)
    <3>1. link'[l].at \in Handling /\ link[l].at # "none"
      BY <1>1, <2>5 DEF Answer, TypeInv, LinkType, Handling, At
    <3> QED  BY <3>1 DEF Moves
  <2> QED  BY <2>1, <2>2, <2>3, <2>4, <2>5 DEF HandlerStep
<1>4. phase' = phase
  BY DEF HandlerStep, ReadFrame, ReadFrameFails, Extend, Accept, DeadlinePasses, Kick, Answer
<1> QED  BY <1>2, <1>3, <1>4 DEF Moves

\* The steps of the clients and the handlers.
LEMMA ClientMoves ==
    ASSUME TypeInv, [Next]_vars
    PROVE  \/ phase' = phase /\ \A l \in Links : Moves(l)
           \/ \E b \in Brokers : Stop(b) \/ CloseListener(b) \/ Exit(b) \/ Start(b) \/ Crash(b)
<1> DEFINE Good == phase' = phase /\ \A l \in Links : Moves(l)
<1>1. ASSUME link' = link, phase' = phase PROVE Good
  BY <1>1 DEF Moves
<1>2. CASE UNCHANGED vars
  BY <1>1, <1>2 DEF vars, serverVars
<1>3. CASE ProducerStep \/ ConnectBootstrap
  <2>1. (\E l, r : WriteRequest(l, r) \/ Dial(l)) \/ (\E l, a : ReadResponse(l, a))
          \/ (link' = link /\ phase' = phase)
    BY <1>3 DEF ProducerStep, ConnectBootstrap, MetadataLoaded, Produce, Acknowledged, Refused,
                SendFails, serverVars
  <2> QED  BY <1>1, <2>1, WriteMoves, ReadMoves
<1>4. CASE \E k \in Keys : Send(k) \/ FetchTopicMetadata(k)
  <2>1. (\E l, r : WriteRequest(l, r)) \/ (link' = link /\ phase' = phase)
    BY <1>4 DEF Send, FetchTopicMetadata, serverVars
  <2> QED  BY <1>1, <2>1, WriteMoves
<1>5. CASE Close
  <2>1. \A l \in Links : link'[l].at = link[l].at
    BY <1>5 DEF Close, TypeInv, LinkType
  <2> QED  BY <1>5, <2>1 DEF Close, Moves
<1>6. ASSUME NEW l \in ALinks, AdminAsks(l) \/ AdminReturns(l) \/ AdminCloses(l) PROVE Good
  <2>1. CASE AdminAsks(l)
    BY <2>1, WriteMoves DEF AdminAsks
  <2>2. CASE AdminReturns(l)
    <3>1. link' = [link EXCEPT ![l].ans = None] /\ phase' = phase
      BY <2>2 DEF AdminReturns
    <3>2. \A k \in Links : link'[k].at = link[k].at
      BY <3>1 DEF TypeInv, LinkType
    <3> QED  BY <3>1, <3>2 DEF Moves
  <2>3. CASE AdminCloses(l)
    <3>1. link' = [link EXCEPT ![l].conn = "none"] /\ phase' = phase
      BY <2>3 DEF AdminCloses
    <3>2. \A k \in Links : link'[k].at = link[k].at
      BY <3>1 DEF TypeInv, LinkType
    <3> QED  BY <3>1, <3>2 DEF Moves
  <2> QED  BY <1>6, <2>1, <2>2, <2>3
<1>7. ASSUME NEW l \in Links, Handler(l) \/ Accept(l) \/ DeadlinePasses(l) \/ Kick(l) PROVE Good
  <2>1. \/ HandlerStep(l) \/ Accept(l) \/ DeadlinePasses(l) \/ Kick(l)
        \/ \E a : Answer(l, a)
    BY <1>7 DEF Handler, HandleProduce, HandleGetMetadata, HandleAdmin
  <2> QED  BY <2>1, HandlerMoves
<1> QED
  BY <1>2, <1>3, <1>4, <1>5, <1>6, <1>7 DEF Next, BrokerCrash

LEMMA PhaseStep ==
    ASSUME TypeInv, PhaseInv, [Next]_vars
    PROVE  PhaseInv'
<1>1. ASSUME NEW b \in Brokers, Stop(b) \/ CloseListener(b) \/ Exit(b) \/ Start(b) \/ Crash(b)
      PROVE  PhaseInv'
  <2>1. \A l \in Links : Closed(link[l]).at = "none" /\ BrokerOf(l) \in Brokers
    BY ProducerAssumption DEF Closed, NoLink, BrokerOf
  <2>2. CASE Stop(b) \/ Start(b)
    <3>1. link' = link /\ phase' \in {[phase EXCEPT ![b] = "stopping"], [phase EXCEPT ![b] = "up"]}
      BY <2>2 DEF Stop, Start
    <3>2. \A c \in Brokers : phase'[c] \in {"down", "draining"} => phase'[c] = phase[c]
      BY <3>1 DEF TypeInv
    <3> QED  BY <2>1, <3>1, <3>2 DEF PhaseInv
  <2>3. CASE CloseListener(b)
    BY <2>1, <2>3 DEF CloseListener, PhaseInv, TypeInv, At
  <2>4. CASE Exit(b) \/ Crash(b)
    <3>1. /\ phase' = [phase EXCEPT ![b] = "down"]
          /\ link' = [l \in Links |-> IF BrokerOf(l) = b THEN Closed(link[l]) ELSE link[l]]
      BY <2>4 DEF Exit, Crash
    <3>2. \A c : c # b => phase'[c] = phase[c]
      BY <3>1 DEF TypeInv
    <3>3. \A l \in Links : link'[l].at = "none" \/ (BrokerOf(l) # b /\ link'[l] = link[l])
      BY <2>1, <3>1
    <3> QED  BY <3>2, <3>3 DEF PhaseInv
  <2> QED  BY <1>1, <2>2, <2>3, <2>4
<1> QED
  BY <1>1, ClientMoves, MovesKeep

\* Type correctness: connections, brokers, logs and clients stay well formed,
\* a handler that is gone holds no request, a broker exits after its last
\* handler, and the listener takes the connections that none accepted with it
\* (core/server.go, core/client/producer.go).
THEOREM ProducerTypeCorrect == Spec => []TypeOK
<1>1. Inv /\ PhaseInv => TypeOK
  <2> SUFFICES ASSUME Inv, PhaseInv
               PROVE  TypeOK
    OBVIOUS
  <2>1. \A l \in Links :
           /\ link[l].conn \in {"none", "open", "dead"}
           /\ link[l].at \in {"none", "queued"} \cup Handling
           /\ At(l, "none") => link[l].req = None /\ link[l].job = None
    <3> SUFFICES ASSUME NEW l \in Links
                 PROVE  /\ link[l].conn \in {"none", "open", "dead"}
                        /\ link[l].at \in {"none", "queued"} \cup Handling
                        /\ At(l, "none") => link[l].req = None /\ link[l].job = None
      OBVIOUS
    <3>1. SoundLink(link[l]) /\ link[l] \in LinkType
      BY DEF Inv, TypeInv
    <3>2. link[l].conn \in {"none", "open", "dead"}
          /\ link[l].at \in {"none", "queued", "read", "work", "extend"}
      BY <3>1 DEF LinkType
    <3> QED
      BY <3>1, <3>2 DEF SoundLink, At, Handling
  <2>2. \A b \in Brokers, p \in Partitions : store[b][p] \in Seq(Message)
    BY DEF Inv, TypeInv
  <2> QED
    BY <2>1, <2>2 DEF Inv, TypeInv, TypeOK, PhaseInv, At
<1>2. Init => PhaseInv
  BY DEF Init, ServerInit, NoLink, PhaseInv
<1>3. Inv /\ PhaseInv /\ [Next]_vars => PhaseInv'
  BY PhaseStep DEF Inv
<1> QED
  BY SpecInv, <1>1, <1>2, <1>3, PTL DEF Spec

\* Where a copy of a message is.
LEMMA CopyFacts ==
    ASSUME Inv, NEW m, NEW c \in Copies(m)
    PROVE  /\ c = <<c[1], c[2], c[3]>>
           /\ c[1] \in Brokers /\ c[2] \in Partitions /\ c[3] \in 1..MaxSends
           /\ c[3] \in DOMAIN store[c[1]][c[2]] /\ store[c[1]][c[2]][c[3]] = m
           /\ c[2] = PartitionFor(m.key) /\ c[1] = Leader[c[2]]
<1>1. /\ c = <<c[1], c[2], c[3]>>
      /\ c[1] \in Brokers /\ c[2] \in Partitions /\ c[3] \in 1..MaxSends
  BY DEF Copies
<1>2. c[3] \in DOMAIN store[c[1]][c[2]] /\ store[c[1]][c[2]][c[3]] = m
  BY DEF Copies
<1>3. c[2] = PartitionFor(m.key) /\ c[1] = Leader[c[2]]
  BY <1>1, <1>2 DEF Inv, StoreInv
<1> QED
  BY <1>1, <1>2, <1>3

\* A message of a log was sent, so its place is one of the places there can be.
LEMMA PlaceBounded ==
    ASSUME Inv, NEW b \in Brokers, NEW p \in Partitions, NEW i \in DOMAIN store[b][p]
    PROVE  i \in 1..MaxSends
<1>1. store[b][p] \in Seq(Message)
  BY DEF Inv, TypeInv
<1>2. i \in Nat /\ i >= 1 /\ store[b][p][i] \in Message
  BY <1>1
<1>3. \A m \in Message : m.n \in Nat /\ m.n <= MaxSends
  BY ProducerAssumption DEF Message
<1>4. i <= store[b][p][i].n
  BY DEF Inv, StoreInv
<1> QED
  BY <1>2, <1>3, <1>4, ProducerAssumption

\* A message whose Send returned without an error is in the log of the leader
\* of its key's partition, for good, through every lost answer, shutdown and
\* crash of a broker (Send in core/client/producer.go, handleProduce in
\* core/request.go).
THEOREM AckedMessagesAtLeader == Spec => []AckedAtLeader
<1>1. Inv => AckedAtLeader
  <2> SUFFICES ASSUME Inv, NEW m \in acked
               PROVE  \E c \in Copies(m) : /\ c[1] = Leader[Hash[m.key] % NumPartitions]
                                           /\ c[2] = Hash[m.key] % NumPartitions
    BY DEF AckedAtLeader
  <2> DEFINE p == PartitionFor(m.key)
  <2>1. m \in Message
    BY DEF Inv, TypeInv
  <2>2. m.key \in Keys
    BY <2>1 DEF Message
  <2>3. p \in Partitions /\ Leader[p] \in Brokers
    BY <2>2, PartitionForType, LeaderForType
  <2>4. PICK i \in DOMAIN store[Leader[p]][p] : store[Leader[p]][p][i] = m
    BY DEF Inv, AckInv, In
  <2>5. p = Hash[m.key] % NumPartitions
    BY DEF PartitionFor
  <2> HIDE DEF p
  <2>6. i \in 1..MaxSends
    BY <2>3, PlaceBounded
  <2>7. <<Leader[p], p, i>> \in Copies(m)
    BY <2>3, <2>4, <2>6 DEF Copies
  <2>8. <<Leader[p], p, i>>[1] = Leader[p] /\ <<Leader[p], p, i>>[2] = p
    OBVIOUS
  <2> QED
    BY <2>5, <2>7, <2>8
<1> QED
  BY SpecInv, <1>1, PTL

\* No message is stored twice, whatever answers are lost: Send never tries
\* again, and a connection that failed is not replaced (Send and connFor in
\* core/client/producer.go).
THEOREM MessagesAtMostOnce == Spec => []AtMostOnce
<1>1. Inv => AtMostOnce
  <2> SUFFICES ASSUME Inv, NEW n \in 1..MaxSends, NEW k \in Keys
               PROVE  Cardinality(Copies([n |-> n, key |-> k])) <= 1
    BY DEF AtMostOnce
  <2> DEFINE m == [n |-> n, key |-> k]
  <2>1. m.n = n /\ n \in Int
    OBVIOUS
  <2> HIDE DEF m
  <2>2. ASSUME NEW c \in Copies(m), NEW d \in Copies(m)
        PROVE  c = d
    <3>1. /\ c = <<c[1], c[2], c[3]>> /\ c[1] \in Brokers /\ c[2] \in Partitions
          /\ c[3] \in DOMAIN store[c[1]][c[2]] /\ store[c[1]][c[2]][c[3]] = m
          /\ c[3] \in 1..MaxSends
      BY CopyFacts
    <3>2. /\ d = <<d[1], d[2], d[3]>> /\ d[3] \in DOMAIN store[d[1]][d[2]]
          /\ store[d[1]][d[2]][d[3]] = m /\ d[3] \in 1..MaxSends
      BY CopyFacts
    <3>3. c[1] = d[1] /\ c[2] = d[2]
      BY CopyFacts
    <3>4. ~(c[3] < d[3]) /\ ~(d[3] < c[3])
      BY <2>1, <3>1, <3>2, <3>3 DEF Inv, StoreInv
    <3>5. c[3] = d[3]
      BY <3>1, <3>2, <3>4
    <3> QED
      BY <3>1, <3>2, <3>3, <3>5
  <2>3. CASE Copies(m) = {}
    BY <2>3, FS_EmptySet DEF m
  <2>4. CASE Copies(m) # {}
    <3>1. PICK c : c \in Copies(m)
      BY <2>4
    <3>2. Copies(m) = {c}
      BY <2>2, <3>1
    <3>3. Cardinality({c}) = 1
      BY FS_Singleton
    <3> QED
      BY <3>2, <3>3 DEF m
  <2> QED
    BY <2>3, <2>4
<1> QED
  BY SpecInv, <1>1, PTL

\* The messages of a key are in one log, in the order of the calls of Send,
\* though some of them may be missing (Send in core/client/producer.go,
\* PartitionFor in internal/utils/hash.go).
THEOREM KeysInOrder == Spec => []PerKeyOrder
<1>1. Inv => PerKeyOrder
  <2> SUFFICES ASSUME Inv, NEW m1 \in Message, NEW m2 \in Message,
                      NEW c \in Copies(m1), NEW d \in Copies(m2),
                      m1.key = m2.key, m1.n < m2.n
               PROVE  c[1] = d[1] /\ c[2] = d[2] /\ c[3] < d[3]
    BY DEF PerKeyOrder
  <2>1. /\ c[1] \in Brokers /\ c[2] \in Partitions /\ c[3] \in 1..MaxSends
        /\ c[3] \in DOMAIN store[c[1]][c[2]] /\ store[c[1]][c[2]][c[3]] = m1
    BY CopyFacts
  <2>2. /\ d[3] \in 1..MaxSends
        /\ d[3] \in DOMAIN store[d[1]][d[2]] /\ store[d[1]][d[2]][d[3]] = m2
    BY CopyFacts
  <2>3. c[1] = d[1] /\ c[2] = d[2]
    BY CopyFacts
  <2>4. m1.n \in Int /\ m2.n \in Int
    BY DEF Message
  <2>5. c[3] # d[3]
    BY <2>1, <2>2, <2>3, <2>4
  <2>6. ~(d[3] < c[3])
    <3>1. d[3] < c[3] => m2.n < m1.n
      BY <2>1, <2>2, <2>3 DEF Inv, StoreInv
    <3> QED
      BY <2>4, <3>1
  <2> QED
    BY <2>1, <2>2, <2>3, <2>5, <2>6
<1> QED
  BY SpecInv, <1>1, PTL
=============================================================================
