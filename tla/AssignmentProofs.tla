-------------------------- MODULE AssignmentProofs --------------------------
(***************************************************************************)
(* Machine-checked proofs about the assignment of partitions, for any      *)
(* number of brokers, replication factor, first leader and number of       *)
(* partitions: the copies of a partition are on brokers of their own, its  *)
(* leader and its replicas are those that hold it, and leaders are spread  *)
(* evenly.                                                                 *)
(***************************************************************************)
EXTENDS TopicAssignment, FiniteSetTheorems, TLAPS

\* The largest number of brokers is a number.
Sized == MaxBrokers \in Nat

\* A remainder is a broker index.
LEMMA ModRange ==
  ASSUME NEW x \in Nat, NEW m \in Nat \ {0}
  PROVE  x % m \in 0..(m - 1)
  BY SMT

\* One turn round the brokers: the remainder is the number or m less.
LEMMA ModTurn ==
  ASSUME NEW m \in Nat \ {0}, NEW x \in 0..(2 * m - 1)
  PROVE  x % m = IF x < m THEN x ELSE x - m
  <1>1. CASE x < m
    <2>1. x \in 0..(m - 1)  BY <1>1
    <2>2. x % m = x  BY <2>1, SMT
    <2> QED  BY <1>1, <2>2
  <1>2. CASE ~(x < m)
    <2>1. x \in m..(2 * m - 1)  BY <1>2
    <2>2. x % m = x - m  BY <2>1, SMT
    <2> QED  BY <1>2, <2>2
  <1> QED  BY <1>1, <1>2

\* The brokers at distances 0 to rf from the leader are all different.
LEMMA CopyDistinct ==
  ASSUME NEW m \in Nat \ {0}, NEW leader \in 0..(m - 1),
         NEW j \in 0..(m - 1), NEW k \in 0..(m - 1), j # k
  PROVE  (leader + j) % m # (leader + k) % m
  <1> DEFINE x == leader + j
             y == leader + k
  <1>1. x \in 0..(2 * m - 1) /\ y \in 0..(2 * m - 1) /\ x # y /\ x - y # m /\ y - x # m
    OBVIOUS
  <1> HIDE DEF x, y
  <1>2. x % m = IF x < m THEN x ELSE x - m
    BY <1>1, ModTurn
  <1>3. y % m = IF y < m THEN y ELSE y - m
    BY <1>1, ModTurn
  <1>4. x % m # y % m
    BY <1>1, <1>2, <1>3
  <1> QED  BY <1>4 DEF x, y

\* The metadata of one partition keeps its copies apart when Init let the
\* replication factor through.
LEMMA PartitionApart ==
  ASSUME NEW m \in Nat \ {0}, NEW r \in 0..(m - 1), NEW f \in 0..(m - 1), NEW i \in Nat
  PROVE  Apart(PartitionMetadata(m, r, f, i), m, r)
  <1> DEFINE l == LeaderOf(m, f, i)
  <1>1. l \in 0..(m - 1)
    BY f + i \in Nat, ModRange DEF LeaderOf
  <1>2. \A j \in 1..r : (l + j) % m \in 0..(m - 1)
    <2> TAKE j \in 1..r
    <2>1. l + j \in Nat  BY <1>1
    <2> HIDE DEF l
    <2> QED  BY <2>1, ModRange
  <1>3. \A j \in 1..r : (l + j) % m # l
    <2> TAKE j \in 1..r
    <2> HIDE DEF l
    <2>1. (l + 0) % m # (l + j) % m
      BY <1>1, CopyDistinct, 0 \in 0..(m - 1), j \in 0..(m - 1), j # 0
    <2>2. (l + 0) % m = l
      BY <1>1, ModTurn, l + 0 = l, l \in 0..(2 * m - 1), l < m
    <2> QED  BY <2>1, <2>2
  <1>4. \A j, k \in 1..r : j # k => (l + j) % m # (l + k) % m
    <2> TAKE j, k \in 1..r
    <2> HIDE DEF l
    <2> QED  BY <1>1, CopyDistinct, j \in 0..(m - 1), k \in 0..(m - 1)
  <1> DEFINE reps == [j \in 1..r |-> (l + j) % m]
             pm   == PartitionMetadata(m, r, f, i)
  <1>5. pm = [leader |-> l, replicas |-> reps]
    BY DEF PartitionMetadata, ReplicasOf
  <1>6. \A j \in 1..r : reps[j] \in 0..(m - 1) /\ reps[j] # l
    <2> HIDE DEF l
    <2> QED  BY <1>2, <1>3, Zenon
  <1>7. \A j, k \in 1..r : j # k => reps[j] # reps[k]
    <2> HIDE DEF l
    <2> QED  BY <1>4, Zenon
  <1>8. pm.leader = l /\ pm.replicas = reps
    <2> HIDE DEF l, reps, pm
    <2> QED  BY <1>5
  <1> HIDE DEF l, reps, pm
  <1>9. Apart(pm, m, r)
    BY <1>1, <1>6, <1>7, <1>8 DEF Apart
  <1> QED  BY <1>9 DEF pm

\* CopiesApart and the ranges it needs.
AssignInv ==
    /\ n \in Nat \ {0} /\ rf \in 0..(n - 1) /\ first \in 0..(n - 1)
    /\ parts = [i \in 1..Len(parts) |-> PartitionMetadata(n, rf, first, i - 1)]
    /\ Len(parts) \in Nat

\* AddPartition appends the entry that the round robin gives it.
LEMMA AssignInductive == AssignInv /\ [Next]_vars => AssignInv'
  <1> SUFFICES ASSUME AssignInv, [Next]_vars
               PROVE  AssignInv'
    OBVIOUS
  <1>1. CASE AddPartition
    <2> DEFINE e == PartitionMetadata(n, rf, first, Len(parts))
    <2>0. \E S : parts \in Seq(S) /\ e \in S
      <3> DEFINE S == {PartitionMetadata(n, rf, first, i) : i \in Nat}
      <3>1. \A i \in 1..Len(parts) : PartitionMetadata(n, rf, first, i - 1) \in S
        OBVIOUS
      <3>2. parts \in [1..Len(parts) -> S]
        BY <3>1 DEF AssignInv
      <3>3. parts \in Seq(S)
        <4> HIDE DEF S
        <4> QED  BY <3>2 DEF AssignInv
      <3> QED  BY <3>3 DEF AssignInv
    <2>1. parts' = Append(parts, e)
      BY <1>1 DEF AddPartition
    <2>2. Len(parts') = Len(parts) + 1 /\ DOMAIN parts' = 1..(Len(parts) + 1)
      <3> HIDE DEF e
      <3> QED  BY <2>0, <2>1
    <2>3. \A i \in 1..(Len(parts) + 1) : parts'[i] = IF i = Len(parts) + 1 THEN e ELSE parts[i]
      <3> HIDE DEF e
      <3> QED  BY <2>0, <2>1
    <2>4. \A i \in 1..(Len(parts) + 1) : parts'[i] = PartitionMetadata(n, rf, first, i - 1)
      <3> TAKE i \in 1..(Len(parts) + 1)
      <3>1. CASE i = Len(parts) + 1
        <4>1. i - 1 = Len(parts)  BY <3>1 DEF AssignInv
        <4> QED  BY <3>1, <2>3, <4>1
      <3>2. CASE i # Len(parts) + 1
        <4>1. i \in 1..Len(parts)  BY <3>2 DEF AssignInv
        <4> QED  BY <3>2, <2>3, <4>1 DEF AssignInv
      <3> QED  BY <3>1, <3>2
    <2>5. parts' = [i \in 1..(Len(parts) + 1) |-> parts'[i]]
      <3> HIDE DEF e
      <3>1. PICK S : parts \in Seq(S) /\ e \in S  BY <2>0
      <3>2. parts' \in Seq(S)  BY <3>1, <2>1
      <3>3. parts' \in [1..Len(parts') -> S]  BY <3>2
      <3> QED  BY <3>3, <2>2
    <2>6. n' = n /\ rf' = rf /\ first' = first
      BY <1>1 DEF AddPartition
    <2>7. Len(parts') \in Nat  BY <2>2 DEF AssignInv
    <2>8. parts' = [i \in 1..Len(parts') |-> PartitionMetadata(n', rf', first', i - 1)]
      BY <2>2, <2>4, <2>5, <2>6
    <2> QED  BY <2>6, <2>7, <2>8 DEF AssignInv
  <1>2. CASE UNCHANGED vars
    BY <1>2 DEF vars, AssignInv
  <1> QED  BY <1>1, <1>2 DEF Next

\* AssignInv holds before the first partition.
LEMMA AssignInit == Sized /\ Init => AssignInv
  <1> SUFFICES ASSUME Sized, Init PROVE AssignInv
    OBVIOUS
  <1>1. n \in Nat \ {0} /\ rf \in 0..(n - 1) /\ first \in 0..(n - 1)
    BY DEF Sized, Init
  <1>2. parts = <<>> /\ Len(parts) = 0
    BY DEF Init
  <1>3. parts = [i \in 1..Len(parts) |-> PartitionMetadata(n, rf, first, i - 1)]
    BY <1>2
  <1> QED  BY <1>1, <1>2, <1>3 DEF AssignInv

\* AssignInv gives CopiesApart.
LEMMA AssignInvApart == AssignInv => CopiesApart
  <1> SUFFICES ASSUME AssignInv, NEW i \in DOMAIN parts
               PROVE  Apart(parts[i], n, rf)
    BY DEF CopiesApart
  <1>1. i \in 1..Len(parts) /\ i - 1 \in Nat
    BY DEF AssignInv
  <1>2. parts[i] = PartitionMetadata(n, rf, first, i - 1)
    BY <1>1 DEF AssignInv
  <1> QED  BY <1>1, <1>2, PartitionApart DEF AssignInv

\* createAndAssign never puts two copies of a partition on one broker, nor on
\* a broker that does not exist, whatever broker the random choice starts at.
THEOREM CopiesAlwaysApart == Sized => (Spec => []CopiesApart)
  <1> SUFFICES ASSUME Sized PROVE Spec => []CopiesApart
    OBVIOUS
  <1>1. Spec => []AssignInv
    BY AssignInit, AssignInductive, PTL DEF Spec
  <1> QED  BY <1>1, AssignInvApart, PTL

\* Copies that are apart are counted by their distance from the leader.
LEMMA HoldersCounted ==
  ASSUME NEW m \in Nat \ {0}, NEW r \in Nat, NEW pm, Apart(pm, m, r),
         DOMAIN pm.replicas = 1..r
  PROVE  Cardinality({b \in 0..(m - 1) : ResponsibleFor(b, pm)}) = r + 1
  <1> DEFINE H == {b \in 0..(m - 1) : ResponsibleFor(b, pm)}
             f == [j \in 0..r |-> IF j = 0 THEN pm.leader ELSE pm.replicas[j]]
  <1>1. /\ pm.leader \in 0..(m - 1)
        /\ \A j \in 1..r : pm.replicas[j] \in (0..(m - 1)) /\ pm.replicas[j] # pm.leader
        /\ \A j, k \in 1..r : j # k => pm.replicas[j] # pm.replicas[k]
    BY DEF Apart
  <1>2. \A j \in 0..r : j = 0 \/ j \in 1..r
    OBVIOUS
  <1>3. \A j \in 0..r : f[j] \in H
    <2> TAKE j \in 0..r
    <2>1. CASE j = 0  BY <1>1, <2>1 DEF ResponsibleFor
    <2>2. CASE j # 0
      <3>1. j \in 1..r /\ f[j] = pm.replicas[j]  BY <1>2, <2>2
      <3> QED  BY <1>1, <3>1 DEF ResponsibleFor
    <2> QED  BY <2>1, <2>2
  <1>4. \A j, k \in 0..r : f[j] = f[k] => j = k
    <2> SUFFICES ASSUME NEW j \in 0..r, NEW k \in 0..r, j # k PROVE f[j] # f[k]
      BY Zenon
    <2>1. CASE j = 0
      <3>1. k \in 1..r /\ f[j] = pm.leader /\ f[k] = pm.replicas[k]  BY <1>2, <2>1
      <3> QED  BY <1>1, <3>1
    <2>2. CASE k = 0
      <3>1. j \in 1..r /\ f[k] = pm.leader /\ f[j] = pm.replicas[j]  BY <1>2, <2>2
      <3> QED  BY <1>1, <3>1
    <2>3. CASE j # 0 /\ k # 0
      <3>1. j \in 1..r /\ k \in 1..r /\ f[j] = pm.replicas[j] /\ f[k] = pm.replicas[k]
        BY <1>2, <2>3
      <3> QED  BY <1>1, <3>1
    <2> QED  BY <2>1, <2>2, <2>3
  <1>5. \A b \in H : \E j \in 0..r : f[j] = b
    <2> TAKE b \in H
    <2>1. CASE pm.leader = b
      <3>1. 0 \in 0..r /\ f[0] = b  BY <2>1
      <3> QED  BY <3>1
    <2>2. CASE pm.leader # b
      <3>1. PICK j \in 1..r : pm.replicas[j] = b  BY <2>2 DEF ResponsibleFor
      <3>2. j \in 0..r /\ f[j] = b  BY <3>1
      <3> QED  BY <3>2
    <2> QED  BY <2>1, <2>2
  <1>6. f \in [0..r -> H]
    <2>1. DOMAIN f = 0..r /\ f = [j \in 0..r |-> f[j]]  OBVIOUS
    <2> HIDE DEF f, H
    <2> QED  BY <1>3, <2>1
  <1> HIDE DEF f, H
  <1>7. ExistsBijection(0..r, H)
    BY <1>4, <1>5, <1>6 DEF ExistsBijection, Bijection, Injection, Surjection, IsInjective
  <1>8. IsFiniteSet(0..r) /\ Cardinality(0..r) = r + 1
    BY FS_Interval
  <1>9. Cardinality(H) = r + 1
    BY <1>7, <1>8, FS_Bijection
  <1> QED  BY <1>9 DEF H

\* The brokers that create a partition are its leader and replicationFactor
\* others, in every state of createAndAssign: one more than the documentation
\* of replicationFactor says, whatever its value.
THEOREM HeldAlways == Sized => (Spec => []HeldByLeaderAndReplicas)
  <1> SUFFICES ASSUME Sized PROVE Spec => []HeldByLeaderAndReplicas
    OBVIOUS
  <1>1. AssignInv => HeldByLeaderAndReplicas
    <2> SUFFICES ASSUME AssignInv, NEW i \in DOMAIN parts
                 PROVE  Cardinality(Holders(parts[i])) = rf + 1
      BY DEF HeldByLeaderAndReplicas
    <2>1. i \in 1..Len(parts) /\ i - 1 \in Nat
      BY DEF AssignInv
    <2>2. parts[i] = PartitionMetadata(n, rf, first, i - 1)
      BY <2>1 DEF AssignInv
    <2>3. DOMAIN parts[i].replicas = 1..rf
      BY <2>2 DEF PartitionMetadata, ReplicasOf
    <2>4. Apart(parts[i], n, rf)
      BY <2>1, AssignInvApart DEF CopiesApart
    <2>5. n \in Nat \ {0} /\ rf \in Nat
      BY DEF AssignInv
    <2> QED  BY <2>3, <2>4, <2>5, HoldersCounted DEF Holders, Brokers
  <1>2. Spec => []AssignInv
    BY AssignInit, AssignInductive, PTL DEF Spec
  <1> QED  BY <1>1, <1>2, PTL

----------------------------------------------------------------------------
(* Round robin.                                                            *)

\* Adding whole turns does not change the broker.
LEMMA ModWhole ==
  ASSUME NEW m \in Nat \ {0}, NEW q \in Nat, NEW s \in 0..(m - 1)
  PROVE  (m * q + s) % m = s
  BY SMTT(30)

\* A number is some whole turns and its remainder.
LEMMA ModSplit ==
  ASSUME NEW m \in Nat \ {0}, NEW x \in Nat
  PROVE  x = (m * (x \div m)) + (x % m) /\ x \div m \in Nat /\ x % m \in 0..(m - 1)
  BY SMTT(30)

\* The next broker.
LEMMA ModNext ==
  ASSUME NEW m \in Nat \ {0}, NEW x \in Nat
  PROVE  (x + 1) % m = IF x % m = m - 1 THEN 0 ELSE (x % m) + 1
  <1> DEFINE q == x \div m
             s == x % m
  <1>1. x = m * q + s /\ q \in Nat /\ s \in 0..(m - 1)
    BY ModSplit
  <1> HIDE DEF q, s
  <1>2. CASE s = m - 1
    <2>1. x + 1 = m * (q + 1) + 0
      BY <1>1, <1>2
    <2>2. q + 1 \in Nat /\ 0 \in 0..(m - 1)
      BY <1>1
    <2>3. (m * (q + 1) + 0) % m = 0
      BY <2>2, ModWhole
    <2> QED  BY <1>2, <2>1, <2>3 DEF s
  <1>3. CASE s # m - 1
    <2>1. x + 1 = m * q + (s + 1)
      BY <1>1
    <2>2. s + 1 \in 0..(m - 1)
      BY <1>1, <1>3
    <2>3. (m * q + (s + 1)) % m = s + 1
      BY <1>1, <2>2, ModWhole
    <2> QED  BY <1>3, <2>1, <2>3 DEF s
  <1> QED  BY <1>2, <1>3

\* The partitions that broker b leads, of those in ps.
LedIn(ps, b) == Cardinality({i \in DOMAIN ps : ps[i].leader = b})

\* After q whole turns and r brokers more: the r brokers from the first one on
\* lead q + 1 partitions, the others q, and the next leader is the r-th.
Turns(q, r) ==
    /\ q \in Nat /\ r \in 0..(n - 1)
    /\ (first + Len(parts)) % n = (first + r) % n
    /\ \A d \in 0..(n - 1) : LedIn(parts, (first + d) % n) = IF d < r THEN q + 1 ELSE q

\* The inductive invariant of the round robin.
BalanceInv == \E q, r \in Nat : Turns(q, r)

\* A new partition is one more for its leader and for nobody else.
LEMMA LedStep ==
  ASSUME AssignInv, AssignInv', AddPartition, NEW b
  PROVE  LedIn(parts', b) = IF LeaderOf(n, first, Len(parts)) = b THEN LedIn(parts, b) + 1 ELSE LedIn(parts, b)
  <1> DEFINE L == Len(parts)
             S == {i \in 1..L : parts[i].leader = b}
  <1>1. L \in Nat /\ DOMAIN parts = 1..L /\ n' = n /\ rf' = rf /\ first' = first
    BY DEF AssignInv, AddPartition
  <1>2. /\ Len(parts') = L + 1 /\ DOMAIN parts' = 1..(L + 1)
        /\ \A i \in 1..(L + 1) : parts'[i] = PartitionMetadata(n, rf, first, i - 1)
    <2>1. \E T : parts \in Seq(T)
      <3> DEFINE T == {PartitionMetadata(n, rf, first, i) : i \in Nat}
      <3>1. \A i \in 1..L : PartitionMetadata(n, rf, first, i - 1) \in T
        BY <1>1
      <3>2. parts \in [1..L -> T]
        BY <3>1 DEF AssignInv
      <3>3. parts \in Seq(T)
        <4> HIDE DEF T, L
        <4> QED  BY <1>1, <3>2
      <3> QED  BY <3>3
    <2>2. Len(parts') = L + 1
      <3> DEFINE e == PartitionMetadata(n, rf, first, Len(parts))
      <3>1. parts' = Append(parts, e)  BY DEF AddPartition
      <3> HIDE DEF e
      <3> QED  BY <2>1, <3>1
    <2> QED  BY <1>1, <2>2 DEF AssignInv
  <1>3. \A i \in 1..L : parts[i] = PartitionMetadata(n, rf, first, i - 1) /\ parts'[i] = parts[i]
    BY <1>1, <1>2 DEF AssignInv
  <1>4. parts'[L + 1].leader = LeaderOf(n, first, L)
    <2>1. parts'[L + 1] = PartitionMetadata(n, rf, first, L)
      BY <1>1, <1>2
    <2> QED  BY <2>1 DEF PartitionMetadata
  <1>5. {i \in DOMAIN parts' : parts'[i].leader = b} =
           IF LeaderOf(n, first, L) = b THEN S \cup {L + 1} ELSE S
    <2> HIDE DEF L
    <2>1. \A i \in 1..(L + 1) : i \in 1..L \/ i = L + 1
      BY <1>1
    <2>2. \A i \in 1..L : i \in 1..(L + 1) /\ parts'[i].leader = parts[i].leader
      BY <1>1, <1>3
    <2>3. L + 1 \in 1..(L + 1)
      BY <1>1
    <2> QED  BY <1>2, <1>4, <2>1, <2>2, <2>3
  <1>6. IsFiniteSet(S) /\ L + 1 \notin S /\ LedIn(parts, b) = Cardinality(S)
    <2>1. IsFiniteSet(1..L) /\ S \in SUBSET (1..L)
      BY <1>1, FS_Interval
    <2> HIDE DEF L
    <2>2. IsFiniteSet(S)
      BY <2>1, FS_Subset
    <2> QED  BY <1>1, <2>2 DEF LedIn
  <1>7. Cardinality(S \cup {L + 1}) = Cardinality(S) + 1
    <2> HIDE DEF S, L
    <2> QED  BY <1>6, FS_AddElement
  <1> HIDE DEF S, L
  <1>8. LedIn(parts', b) = Cardinality({i \in DOMAIN parts' : parts'[i].leader = b})
    BY DEF LedIn
  <1> QED  BY <1>5, <1>6, <1>7, <1>8 DEF L

\* One partition more moves the round robin on by one broker.
LEMMA BalanceStep ==
  ASSUME AssignInv, AssignInv', BalanceInv, AddPartition
  PROVE  BalanceInv'
  <1>0. PICK q, r \in Nat : Turns(q, r)
    BY DEF BalanceInv
  <1> DEFINE L == Len(parts)
             l == (first + r) % n
  <1>1. /\ n \in Nat \ {0} /\ first \in 0..(n - 1) /\ L \in Nat
        /\ n' = n /\ first' = first /\ r \in 0..(n - 1)
    BY <1>0 DEF AssignInv, AddPartition, Turns
  <1>2. Len(parts') = L + 1
    <2> DEFINE T == {PartitionMetadata(n, rf, first, i) : i \in Nat}
               e == PartitionMetadata(n, rf, first, Len(parts))
    <2>1. \A i \in 1..L : PartitionMetadata(n, rf, first, i - 1) \in T
      BY <1>1
    <2>2. parts \in [1..L -> T]
      BY <2>1 DEF AssignInv
    <2>3. parts' = Append(parts, e)
      BY DEF AddPartition
    <2> HIDE DEF T, e
    <2> QED  BY <1>1, <2>2, <2>3
  <1>3. LeaderOf(n, first, L) = l
    BY <1>0 DEF Turns, LeaderOf
  <1>4. \A d \in 0..(n - 1) : (first + d) % n = l <=> d = r
    BY <1>1, CopyDistinct
  <1>5. \A d \in 0..(n - 1) :
           LedIn(parts', (first + d) % n) = IF d = r THEN LedIn(parts, (first + d) % n) + 1 ELSE LedIn(parts, (first + d) % n)
    <2> TAKE d \in 0..(n - 1)
    <2> DEFINE b == (first + d) % n
    <2>1. l = b <=> d = r  BY <1>4
    <2> HIDE DEF b, l, L
    <2>2. LedIn(parts', b) = IF l = b THEN LedIn(parts, b) + 1 ELSE LedIn(parts, b)
      BY <1>3, LedStep DEF L
    <2> QED  BY <2>1, <2>2 DEF b
  <1> DEFINE old(d) == LedIn(parts, (first + d) % n)
             new(d) == LedIn(parts', (first + d) % n)
  <1>6. \A d \in 0..(n - 1) : new(d) = IF d <= r THEN q + 1 ELSE q
    <2>1. \A d \in 0..(n - 1) : old(d) = IF d < r THEN q + 1 ELSE q
      BY <1>0 DEF Turns
    <2>2. \A d \in 0..(n - 1) : new(d) = IF d = r THEN old(d) + 1 ELSE old(d)
      BY <1>5
    <2> HIDE DEF l, L, old, new
    <2> QED  BY <1>1, <2>1, <2>2
  <1>7. (first + (L + 1)) % n = IF l = n - 1 THEN 0 ELSE l + 1
    <2>1. (first + L) % n = l
      BY <1>0 DEF Turns
    <2>2. first + L \in Nat /\ first + (L + 1) = (first + L) + 1
      BY <1>1
    <2> HIDE DEF l, L
    <2> QED  BY <1>1, <2>1, <2>2, ModNext
  <1>8. (first + (r + 1)) % n = IF l = n - 1 THEN 0 ELSE l + 1
    <2>1. first + r \in Nat /\ first + (r + 1) = (first + r) + 1
      BY <1>1
    <2> QED  BY <1>1, <2>1, ModNext
  <1>9. CASE r < n - 1
    <2>1. Turns(q, r + 1)'
      <3>1. r + 1 \in 0..(n - 1)  BY <1>1, <1>9
      <3>2. (first' + Len(parts')) % n' = (first' + (r + 1)) % n'
        BY <1>1, <1>2, <1>7, <1>8
      <3>3. \A d \in 0..(n - 1) : new(d) = IF d < r + 1 THEN q + 1 ELSE q
        <4> HIDE DEF l, L, new
        <4> QED  BY <1>1, <1>6
      <3> HIDE DEF l, L
      <3> QED  BY <1>1, <3>1, <3>2, <3>3 DEF Turns
    <2>2. r + 1 \in Nat  OBVIOUS
    <2> QED  BY <2>1, <2>2 DEF BalanceInv
  <1>10. CASE r = n - 1
    <2>1. Turns(q + 1, 0)'
      <3>1. (first + (r + 1)) % n = first
        <4>1. first + (r + 1) \in 0..(2 * n - 1) /\ first + (r + 1) - n = first /\ ~(first + (r + 1) < n)
          BY <1>1, <1>10
        <4> QED  BY <1>1, <4>1, ModTurn
      <3>2. (first + 0) % n = first
        BY <1>1, ModTurn, first + 0 = first, first \in 0..(2 * n - 1), first < n
      <3>3. (first' + Len(parts')) % n' = (first' + 0) % n'
        BY <1>1, <1>2, <1>7, <1>8, <3>1, <3>2
      <3>4. \A d \in 0..(n - 1) : new(d) = IF d < 0 THEN (q + 1) + 1 ELSE q + 1
        <4> HIDE DEF l, L, new
        <4> QED  BY <1>1, <1>6, <1>10
      <3>5. 0 \in 0..(n - 1) /\ q + 1 \in Nat  BY <1>1
      <3> HIDE DEF l, L
      <3> QED  BY <1>1, <3>3, <3>4, <3>5 DEF Turns
    <2>2. q + 1 \in Nat /\ 0 \in Nat  OBVIOUS
    <2> QED  BY <2>1, <2>2 DEF BalanceInv
  <1> QED  BY <1>1, <1>9, <1>10

\* Before the first partition nobody leads anything.
LEMMA BalanceInit ==
  ASSUME Sized, Init PROVE BalanceInv
  <1>1. n \in Nat \ {0} /\ first \in 0..(n - 1) /\ parts = <<>> /\ Len(parts) = 0
    BY DEF Sized, Init
  <1>2. \A b : LedIn(parts, b) = 0
    <2> TAKE b
    <2>1. {i \in DOMAIN parts : parts[i].leader = b} = {}
      BY <1>1
    <2> QED  BY <2>1, FS_EmptySet DEF LedIn
  <1>3. \A d \in 0..(n - 1) : LedIn(parts, (first + d) % n) = IF d < 0 THEN 0 + 1 ELSE 0
    <2> TAKE d \in 0..(n - 1)
    <2>1. ~(d < 0)  OBVIOUS
    <2> QED  BY <1>2, <2>1, Zenon
  <1>4. 0 \in 0..(n - 1) /\ 0 \in Nat
    BY <1>1
  <1>5. Turns(0, 0)
    BY <1>1, <1>3, <1>4 DEF Turns
  <1> QED  BY <1>4, <1>5 DEF BalanceInv

\* Every broker is some way round from the first leader.
LEMMA BrokerReached ==
  ASSUME NEW m \in Nat \ {0}, NEW f \in 0..(m - 1), NEW b \in 0..(m - 1)
  PROVE  \E d \in 0..(m - 1) : (f + d) % m = b
  <1>1. CASE b >= f
    <2>1. b - f \in 0..(m - 1) /\ f + (b - f) = b /\ b \in 0..(2 * m - 1) /\ b < m
      BY <1>1
    <2> QED  BY <2>1, ModTurn
  <1>2. CASE b < f
    <2> DEFINE d == b - f + m
    <2>1. d \in 0..(m - 1) /\ f + d = b + m /\ b + m \in 0..(2 * m - 1) /\ ~(b + m < m)
          /\ b + m - m = b
      BY <1>2
    <2>2. (b + m) % m = b
      BY <2>1, ModTurn
    <2> HIDE DEF d
    <2> QED  BY <2>1, <2>2
  <1> QED  BY <1>1, <1>2

\* createAndAssign hands out the leaders evenly: at no partition is a broker two
\* ahead of another.
THEOREM AlwaysBalanced == Sized => (Spec => []LeadersBalanced)
  <1> SUFFICES ASSUME Sized PROVE Spec => []LeadersBalanced
    OBVIOUS
  <1>1. Init => AssignInv /\ BalanceInv
    BY AssignInit, BalanceInit
  <1>2. AssignInv /\ BalanceInv /\ [Next]_vars => (AssignInv /\ BalanceInv)'
    <2> SUFFICES ASSUME AssignInv, BalanceInv, [Next]_vars PROVE AssignInv' /\ BalanceInv'
      OBVIOUS
    <2>1. AssignInv'  BY AssignInductive
    <2>2. CASE AddPartition  BY <2>1, <2>2, BalanceStep
    <2>3. CASE UNCHANGED vars
      <3>1. n' = n /\ first' = first /\ parts' = parts  BY <2>3 DEF vars
      <3> QED  BY <2>1, <3>1 DEF BalanceInv, Turns
    <2> QED  BY <2>2, <2>3 DEF Next
  <1>3. AssignInv /\ BalanceInv => LeadersBalanced
    <2> SUFFICES ASSUME AssignInv, BalanceInv, NEW b \in Brokers, NEW c \in Brokers
                 PROVE  Led(b) <= Led(c) + 1
      BY DEF LeadersBalanced
    <2>1. PICK q, r \in Nat : Turns(q, r)
      BY DEF BalanceInv
    <2>2. \A x \in Brokers : \E d \in 0..(n - 1) : (first + d) % n = x
      BY BrokerReached DEF AssignInv, Brokers
    <2>3. \A x \in Brokers : LedIn(parts, x) \in {q, q + 1}
      <3> TAKE x \in Brokers
      <3>1. PICK d \in 0..(n - 1) : (first + d) % n = x
        BY <2>2
      <3>2. LedIn(parts, (first + d) % n) = IF d < r THEN q + 1 ELSE q
        BY <2>1 DEF Turns
      <3>3. LedIn(parts, x) = IF d < r THEN q + 1 ELSE q
        BY <3>1, <3>2, Zenon
      <3> QED  BY <3>3, Zenon
    <2>4. Led(b) = LedIn(parts, b) /\ Led(c) = LedIn(parts, c)
      BY DEF Led, LedIn
    <2>5. Led(b) \in {q, q + 1} /\ Led(c) \in {q, q + 1}
      BY <2>3, <2>4
    <2> QED  BY <2>5
  <1> QED  BY <1>1, <1>2, <1>3, PTL DEF Spec
=============================================================================
