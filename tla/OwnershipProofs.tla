-------------------------- MODULE OwnershipProofs ---------------------------
(***************************************************************************)
(* Shard placement for every cluster, replication factor and hash.         *)
(*                                                                         *)
(* The argument: a node stands first in its own list and nowhere else in   *)
(* it (ViewFacts), so whether it is a replica of a shard is a question     *)
(* about index 0 of the cyclic window that starts at hash mod length       *)
(* (WindowMeetsZero), a question in which the node does not occur          *)
(* (SelfFirst).  What one node of a converged cluster decides, all do.     *)
(* The window takes no index twice and, as long as the list, all of them   *)
(* (WindowIsInjective, FullWindowCovers): the replicas are distinct, and a *)
(* short list leaves nobody out.                                           *)
(***************************************************************************)
EXTENDS Ownership, Integers, FiniteSetTheorems, TLAPS

\* The sum of two indices below the length wraps around at most once.
LEMMA WrapOnce ==
    ASSUME NEW len \in Nat \ {0}, NEW start \in 0 .. (len - 1), NEW i \in 0 .. (len - 1)
    PROVE  (start + i) % len = IF start + i < len THEN start + i ELSE start + i - len
<1>1. CASE start + i < len
  <2>1. start + i \in 0 .. (len - 1)
    BY <1>1
  <2>2. \A a \in 0 .. (len - 1) : a % len = a
    BY SMT
  <2> QED
    BY <2>1, <2>2, <1>1
<1>2. CASE ~(start + i < len)
  <2>1. start + i \in len .. (2 * len - 1)
    BY <1>2
  <2>2. \A a \in len .. (2 * len - 1) : a % len = a - len
    BY SMT
  <2> QED
    BY <2>1, <2>2, <1>2
<1> QED
  BY <1>1, <1>2

\* hash mod len is an index.
LEMMA StartIsIndex ==
    ASSUME NEW len \in Nat \ {0}, NEW hash \in Nat
    PROVE  hash % len \in 0 .. (len - 1)
BY SMT

\* The window of count indices from start meets index 0 exactly when it starts
\* there or is long enough to wrap around (GetReplicaNodes).
LEMMA WindowMeetsZero ==
    ASSUME NEW len \in Nat \ {0}, NEW hash \in Nat, NEW count \in 1 .. len
    PROVE  LET start == hash % len
           IN  (\E i \in 1 .. count : ReplicaIndex(hash, len, i - 1) = 0)
                 <=> (start = 0 \/ start + count > len)
<1> DEFINE start == hash % len
<1>1. start \in 0 .. (len - 1)
  BY StartIsIndex
<1>2. ASSUME NEW i \in 1 .. count
      PROVE  ReplicaIndex(hash, len, i - 1) =
               IF start + (i - 1) < len THEN start + (i - 1) ELSE start + (i - 1) - len
  <2>1. i - 1 \in 0 .. (len - 1)
    OBVIOUS
  <2> HIDE DEF start
  <2>2. (start + (i - 1)) % len =
          IF start + (i - 1) < len THEN start + (i - 1) ELSE start + (i - 1) - len
    BY <1>1, <2>1, WrapOnce
  <2> QED
    BY <2>2 DEF start, ReplicaIndex
<1> HIDE DEF start
<1>3. ASSUME NEW i \in 1 .. count, ReplicaIndex(hash, len, i - 1) = 0
      PROVE  start = 0 \/ start + count > len
  <2>1. IF start + (i - 1) < len THEN start + (i - 1) = 0 ELSE start + (i - 1) - len = 0
    BY <1>2, <1>3
  <2> QED
    BY <2>1, <1>1
<1>4. ASSUME start = 0
      PROVE  \E i \in 1 .. count : ReplicaIndex(hash, len, i - 1) = 0
  <2>1. 1 \in 1 .. count
    OBVIOUS
  <2>2. ReplicaIndex(hash, len, 1 - 1) = 0
    BY <1>2, <1>4, <2>1
  <2> QED
    BY <2>1, <2>2
<1>5. ASSUME start + count > len, start # 0
      PROVE  \E i \in 1 .. count : ReplicaIndex(hash, len, i - 1) = 0
  <2>1. len - start + 1 \in 1 .. count
    BY <1>5, <1>1
  <2>2. ReplicaIndex(hash, len, (len - start + 1) - 1) = 0
    BY <1>2, <1>1, <2>1
  <2> QED
    BY <2>1, <2>2
<1> QED
  BY <1>3, <1>4, <1>5 DEF start

\* The index of a replica without the modulus (ReplicaIndex of GetReplicaNodes).
LEMMA IndexWraps ==
    ASSUME NEW len \in Nat \ {0}, NEW hash \in Nat, NEW i \in 1 .. len
    PROVE  LET start == hash % len
           IN  /\ start \in 0 .. (len - 1)
               /\ ReplicaIndex(hash, len, i - 1) =
                    IF start + (i - 1) < len THEN start + (i - 1) ELSE start + (i - 1) - len
<1> DEFINE start == hash % len
<1>1. start \in 0 .. (len - 1)
  BY StartIsIndex
<1>2. i - 1 \in 0 .. (len - 1)
  OBVIOUS
<1> HIDE DEF start
<1>3. (start + (i - 1)) % len =
        IF start + (i - 1) < len THEN start + (i - 1) ELSE start + (i - 1) - len
  BY <1>1, <1>2, WrapOnce
<1> QED
  BY <1>1, <1>3 DEF start, ReplicaIndex

\* The window is injective: it takes no index twice, as long as it is not longer
\* than the list.
LEMMA WindowIsInjective ==
    ASSUME NEW len \in Nat \ {0}, NEW hash \in Nat, NEW i \in 1 .. len, NEW j \in 1 .. len,
           ReplicaIndex(hash, len, i - 1) = ReplicaIndex(hash, len, j - 1)
    PROVE  i = j
<1> DEFINE start == hash % len
<1>1. /\ start \in 0 .. (len - 1)
      /\ ReplicaIndex(hash, len, i - 1) =
           IF start + (i - 1) < len THEN start + (i - 1) ELSE start + (i - 1) - len
      /\ ReplicaIndex(hash, len, j - 1) =
           IF start + (j - 1) < len THEN start + (j - 1) ELSE start + (j - 1) - len
  BY IndexWraps
<1> HIDE DEF start
<1> QED
  BY <1>1

\* A window as long as the list covers it: index k is that of some replica.
LEMMA FullWindowCovers ==
    ASSUME NEW len \in Nat \ {0}, NEW hash \in Nat, NEW k \in 1 .. len
    PROVE  \E i \in 1 .. len : ReplicaIndex(hash, len, i - 1) + 1 = k
<1> DEFINE start == hash % len
           i == IF k > start THEN k - start ELSE k - start + len
<1>1. start \in 0 .. (len - 1)
  BY StartIsIndex
<1> HIDE DEF start
<1>2. i \in 1 .. len
  BY <1>1
<1>3. ReplicaIndex(hash, len, i - 1) =
        IF start + (i - 1) < len THEN start + (i - 1) ELSE start + (i - 1) - len
  <2> HIDE DEF i
  <2> QED
    BY <1>2, IndexWraps DEF start
<1>4. ReplicaIndex(hash, len, i - 1) + 1 = k
  BY <1>1, <1>3
<1> QED
  BY <1>2, <1>4

\* In a list GetActiveNodes returns, the local node is the first element and no
\* other.
LEMMA ViewFacts ==
    ASSUME NEW S, IsFiniteSet(S), NEW n \in S, NEW v \in Views(n, S)
    PROVE  /\ Len(v) = Cardinality(S)
           /\ Len(v) \in Nat \ {0}
           /\ \A i \in 1 .. Len(v) : v[i] = n <=> i = 1
<1>1. Cardinality(S) \in Nat
  BY FS_CardinalityType
<1>2. Cardinality(S) # 0
  BY FS_EmptySet
<1>3. v \in [1 .. Cardinality(S) -> S]
  BY DEF Views
<1>4. Len(v) = Cardinality(S)
  BY <1>1, <1>3
<1> QED
  BY <1>1, <1>2, <1>4 DEF Views

\* The decision of a node that stands first in its list: SelfFirstDecision for
\* one node and hash.
LEMMA SelfFirst ==
    ASSUME NEW S, IsFiniteSet(S), NEW n \in S, NEW v \in Views(n, S), NEW hash \in Nat
    PROVE  LET start == hash % Len(v)
           IN  /\ IsPrimaryOwner(n, hash, v) <=> start = 0
               /\ AppliesEvent(n, hash, v)
                    <=> start # 0 /\ start + ReplicationFactor > Len(v)
<1> DEFINE len   == Len(v)
           start == hash % len
           count == ReplicaCount(v)
<1>1. len \in Nat \ {0} /\ (\A i \in 1 .. len : v[i] = n <=> i = 1)
  BY ViewFacts
<1>2. count \in 1 .. len /\ count = (IF ReplicationFactor < len THEN ReplicationFactor ELSE len)
  BY <1>1, ReplicationFactorAssumption DEF ReplicaCount
<1>3. start \in 0 .. (len - 1)
  BY <1>1, StartIsIndex
<1>4. ASSUME NEW i \in 1 .. count
      PROVE  /\ ReplicaIndex(hash, len, i - 1) \in 0 .. (len - 1)
             /\ GetReplicaNodes(hash, v)[i] = n <=> ReplicaIndex(hash, len, i - 1) = 0
  <2>1. i - 1 \in 0 .. (len - 1)
    BY <1>1, <1>2
  <2>2. ReplicaIndex(hash, len, i - 1) \in 0 .. (len - 1)
    <3> HIDE DEF len
    <3>1. start + (i - 1) \in Nat
      BY <1>3, <2>1, <1>1
    <3> HIDE DEF start
    <3>2. (start + (i - 1)) % len \in 0 .. (len - 1)
      BY <3>1, <1>1, StartIsIndex
    <3> QED
      BY <3>2 DEF ReplicaIndex, start
  <2>3. GetReplicaNodes(hash, v)[i] = v[ReplicaIndex(hash, len, i - 1) + 1]
    BY DEF GetReplicaNodes
  <2>4. ReplicaIndex(hash, len, i - 1) + 1 \in 1 .. len
    BY <2>2, <1>1
  <2>5. v[ReplicaIndex(hash, len, i - 1) + 1] = n <=> ReplicaIndex(hash, len, i - 1) + 1 = 1
    BY <2>4, <1>1
  <2>6. ReplicaIndex(hash, len, i - 1) + 1 = 1 <=> ReplicaIndex(hash, len, i - 1) = 0
    BY <2>2, <1>1
  <2> QED
    BY <2>2, <2>3, <2>5, <2>6
<1>5. IsShardOwner(n, hash, v) <=> (start = 0 \/ start + count > len)
  <2>1. IsShardOwner(n, hash, v)
          <=> \E i \in 1 .. count : ReplicaIndex(hash, len, i - 1) = 0
    BY <1>4 DEF IsShardOwner
  <2> HIDE DEF len, count
  <2> QED
    BY <2>1, <1>1, <1>2, WindowMeetsZero DEF start
<1>6. IsPrimaryOwner(n, hash, v) <=> start = 0
  <2>1. 1 \in 1 .. count
    BY <1>2, <1>1
  <2>2. IsPrimaryOwner(n, hash, v) <=> ReplicaIndex(hash, len, 1 - 1) = 0
    BY <1>2, <1>1, <1>4, <2>1 DEF IsPrimaryOwner
  <2>3. ReplicaIndex(hash, len, 1 - 1) = start
    <3> HIDE DEF len
    <3>1. 0 \in 0 .. (len - 1)
      BY <1>1
    <3> HIDE DEF start
    <3>2. (start + 0) % len = start
      BY <1>1, <1>3, <3>1, WrapOnce
    <3> QED
      BY <3>2 DEF ReplicaIndex, start
  <2> QED
    BY <2>2, <2>3
<1> HIDE DEF len, start, count
<1> QED
  <2>1. start # 0 => (start + count > len <=> start + ReplicationFactor > len)
    BY <1>1, <1>2, <1>3, ReplicationFactorAssumption
  <2>2. AppliesEvent(n, hash, v) <=> start # 0 /\ start + ReplicationFactor > len
    BY <1>5, <1>6, <2>1 DEF AppliesEvent
  <2> QED
    BY <1>6, <2>2 DEF start, len

\* The replicas of a shard in one list: ReplicasDistinct and ShortListOwnsAll for
\* one node and hash.
LEMMA ReplicasOfView ==
    ASSUME NEW S, IsFiniteSet(S), NEW n \in S, NEW v \in Views(n, S), NEW hash \in Nat
    PROVE  LET r == GetReplicaNodes(hash, v)
           IN  /\ Len(r) = ReplicaCount(v)
               /\ \A i, j \in DOMAIN r : r[i] = r[j] => i = j
               /\ Len(v) <= ReplicationFactor =>
                    \A k \in DOMAIN v : IsShardOwner(v[k], hash, v)
<1> DEFINE len   == Len(v)
           count == ReplicaCount(v)
           r     == GetReplicaNodes(hash, v)
           at(i) == ReplicaIndex(hash, len, i - 1)
<1>1. len \in Nat \ {0} /\ len = Cardinality(S)
  BY ViewFacts
<1>2. DOMAIN v = 1 .. len /\ (\A i, j \in 1 .. len : v[i] = v[j] => i = j)
  BY <1>1 DEF Views
<1>3. /\ count \in 1 .. len
      /\ len <= ReplicationFactor => count = len
  BY <1>1, ReplicationFactorAssumption DEF ReplicaCount
<1>4. r = [i \in 1 .. count |-> v[at(i) + 1]]
  BY DEF GetReplicaNodes
<1>5. Len(r) = count /\ DOMAIN r = 1 .. count
  <2> HIDE DEF count, at
  <2>1. DOMAIN r = 1 .. count
    BY <1>4
  <2> HIDE DEF r
  <2> QED
    BY <1>3, <1>4, <2>1
<1> HIDE DEF len, count
<1>6. \A i \in 1 .. len : at(i) + 1 \in 1 .. len
  <2> SUFFICES ASSUME NEW i \in 1 .. len PROVE at(i) \in 0 .. (len - 1)
    BY <1>1
  <2> DEFINE start == hash % len
  <2>1. /\ start \in 0 .. (len - 1)
        /\ at(i) = IF start + (i - 1) < len THEN start + (i - 1) ELSE start + (i - 1) - len
    BY <1>1, IndexWraps
  <2> HIDE DEF start, at
  <2> QED
    BY <1>1, <2>1
<1>7. \A i, j \in 1 .. count : r[i] = r[j] => i = j
  <2> SUFFICES ASSUME NEW i \in 1 .. count, NEW j \in 1 .. count, r[i] = r[j] PROVE i = j
    OBVIOUS
  <2>1. i \in 1 .. len /\ j \in 1 .. len
    BY <1>1, <1>3
  <2>2. r[i] = v[at(i) + 1] /\ r[j] = v[at(j) + 1]
    BY <1>4
  <2>3. at(i) \in Int /\ at(j) \in Int /\ at(i) + 1 = at(j) + 1
    <3>1. at(i) + 1 = at(j) + 1
      BY <1>2, <1>6, <2>1, <2>2
    <3>2. at(i) \in Int /\ at(j) \in Int
      BY <1>1, <2>1, IndexWraps
    <3> QED
      BY <3>1, <3>2
  <2>4. at(i) = at(j)
    BY <2>3
  <2> QED
    BY <1>1, <2>1, <2>4, WindowIsInjective
<1>8. ASSUME len <= ReplicationFactor, NEW k \in 1 .. len
      PROVE  IsShardOwner(v[k], hash, v)
  <2>1. PICK i \in 1 .. len : at(i) + 1 = k
    BY <1>1, FullWindowCovers
  <2>2. i \in 1 .. count /\ r[i] = v[k]
    BY <1>3, <1>4, <1>8, <2>1
  <2> QED
    BY <2>2 DEF IsShardOwner, count
<1> QED
  BY <1>2, <1>5, <1>7, <1>8 DEF count, len

-----------------------------------------------------------------------------

\* Every view is a list GetActiveNodes can return.
THEOREM TypeCorrect == Spec => []TypeOK
<1>1. Init => TypeOK
  <2> SUFFICES ASSUME Init, NEW n \in Nodes
               PROVE  \E S \in SUBSET Nodes : n \in S /\ view[n] \in Views(n, S)
    BY DEF Init, TypeOK
  <2>1. Cardinality({n}) = 1
    BY FS_Singleton
  <2>2. view[n] = <<n>>
    BY DEF Init
  <2>3. <<n>> \in Views(n, {n})
    BY <2>1 DEF Views
  <2> QED
    BY <2>2, <2>3
<1>2. TypeOK /\ [Next]_view => TypeOK'
  <2> SUFFICES ASSUME TypeOK, [Next]_view
               PROVE  TypeOK'
    OBVIOUS
  <2>1. ASSUME NEW n \in Nodes, GetActiveNodes(n)
        PROVE  TypeOK'
    <3>1. PICK peers \in SUBSET (Nodes \ {n}) :
                 \E v \in Views(n, peers \cup {n}) : view' = [view EXCEPT ![n] = v]
      BY <2>1 DEF GetActiveNodes
    <3>2. PICK v \in Views(n, peers \cup {n}) : view' = [view EXCEPT ![n] = v]
      BY <3>1
    <3>3. peers \cup {n} \in SUBSET Nodes /\ n \in peers \cup {n}
      OBVIOUS
    <3> QED
      BY <3>2, <3>3 DEF TypeOK
  <2>2. CASE UNCHANGED view
    BY <2>2 DEF TypeOK
  <2> QED
    BY <2>1, <2>2 DEF Next
<1> QED
  BY <1>1, <1>2, PTL DEF Spec

\* TypeOK holds the facts about one view together with SelfFirst.
LEMMA DecisionFromType == TypeOK => SelfFirstDecision
<1> SUFFICES ASSUME TypeOK, NEW n \in Nodes, NEW hash \in Hashes
             PROVE  LET start == hash % Len(view[n])
                    IN  /\ n \in Primaries(hash) <=> start = 0
                        /\ n \in Appliers(hash)
                             <=> start # 0 /\ start + ReplicationFactor > Len(view[n])
  BY DEF SelfFirstDecision
<1>1. PICK S \in SUBSET Nodes : n \in S /\ view[n] \in Views(n, S)
  BY DEF TypeOK
<1>2. IsFiniteSet(S)
  BY OwnershipAssumption, FS_Subset
<1>3. hash \in Nat
  BY OwnershipAssumption
<1>4. LET start == hash % Len(view[n])
      IN  /\ IsPrimaryOwner(n, hash, view[n]) <=> start = 0
          /\ AppliesEvent(n, hash, view[n])
               <=> start # 0 /\ start + ReplicationFactor > Len(view[n])
  BY <1>1, <1>2, <1>3, SelfFirst
<1> QED
  BY <1>4 DEF Primaries, Appliers

\* A node's decision depends on the hash and the length of its list only, for
\* every set of nodes, replication factor and hash.
THEOREM DecisionIsSelfFirst == Spec => []SelfFirstDecision
BY TypeCorrect, DecisionFromType, PTL

\* TypeOK holds the facts about one view together with ReplicasOfView.
LEMMA ReplicasFromType == TypeOK => ReplicasDistinct /\ ShortListOwnsAll
<1> SUFFICES ASSUME TypeOK, NEW n \in Nodes, NEW hash \in Hashes
             PROVE  LET r == GetReplicaNodes(hash, view[n])
                    IN  /\ Len(r) = ReplicaCount(view[n])
                        /\ \A i, j \in DOMAIN r : r[i] = r[j] => i = j
                        /\ Len(view[n]) <= ReplicationFactor =>
                             \A k \in DOMAIN view[n] : IsShardOwner(view[n][k], hash, view[n])
  BY DEF ReplicasDistinct, ShortListOwnsAll
<1>1. PICK S \in SUBSET Nodes : n \in S /\ view[n] \in Views(n, S)
  BY DEF TypeOK
<1>2. IsFiniteSet(S) /\ hash \in Nat
  BY OwnershipAssumption, FS_Subset
<1> QED
  BY <1>1, <1>2, ReplicasOfView

\* The replicas a node computes are distinct and as many as the factor and its list
\* allow, for every list, replication factor and hash.
THEOREM ReplicasAreDistinct == Spec => []ReplicasDistinct
BY TypeCorrect, ReplicasFromType, PTL

\* In a list no longer than the replication factor every node is a replica of every
\* shard.
THEOREM ShortListsOwnAll == Spec => []ShortListOwnsAll
BY TypeCorrect, ReplicasFromType, PTL

\* In a converged cluster a replicated event is stored by every node or by
\* none: the replication factor never selects a proper subset.
THEOREM ReplicationIsAllOrNothing == Spec => []AllOrNothing
<1>1. SelfFirstDecision => AllOrNothing
  <2> SUFFICES ASSUME SelfFirstDecision, Converged, NEW hash \in Hashes
               PROVE  Appliers(hash) \in {{}, Nodes}
    BY DEF AllOrNothing
  <2> DEFINE len == Cardinality(Nodes)
             applies == (hash % len) # 0 /\ (hash % len) + ReplicationFactor > len
  <2>1. \A n \in Nodes : n \in Appliers(hash) <=> applies
    BY DEF SelfFirstDecision, Converged
  <2>2. Appliers(hash) \subseteq Nodes
    BY DEF Appliers
  <2> QED
    BY <2>1, <2>2
<1> QED
  BY <1>1, DecisionIsSelfFirst, PTL
=============================================================================
