-------------------------- MODULE AntiEntropyProofs -------------------------
(***************************************************************************)
(* Theorems about AntiEntropy, for every number of nodes, stores and       *)
(* memories and whatever fails.                                            *)
(*                                                                         *)
(* The argument: ComputeShardKey ends in the memory id, so a shard is one  *)
(* memory and every digest, wherever it is, is that of one memory          *)
(* (AEInv).  Two digests of one shard are then equal, no comparison finds  *)
(* a divergence, and no step of anti-entropy touches what Replication      *)
(* speaks of.  Deletions keep all of the invariant of Replication but that *)
(* the writer's row stays (RCore), so most of what is proved there holds   *)
(* here too.                                                               *)
(***************************************************************************)
EXTENDS AntiEntropy, ReplicationProofs, FiniteSetTheorems

\* The digest of a shard that is one memory.
Single == {[key |-> ShardKey(m), ids |-> {m}] : m \in Memories}

SyncMessage == [from : Nodes, digests : SUBSET Single]
CycleRecord == [stage : {"comparing"}, local : SUBSET Single, todo : SUBSET Nodes]

AEInv ==
    /\ syncInbox \in [Nodes -> Seq(SyncMessage)]
    /\ peerDigests \in [Nodes -> [Nodes -> SUBSET Single]]
    /\ cycle \in [Nodes -> {NoCycle} \cup CycleRecord]
    /\ republished = {}
    /\ unlisted \in [Nodes -> SUBSET Memories]

-----------------------------------------------------------------------------
(* Digests. *)

\* Two memories have two shard keys.
LEMMA ShardIsOneMemory ==
    ASSUME NEW m \in Memories, NEW k \in Memories, ShardKey(m) = ShardKey(k)
    PROVE  m = k
BY DEF ShardKey, ComputeShardKey

LEMMA DigestsAreSingle ==
    ASSUME NEW S \in SUBSET Memories
    PROVE  Digests(S) \in SUBSET Single
<1> SUFFICES ASSUME NEW k \in S
             PROVE  [key |-> ShardKey(k), ids |-> {m \in S : ShardKey(m) = ShardKey(k)}] \in Single
    BY DEF Digests
<1>1. {m \in S : ShardKey(m) = ShardKey(k)} = {k}
    BY ShardIsOneMemory
<1> QED
    BY <1>1 DEF Single

LEMMA NothingDiverges ==
    ASSUME NEW local \in SUBSET Single, NEW remote \in SUBSET Single
    PROVE  Divergent(local, remote) = {}
<1>1. \A l \in local, r \in remote : r.key = l.key => r.ids = l.ids
    <2> SUFFICES ASSUME NEW l \in local, NEW r \in remote, r.key = l.key
                 PROVE  r.ids = l.ids
        OBVIOUS
    <2>1. PICK m \in Memories : l = [key |-> ShardKey(m), ids |-> {m}]
        BY DEF Single
    <2>2. PICK k \in Memories : r = [key |-> ShardKey(k), ids |-> {k}]
        BY DEF Single
    <2> QED
        BY <2>1, <2>2, ShardIsOneMemory
<1>2. {d \in local : \E r \in remote : r.key = d.key /\ r.ids # d.ids} = {}
    BY <1>1
<1> QED
    BY <1>2 DEF Divergent

\* Publishing nothing leaves a sequence as it is.
LEMMA NoEvents ==
    ASSUME NEW q \in Seq(Event)
    PROVE  q \o [i \in DOMAIN SetToSeq({}) |-> RepairEvent(SetToSeq({})[i])] = q
<1>1. [1 .. Cardinality({}) -> {}] = {<<>>}
    <2>1. 1 .. Cardinality({}) = {}
        BY FS_EmptySet
    <2>2. ASSUME NEW f \in [{} -> {}] PROVE f = <<>>
        <3>1. f = [x \in {} |-> f[x]]
            OBVIOUS
        <3>2. <<>> = [x \in {} |-> f[x]]
            OBVIOUS
        <3> QED
            BY <3>1, <3>2
    <2>3. <<>> \in [{} -> {}]
        OBVIOUS
    <2> QED
        BY <2>1, <2>2, <2>3
<1>2. SetToSeq({}) = <<>>
    BY <1>1 DEF SetToSeq, IsInjective
<1>3. [i \in DOMAIN SetToSeq({}) |-> RepairEvent(SetToSeq({})[i])] = <<>>
    BY <1>2
<1> QED
    BY <1>3

-----------------------------------------------------------------------------
(* The invariant. *)

LEMMA InitAEInv == AEInit => AEInv
BY DEF AEInit, AEInv

LEMMA ForgetDigestsInv ==
    ASSUME AEInv, NEW n \in Nodes, ForgetDigests(n)
    PROVE  AEInv'
<1>1. syncInbox' \in [Nodes -> Seq(SyncMessage)]
    BY DEF AEInv, ForgetDigests
<1>2. peerDigests' \in [Nodes -> [Nodes -> SUBSET Single]]
    <2>1. [p \in Nodes |-> {}] \in [Nodes -> SUBSET Single]
        OBVIOUS
    <2> QED
        BY <2>1 DEF AEInv, ForgetDigests
<1> QED
    BY <1>1, <1>2 DEF AEInv, ForgetDigests

LEMMA CycleAtType ==
    ASSUME NEW local \in SUBSET Single, NEW todo \in SUBSET Nodes
    PROVE  CycleAt(local, todo) \in {NoCycle} \cup CycleRecord
BY DEF CycleAt, CycleRecord

LEMMA ComparePeerInv ==
    ASSUME TypeOK, AEInv, NEW n \in Nodes, NEW p \in Nodes, ComparePeer(n, p)
    PROVE  AEInv' /\ UNCHANGED vars
<1>1. cycle[n] \in CycleRecord
    BY DEF AEInv, ComparePeer
<1>2. Divergent(cycle[n].local, peerDigests[n][p]) = {}
    BY <1>1, NothingDiverges DEF AEInv, CycleRecord
<1>3. inbox' = inbox
    <2> DEFINE events(sent) == [i \in DOMAIN SetToSeq(sent) |-> RepairEvent(SetToSeq(sent)[i])]
    <2>0. inbox' = [q \in Nodes |-> IF up[q] THEN inbox[q] \o events({}) ELSE inbox[q]]
        <3>1. \A sent \in SUBSET {} : sent = {}
            OBVIOUS
        <3> QED
            BY <1>2, <3>1 DEF ComparePeer
    <2>1. \A q \in Nodes : inbox'[q] = inbox[q]
        BY <2>0, NoEvents DEF TypeOK
    <2>2. inbox' = [q \in Nodes |-> inbox'[q]]
        BY <2>0
    <2> QED
        BY <2>1, <2>2 DEF TypeOK
<1>4. republished' = {}
    BY <1>2 DEF ComparePeer, AEInv
<1>5. cycle' \in [Nodes -> {NoCycle} \cup CycleRecord]
    <2>1. CycleAt(cycle[n].local, cycle[n].todo \ {p}) \in {NoCycle} \cup CycleRecord
        BY <1>1, CycleAtType DEF CycleRecord
    <2> QED
        BY <2>1 DEF ComparePeer, AEInv
<1> QED
    BY <1>3, <1>4, <1>5 DEF ComparePeer, AEInv, vars, dataVars

LEMMA ListMemoriesInv ==
    ASSUME AEInv, NEW n \in Nodes, ListMemories(n)
    PROVE  AEInv'
<1> DEFINE local == Digests({m \in Memories : HasRow(n, m)})
           todo  == {p \in Nodes : peerDigests[n][p] # {}}
           msg   == [from |-> n, digests |-> local]
<1>1. local \in SUBSET Single
    BY DigestsAreSingle
<1> HIDE DEF local
<1>2. msg \in SyncMessage
    BY <1>1 DEF SyncMessage
<1>3. syncInbox' \in [Nodes -> Seq(SyncMessage)]
    <2>1. \A p \in Nodes : Append(syncInbox[p], msg) \in Seq(SyncMessage)
        BY <1>2 DEF AEInv
    <2> QED
        BY <2>1 DEF ListMemories, LocalMemories, AEInv, local
<1>4. CycleAt(local, todo) \in {NoCycle} \cup CycleRecord
    BY <1>1, CycleAtType
<1>5. cycle' \in [Nodes -> {NoCycle} \cup CycleRecord]
    BY <1>4 DEF ListMemories, LocalMemories, AEInv, local
<1>6. unlisted' \in [Nodes -> SUBSET Memories]
    BY DEF ListMemories, AEInv
<1> QED
    BY <1>3, <1>5, <1>6 DEF ListMemories, AEInv

LEMMA HandleShardSyncInv ==
    ASSUME AEInv, NEW n \in Nodes, HandleShardSync(n)
    PROVE  AEInv'
<1>1. Head(syncInbox[n]) \in SyncMessage /\ Tail(syncInbox[n]) \in Seq(SyncMessage)
    BY DEF AEInv, HandleShardSync, TakeShardSync
<1>2. peerDigests' \in [Nodes -> [Nodes -> SUBSET Single]]
    BY <1>1 DEF AEInv, HandleShardSync, TakeShardSync, SyncMessage
<1>3. syncInbox' \in [Nodes -> Seq(SyncMessage)]
    BY <1>1 DEF AEInv, HandleShardSync, TakeShardSync
<1> QED
    BY <1>2, <1>3 DEF AEInv, HandleShardSync, TakeShardSync

LEMMA ForgetMemoryInv ==
    ASSUME AEInv, NEW n \in Nodes, NEW m \in Memories, ForgetMemory(n, m)
    PROVE  AEInv'
<1>1. unlisted' \in [Nodes -> SUBSET Memories]
    BY DEF ForgetMemory, AEInv
<1> QED
    BY <1>1 DEF ForgetMemory, AEInv

\* The state of Replication takes a step of Replication, or a memory is deleted.
ReplicationOrForget == Next \/ \E n \in Nodes, m \in Memories : Forget(n, m)

\* A step of the composition keeps the invariant and is such a step, or leaves
\* Replication's state alone.
LEMMA AEStepMaps ==
    TypeOK /\ AEInv /\ [AENext]_allVars => AEInv' /\ [ReplicationOrForget]_vars
<1> SUFFICES ASSUME TypeOK, AEInv, [AENext]_allVars PROVE AEInv' /\ [ReplicationOrForget]_vars
    OBVIOUS
<1>1. CASE ReplicationStep
    BY <1>1 DEF ReplicationStep, Next, NodeStep, aeVars, AEInv, ReplicationOrForget
<1>2. ASSUME NEW n \in Nodes, AEStep(n) PROVE AEInv' /\ UNCHANGED vars
    <2>1. CASE ListMemories(n)
        BY <2>1, ListMemoriesInv DEF ListMemories
    <2>2. CASE HandleShardSync(n)
        BY <2>2, HandleShardSyncInv DEF HandleShardSync, TakeShardSync
    <2>3. ASSUME NEW p \in Nodes, ComparePeer(n, p) PROVE AEInv' /\ UNCHANGED vars
        BY <2>3, ComparePeerInv
    <2> QED
        BY <1>2, <2>1, <2>2, <2>3 DEF AEStep
<1>3. ASSUME NEW n \in Nodes, CrashNode(n) \/ MapRace(n) PROVE AEInv' /\ Next
    BY <1>3, ForgetDigestsInv, RaceAssumption DEF CrashNode, MapRace, Next, NodeStep, Crash
<1>4. ASSUME NEW n \in Nodes, NEW m \in Memories, ForgetMemory(n, m)
      PROVE  AEInv' /\ Forget(n, m)
    BY <1>4, ForgetMemoryInv DEF ForgetMemory
<1>5. CASE UNCHANGED allVars
    BY <1>5 DEF allVars, aeVars, AEInv
<1> QED
    BY <1>1, <1>2, <1>3, <1>4, <1>5 DEF AENext, ReplicationOrForget

\* A deletion: nothing is about to index the memory, and all else is as it was.
LEMMA ForgetCore ==
    ASSUME RCore, NEW n \in Nodes, NEW m \in Memories, Forget(n, m)
    PROVE  RCore'
<1>0. TypeOK /\ UNCHANGED <<up, request, inbox, queue, loop, lost, dlq>> /\ StoreOf[n] \in Stores
    BY ReplicationAssumption DEF RCore, Forget, nodeVars
<1>1. row' \in [Stores -> [Memories -> Row \cup {NoRow}]]
    <2>1. [row[StoreOf[n]] EXCEPT ![m] = NoRow] \in [Memories -> Row \cup {NoRow}]
        BY <1>0 DEF TypeOK
    <2>2. row' = [row EXCEPT ![StoreOf[n]] = [row[StoreOf[n]] EXCEPT ![m] = NoRow]]
        BY DEF Forget
    <2> QED
        BY <1>0, <2>1, <2>2 DEF TypeOK
<1>2. \A s \in Stores, k \in Memories : row'[s][k] # NoRow => row'[s][k] = row[s][k]
    BY <1>0 DEF Forget, TypeOK
<1>3. vector' \in [Stores -> SUBSET Memories]
    <2>1. vector[StoreOf[n]] \ {m} \in SUBSET Memories
        BY <1>0 DEF TypeOK
    <2>2. vector' = vector \/ vector' = [vector EXCEPT ![StoreOf[n]] = vector[StoreOf[n]] \ {m}]
        BY DEF Forget
    <2> QED
        BY <1>0, <2>1, <2>2 DEF TypeOK
<1>4. TypeOK'
    BY <1>0, <1>1, <1>3 DEF TypeOK
<1>5. Genuine'
    BY <1>0 DEF RCore, Genuine, Has
<1>6. NewIsUnsaved' /\ StoredRows'
    BY <1>0, <1>2 DEF RCore, NewIsUnsaved, StoredRows
<1>7. WrittenBeforeIndexed'
    <2> SUFFICES ASSUME NEW p \in Nodes, loop[p].stage = "index"
                 PROVE  row'[StoreOf[p]][loop[p].event.memory] # NoRow
        BY <1>0 DEF WrittenBeforeIndexed, HasRow
    <2>1. loop[p] # Idle /\ loop[p].event.memory \in Memories /\ StoreOf[p] \in Stores
        BY <1>0, Busy
    <2>2. loop[p].event.memory # m
        BY <2>1 DEF Forget, Settled, EventAt
    <2>3. row[StoreOf[p]][loop[p].event.memory] # NoRow
        BY DEF RCore, WrittenBeforeIndexed, HasRow
    <2>4. row'[StoreOf[p]][loop[p].event.memory] = row[StoreOf[p]][loop[p].event.memory]
        BY <1>0, <2>1, <2>2 DEF Forget, TypeOK
    <2> QED
        BY <2>3, <2>4
<1> QED
    BY <1>4, <1>5, <1>6, <1>7 DEF RCore

LEMMA Combined == AESpec => [](RCore /\ AEInv)
<1>1. AEInit => RCore /\ AEInv
    BY InitRInv, InitAEInv DEF AEInit, RInv
<1>2. RCore /\ AEInv /\ [AENext]_allVars => (RCore /\ AEInv)'
    <2> SUFFICES ASSUME RCore, AEInv, [AENext]_allVars PROVE RCore' /\ AEInv'
        OBVIOUS
    <2>1. AEInv' /\ [ReplicationOrForget]_vars
        BY AEStepMaps DEF RCore
    <2> QED
        BY <2>1, CoreStep, ForgetCore DEF ReplicationOrForget
<1> QED
    BY <1>1, <1>2, PTL DEF AESpec

-----------------------------------------------------------------------------
(* What follows. *)

\* A cluster with anti-entropy behaves as one without it: every step is one of
\* Replication, or a deletion by ageing, or changes nothing of what Replication
\* speaks of.
THEOREM AntiEntropyImplementsReplication == AESpec => AntiEntropyIsInert
<1>1. AEInit => Init
    BY DEF AEInit
<1>2. RCore /\ AEInv /\ [AENext]_allVars =>
        [Next \/ \E n \in Nodes, m \in Memories : Forget(n, m)]_vars
    BY AEStepMaps DEF RCore, ReplicationOrForget
<1> QED
    BY <1>1, <1>2, Combined, PTL DEF AESpec, AntiEntropyIsInert

\* The type invariant of the composition.
THEOREM AETypeCorrect == AESpec => []AETypeOK
<1>1. RCore /\ AEInv => AETypeOK
    <2> SUFFICES ASSUME RCore, AEInv PROVE AETypeOK
        OBVIOUS
    <2>0. Single \subseteq Digest
        BY DEF Single, Digest
    <2>1. ASSUME NEW n \in Nodes, NEW i \in DOMAIN syncInbox[n]
          PROVE  syncInbox[n][i].from \in Nodes /\ syncInbox[n][i].digests \subseteq Digest
        <3>1. syncInbox[n] \in Seq(SyncMessage)
            BY DEF AEInv
        <3>2. syncInbox[n][i] \in SyncMessage
            BY <3>1
        <3> QED
            BY <2>0, <3>2 DEF SyncMessage
    <2>2. peerDigests \in [Nodes -> [Nodes -> SUBSET Digest]]
        BY <2>0 DEF AEInv
    <2>3. \A n \in Nodes : cycle[n] # NoCycle =>
              cycle[n].local \subseteq Digest /\ cycle[n].todo \subseteq Nodes
        BY <2>0 DEF AEInv, CycleRecord
    <2> QED
        BY <2>1, <2>2, <2>3 DEF AETypeOK, RCore, AEInv
<1> QED
    BY <1>1, Combined, PTL

\* repairShard is never called: no comparison of a cycle finds a divergence, now or
\* with the digests that come in while it runs.
NeverDivergent ==
    /\ republished = {}
    /\ \A n, p \in Nodes : cycle[n] # NoCycle =>
          Divergent(cycle[n].local, peerDigests[n][p]) = {}

\* No comparison of digests ever finds a divergence, and nothing is repaired, which
\* is why what DivergenceIsRepaired asks for does not happen.
THEOREM NeverRepaired == AESpec => []NeverDivergent
<1>1. AEInv => NeverDivergent
    <2> SUFFICES ASSUME AEInv, NEW n \in Nodes, NEW p \in Nodes, cycle[n] # NoCycle
                 PROVE  Divergent(cycle[n].local, peerDigests[n][p]) = {}
        BY DEF NeverDivergent, AEInv
    <2>1. cycle[n].local \in SUBSET Single /\ peerDigests[n][p] \in SUBSET Single
        BY DEF AEInv, CycleRecord
    <2> QED
        BY <2>1, NothingDiverges
<1> QED
    BY <1>1, Combined, PTL

\* Two stores that hold a memory hold the same text of it.
THEOREM ReplicasHoldOneText == AESpec => []ReplicasAgree
<1>1. RCore => ReplicasAgree
    BY DEF RCore, StoredRows, ReplicasAgree
<1> QED
    BY <1>1, Combined, PTL

-----------------------------------------------------------------------------
(***************************************************************************)
(* What digests say, and what becomes of it.  A memory that is named was   *)
(* a row when its holder listed it; a row goes only by a deletion, which   *)
(* is on record (unlisted) until the next broadcast, and only when nobody  *)
(* stores or replicates the memory any more (Settled), so that it does not *)
(* come back.  A node has at most one broadcast of a peer to take, because *)
(* the peer waits for it to be delivered.                                  *)
(***************************************************************************)

Ids(digests) == UNION {d.ids : d \in digests}

\* A message from p is in the queue q; one that names m.
From(q, p)     == \E i \in DOMAIN q : q[i].from = p
Names(q, p, m) == \E i \in DOMAIN q : q[i].from = p /\ m \in Ids(q[i].digests)
OneEach(q)     == \A i, j \in DOMAIN q : q[i].from = q[j].from => i = j

Held(p, m) == HasRow(p, m) \/ m \in unlisted[p]

MailAt(n) ==
    /\ OneEach(syncInbox[n]) /\ ~ From(syncInbox[n], n) /\ peerDigests[n][n] = {}
    /\ ~ up[n] => syncInbox[n] = <<>> /\ \A p \in Nodes : peerDigests[n][p] = {}

BeliefAt(n, p, m) ==
    /\ Names(syncInbox[n], p, m) => Held(p, m)
    /\ Knows(n, p, m) => Held(p, m) \/ From(syncInbox[n], p)
    /\ Knows(n, p, m) /\ From(syncInbox[n], p) => Names(syncInbox[n], p, m) \/ ~ HasRow(p, m)
    /\ (Knows(n, p, m) \/ Names(syncInbox[n], p, m)) /\ ~ HasRow(p, m) => Settled(m)

Beliefs == \A n \in Nodes : MailAt(n) /\ \A p \in Nodes, m \in Memories : BeliefAt(n, p, m)

\* The digests of a listing name all that was listed.
LEMMA DigestsNameAll ==
    ASSUME NEW S \in SUBSET Memories
    PROVE  Ids(Digests(S)) = S
<1>1. ASSUME NEW m \in S PROVE m \in Ids(Digests(S))
    <2> DEFINE d == [key |-> ShardKey(m), ids |-> {k \in S : ShardKey(k) = ShardKey(m)}]
    <2>1. d \in Digests(S)
        BY DEF Digests
    <2>2. m \in d.ids
        OBVIOUS
    <2> HIDE DEF d
    <2> QED
        BY <2>1, <2>2 DEF Ids
<1>2. ASSUME NEW d \in Digests(S) PROVE d.ids \subseteq S
    BY DEF Digests
<1> QED
    BY <1>1, <1>2 DEF Ids

\* A queue that a message is put into, of a sender that has none in it.
LEMMA MailAppended ==
    ASSUME NEW q \in Seq(SyncMessage), NEW e \in SyncMessage
    PROVE  /\ \A p \in Nodes : From(Append(q, e), p) <=> From(q, p) \/ e.from = p
           /\ \A p \in Nodes, m \in Memories : Names(Append(q, e), p, m)
                <=> Names(q, p, m) \/ (e.from = p /\ m \in Ids(e.digests))
           /\ OneEach(q) /\ ~ From(q, e.from) => OneEach(Append(q, e))
<1> DEFINE a == Append(q, e)
<1>1. DOMAIN a = 1 .. Len(q) + 1 /\ DOMAIN q = 1 .. Len(q) /\ Len(q) \in Nat
    OBVIOUS
<1>2. a[Len(q) + 1] = e /\ \A i \in DOMAIN q : a[i] = q[i]
    OBVIOUS
<1> HIDE DEF a
<1>3. \A i \in DOMAIN a : i = Len(q) + 1 \/ i \in DOMAIN q
    BY <1>1
<1>4. Len(q) + 1 \in DOMAIN a /\ \A i \in DOMAIN q : i \in DOMAIN a
    BY <1>1
<1>5. \A p \in Nodes : From(a, p) <=> From(q, p) \/ e.from = p
    BY <1>2, <1>3, <1>4 DEF From
<1>6. \A p \in Nodes, m \in Memories : Names(a, p, m)
            <=> Names(q, p, m) \/ (e.from = p /\ m \in Ids(e.digests))
    BY <1>2, <1>3, <1>4 DEF Names
<1>7. OneEach(q) /\ ~ From(q, e.from) => OneEach(a)
    BY <1>2, <1>3, <1>4 DEF OneEach, From
<1> QED
    BY <1>5, <1>6, <1>7 DEF a

\* A queue whose first message is taken: there is no other of its sender.
LEMMA MailTaken ==
    ASSUME NEW q \in Seq(SyncMessage), q # <<>>, OneEach(q)
    PROVE  /\ Head(q) \in SyncMessage /\ OneEach(Tail(q))
           /\ From(q, Head(q).from)
           /\ \A p \in Nodes : From(Tail(q), p) <=> From(q, p) /\ p # Head(q).from
           /\ \A p \in Nodes, m \in Memories :
                /\ Names(Tail(q), p, m) <=> Names(q, p, m) /\ p # Head(q).from
                /\ p = Head(q).from => (Names(q, p, m) <=> m \in Ids(Head(q).digests))
<1> DEFINE t == Tail(q)
           h == Head(q)
<1>0. h = q[1] /\ 1 \in DOMAIN q /\ h \in SyncMessage
    OBVIOUS
<1>1. \A i \in DOMAIN t : i + 1 \in DOMAIN q /\ t[i] = q[i + 1] /\ i + 1 # 1
    OBVIOUS
<1>2. \A i \in DOMAIN q : i # 1 => i - 1 \in DOMAIN t /\ q[i] = t[i - 1]
    OBVIOUS
<1>3. \A i, j \in DOMAIN t : i + 1 = j + 1 => i = j
    OBVIOUS
<1> HIDE DEF t, h
<1>4. \A i \in DOMAIN q : q[i].from = h.from <=> i = 1
    BY <1>0 DEF OneEach
<1>5. \A i \in DOMAIN t : t[i].from # h.from
    BY <1>1, <1>4
<1>6. OneEach(t)
    <2> SUFFICES ASSUME NEW i \in DOMAIN t, NEW j \in DOMAIN t, t[i].from = t[j].from
                 PROVE  i = j
        BY DEF OneEach
    <2>1. i + 1 = j + 1
        BY <1>1 DEF OneEach
    <2> QED
        BY <1>3, <2>1
<1>7. \A p \in Nodes : From(t, p) <=> From(q, p) /\ p # h.from
    BY <1>0, <1>1, <1>2, <1>4, <1>5 DEF From
<1>8. \A p \in Nodes, m \in Memories : Names(t, p, m) <=> Names(q, p, m) /\ p # h.from
    BY <1>0, <1>1, <1>2, <1>4, <1>5 DEF Names
<1>9. \A p \in Nodes, m \in Memories : p = h.from => (Names(q, p, m) <=> m \in Ids(h.digests))
    BY <1>0, <1>4 DEF Names
<1> QED
    BY <1>0, <1>6, <1>7, <1>8, <1>9 DEF From, t, h

\* A memory is at a node when one of its events is.
LEMMA EventAtHas ==
    ASSUME TypeOK, NEW n \in Nodes, NEW m \in Memories
    PROVE  EventAt(n, m) <=> \E e \in Event : Has(n, e) /\ e.memory = m
<1>1. inbox[n] \in Seq(Event) /\ queue[n] \in Seq(Event)
    BY DEF TypeOK
<1>2. loop[n] # Idle => loop[n].event \in Event
    BY Busy
<1> QED
    BY <1>1, <1>2 DEF EventAt, Holds, Has

\* Nobody takes up again what is settled, and no row of it appears.
LEMMA SettledNext ==
    ASSUME RCore, [Next]_vars, NEW m \in Memories, Settled(m)
    PROVE  /\ Settled(m)'
           /\ \A s \in Stores : row[s][m] = NoRow => row'[s][m] = NoRow
<1>0. TypeOK /\ TypeOK'
    BY NextType DEF RCore
<1>1. ASSUME NEW n \in Nodes, EventAt(n, m)' PROVE FALSE
    <2>1. PICK e \in Event : Has(n, e)' /\ e.memory = m
        <3>1. inbox'[n] \in Seq(Event) /\ queue'[n] \in Seq(Event)
            BY <1>0 DEF TypeOK
        <3>2. loop'[n] # Idle => loop'[n].event \in Event
            BY <1>0 DEF TypeOK
        <3> QED
            BY <1>1, <3>1, <3>2 DEF EventAt, Holds, Has
    <2>2. Has(n, e)
        BY <1>0, <2>1, EventOrigin DEF Settled
    <2> QED
        BY <1>0, <2>1, <2>2, EventAtHas DEF Settled
<1>2. request'[m] = request[m]
    <2>1. ASSUME NEW n \in Nodes, NEW k \in Memories, StoreStep(n, k)
          PROVE  request'[m] = request[m]
        <3>1. k # m
            BY <2>1 DEF Settled, StoreStep, RejectStore, SaveMemory, LoseCommit, IndexMemory,
                        PublishStored
        <3> QED
            BY <1>0, <2>1, <3>1 DEF StoreStep, RejectStore, SaveMemory, LoseCommit, IndexMemory,
                                    PublishStored, TypeOK
    <2>2. ASSUME NEW n \in Nodes, LoopStep(n) \/ HandleMemoryStored(n) \/ Restart(n)
          PROVE  request' = request
        BY <2>2 DEF LoopStep, Dequeue, SelectVersion, WriteRow, IndexVector,
                    HandleMemoryStored, Restart
    <2>3. ASSUME NEW n \in Nodes, Die(n) PROVE request'[m] = request[m]
        BY <2>3 DEF Die, Settled
    <2>4. CASE UNCHANGED vars
        BY <2>4 DEF vars
    <2> QED
        BY <2>1, <2>2, <2>3, <2>4 DEF Next, NodeStep, Crash
<1>3. ASSUME NEW s \in Stores, row[s][m] = NoRow PROVE row'[s][m] = NoRow
    <2>1. ASSUME NEW n \in Nodes, NEW k \in Memories, StoreStep(n, k) PROVE row'[s][m] = NoRow
        <3>1. k # m
            BY <2>1 DEF Settled, StoreStep, RejectStore, SaveMemory, LoseCommit, IndexMemory,
                        PublishStored
        <3>2. row' = row \/ row' = [row EXCEPT ![StoreOf[n]][k] = SavedRow]
            BY <2>1 DEF StoreStep, RejectStore, SaveMemory, LoseCommit, IndexMemory,
                        PublishStored, dataVars
        <3>3. CASE row' = row
            BY <1>3, <3>3
        <3>4. CASE row' = [row EXCEPT ![StoreOf[n]][k] = SavedRow]
            BY <1>0, <1>3, <3>1, <3>4 DEF TypeOK
        <3> QED
            BY <3>2, <3>3, <3>4
    <2>2. ASSUME NEW n \in Nodes, WriteRow(n) PROVE row'[s][m] = NoRow
        <3>1. loop[n] # Idle /\ loop[n].event.memory # m
            BY <1>0, <2>2, Busy DEF WriteRow, Settled, EventAt
        <3>2. row' = row \/ row' = [row EXCEPT ![StoreOf[n]][loop[n].event.memory] = ReplicaRow(loop[n].event)]
            BY <2>2 DEF WriteRow, ApplyFails, dataVars
        <3>3. CASE row' = row
            BY <1>3, <3>3
        <3>4. CASE row' = [row EXCEPT ![StoreOf[n]][loop[n].event.memory] = ReplicaRow(loop[n].event)]
            BY <1>0, <1>3, <3>1, <3>4 DEF TypeOK
        <3> QED
            BY <3>2, <3>3, <3>4
    <2>3. ASSUME NEW n \in Nodes, LoopStep(n), ~ WriteRow(n) PROVE row' = row
        BY <2>3 DEF LoopStep, Dequeue, SelectVersion, IndexVector, ApplyFails, dataVars
    <2>4. ASSUME NEW n \in Nodes, HandleMemoryStored(n) \/ Die(n) \/ Restart(n) PROVE row' = row
        BY <2>4 DEF HandleMemoryStored, Die, Restart, dataVars
    <2>5. CASE UNCHANGED vars
        BY <1>3, <2>5 DEF vars
    <2> QED
        BY <1>3, <2>1, <2>2, <2>3, <2>4, <2>5 DEF Next, NodeStep, Crash
<1> QED
    BY <1>1, <1>2, <1>3 DEF Settled

\* What a step may do to a memory and the record of its deletion.
LEMMA MemoryFacts ==
    ASSUME RCore, AEInv, [AENext]_allVars, NEW p \in Nodes, NEW m \in Memories
    PROVE  /\ Settled(m) => Settled(m)'
           /\ Settled(m) /\ ~ HasRow(p, m) => ~ HasRow(p, m)'
           /\ HasRow(p, m) /\ ~ HasRow(p, m)' => Settled(m)' /\ m \in unlisted'[p]
<1>0. TypeOK /\ StoreOf[p] \in Stores
    BY ReplicationAssumption DEF RCore
<1>1. CASE [Next]_vars
    <2>1. HasRow(p, m) => HasRow(p, m)'
        BY <1>0, <1>1, RowsKept DEF HasRow
    <2> QED
        BY <1>0, <1>1, <2>1, SettledNext DEF HasRow
<1>2. ASSUME NEW n \in Nodes, NEW k \in Memories, ForgetMemory(n, k)
      PROVE  /\ Settled(m) => Settled(m)'
             /\ Settled(m) /\ ~ HasRow(p, m) => ~ HasRow(p, m)'
             /\ HasRow(p, m) /\ ~ HasRow(p, m)' => Settled(m)' /\ m \in unlisted'[p]
    <2>1. UNCHANGED <<request, inbox, queue, loop>> /\ StoreOf[n] \in Stores /\ Settled(k)
        BY <1>2, ReplicationAssumption DEF ForgetMemory, Forget, nodeVars
    <2>2. Settled(m) <=> Settled(m)'
        BY <2>1 DEF Settled, EventAt, Holds
    <2>3. row' = [row EXCEPT ![StoreOf[n]][k] = NoRow]
        BY <1>2 DEF ForgetMemory, Forget
    <2>4. ~ HasRow(p, m) => ~ HasRow(p, m)'
        BY <1>0, <2>1, <2>3 DEF HasRow, TypeOK
    <2>5. HasRow(p, m) /\ ~ HasRow(p, m)' => m = k /\ StoreOf[p] = StoreOf[n]
        BY <1>0, <2>1, <2>3 DEF HasRow, TypeOK
    <2>6. StoreOf[p] = StoreOf[n] => k \in unlisted'[p]
        BY <1>2 DEF ForgetMemory
    <2> QED
        BY <2>1, <2>2, <2>4, <2>5, <2>6
<1>3. [Next]_vars \/ \E n \in Nodes, k \in Memories : ForgetMemory(n, k)
    <2>1. [ReplicationOrForget]_vars
        BY <1>0, AEStepMaps
    <2>2. ASSUME NEW n \in Nodes, AEStep(n) PROVE UNCHANGED vars
        BY <1>0, <2>2, ComparePeerInv
        DEF AEStep, ListMemories, HandleShardSync, TakeShardSync
    <2>3. ASSUME NEW n \in Nodes, CrashNode(n) \/ MapRace(n) PROVE Next
        BY <2>3, RaceAssumption DEF CrashNode, MapRace, Next, NodeStep, Crash
    <2>4. ReplicationStep => Next
        BY DEF ReplicationStep, Next, NodeStep
    <2>5. UNCHANGED allVars => UNCHANGED vars
        BY DEF allVars
    <2> QED
        BY <2>2, <2>3, <2>4, <2>5 DEF AENext
<1> QED
    BY <1>1, <1>2, <1>3

\* A step that moves no digests.
LEMMA QuietBelief ==
    ASSUME RCore, AEInv, [AENext]_allVars, NEW n \in Nodes, NEW p \in Nodes, NEW m \in Memories,
           BeliefAt(n, p, m), syncInbox'[n] = syncInbox[n], peerDigests'[n] = peerDigests[n],
           unlisted[p] \subseteq unlisted'[p]
    PROVE  BeliefAt(n, p, m)'
<1>1. /\ Names(syncInbox'[n], p, m) <=> Names(syncInbox[n], p, m)
      /\ From(syncInbox'[n], p) <=> From(syncInbox[n], p)
      /\ Knows(n, p, m)' <=> Knows(n, p, m)
    BY DEF Knows
<1>2. Held(p, m) => Held(p, m)'
    BY MemoryFacts DEF Held
<1>3. /\ Settled(m) => Settled(m)'
      /\ Settled(m) /\ ~ HasRow(p, m) => ~ HasRow(p, m)'
      /\ HasRow(p, m) /\ ~ HasRow(p, m)' => Settled(m)'
    BY MemoryFacts
<1> QED
    BY <1>1, <1>2, <1>3 DEF BeliefAt

\* A step that moves neither digests nor processes keeps every belief.
LEMMA QuietStep ==
    ASSUME RCore, AEInv, Beliefs, [AENext]_allVars,
           UNCHANGED <<syncInbox, peerDigests>>, \A n \in Nodes : up[n] => up'[n],
           \A p \in Nodes : unlisted[p] \subseteq unlisted'[p]
    PROVE  Beliefs'
<1>1. ASSUME NEW n \in Nodes PROVE MailAt(n)'
    BY DEF Beliefs, MailAt
<1>2. ASSUME NEW n \in Nodes, NEW p \in Nodes, NEW m \in Memories PROVE BeliefAt(n, p, m)'
    BY QuietBelief DEF Beliefs
<1> QED
    BY <1>1, <1>2 DEF Beliefs

\* A broadcast of node k: what it says is exact, and it is the only one of k.
LEMMA ListStep ==
    ASSUME RCore, AEInv, Beliefs, NEW k \in Nodes, ListMemories(k),
           UNCHANGED <<syncInbox, unlisted>> => Beliefs'
    PROVE  Beliefs'
<1> DEFINE held == {m \in Memories : HasRow(k, m)}
           msg  == [from |-> k, digests |-> Digests(held)]
<1>0. msg \in SyncMessage /\ msg.from = k /\ Ids(msg.digests) = held
    BY DigestsAreSingle, DigestsNameAll DEF SyncMessage
<1> HIDE DEF msg
<1> SUFFICES ASSUME ~ UNCHANGED <<syncInbox, unlisted>> PROVE Beliefs'
    OBVIOUS
<1>1. UNCHANGED vars /\ peerDigests' = peerDigests /\ Delivered(k)
    BY DEF ListMemories
<1>2. /\ \A n \in Nodes : syncInbox'[n] =
            IF up[n] /\ n # k THEN Append(syncInbox[n], msg) ELSE syncInbox[n]
      /\ unlisted' = [unlisted EXCEPT ![k] = {}]
    BY DEF ListMemories, LocalMemories, msg
<1>3. \A n \in Nodes : ~ From(syncInbox[n], k)
    BY <1>1 DEF Delivered, From
<1>4. /\ \A n \in Nodes : up'[n] = up[n] /\ syncInbox[n] \in Seq(SyncMessage)
      /\ \A m \in Memories : Settled(m)' <=> Settled(m)
      /\ \A p \in Nodes, m \in Memories : HasRow(p, m)' <=> HasRow(p, m)
      /\ \A n, p \in Nodes, m \in Memories : Knows(n, p, m)' <=> Knows(n, p, m)
    BY <1>1 DEF vars, Settled, EventAt, Holds, HasRow, Knows, AEInv
<1>5. \A p \in Nodes, m \in Memories : p # k => (Held(p, m)' <=> Held(p, m))
    BY <1>2, <1>4 DEF Held, AEInv
<1>6. ASSUME NEW n \in Nodes
      PROVE  MailAt(n)' /\ \A p \in Nodes, m \in Memories : BeliefAt(n, p, m)'
    <2>0. MailAt(n) /\ \A p \in Nodes, m \in Memories : BeliefAt(n, p, m)
        BY DEF Beliefs
    <2>1. CASE up[n] /\ n # k
        <3>1. syncInbox'[n] = Append(syncInbox[n], msg)
            BY <1>2, <2>1
        <3>2. /\ \A p \in Nodes : From(syncInbox'[n], p) <=> From(syncInbox[n], p) \/ p = k
              /\ \A p \in Nodes, m \in Memories : Names(syncInbox'[n], p, m)
                    <=> Names(syncInbox[n], p, m) \/ (p = k /\ HasRow(k, m))
              /\ OneEach(syncInbox'[n])
            BY <1>0, <1>3, <1>4, <2>0, <3>1, MailAppended DEF MailAt
        <3>3. MailAt(n)'
            BY <1>1, <1>4, <2>0, <2>1, <3>2 DEF MailAt
        <3>4. ASSUME NEW p \in Nodes, NEW m \in Memories PROVE BeliefAt(n, p, m)'
            <4>1. CASE p = k
                <5>1. ~ Names(syncInbox[n], k, m)
                    BY <1>3 DEF Names, From
                <5>2. HasRow(k, m)' => Held(k, m)'
                    BY DEF Held
                <5> QED
                    BY <1>4, <2>0, <3>2, <4>1, <5>1, <5>2 DEF BeliefAt
            <4>2. CASE p # k
                BY <1>4, <1>5, <2>0, <3>2, <4>2 DEF BeliefAt
            <4> QED
                BY <4>1, <4>2
        <3> QED
            BY <3>3, <3>4
    <2>2. CASE n = k
        <3>1. syncInbox'[n] = syncInbox[n]
            BY <1>2, <2>2
        <3>2. MailAt(n)'
            BY <1>1, <1>4, <2>0, <3>1 DEF MailAt
        <3>3. ASSUME NEW p \in Nodes, NEW m \in Memories PROVE BeliefAt(n, p, m)'
            <4>1. CASE p = k
                <5>1. ~ Knows(n, k, m) /\ ~ Names(syncInbox[n], k, m)
                    BY <1>3, <2>0, <2>2 DEF MailAt, Knows, Names, From
                <5> QED
                    BY <1>4, <3>1, <4>1, <5>1 DEF BeliefAt
            <4>2. CASE p # k
                BY <1>4, <1>5, <2>0, <3>1, <4>2 DEF BeliefAt
            <4> QED
                BY <4>1, <4>2
        <3> QED
            BY <3>2, <3>3
    <2>3. CASE ~ up[n] /\ n # k
        <3>1. syncInbox'[n] = syncInbox[n] /\ syncInbox[n] = <<>> /\ \A p \in Nodes : peerDigests[n][p] = {}
            BY <1>2, <2>0, <2>3 DEF MailAt
        <3>2. MailAt(n)'
            BY <1>1, <1>4, <2>0, <3>1 DEF MailAt
        <3>3. \A p \in Nodes, m \in Memories : ~ Knows(n, p, m)' /\ ~ Names(syncInbox'[n], p, m)
            BY <1>1, <3>1 DEF Knows, Names
        <3> QED
            BY <3>2, <3>3 DEF BeliefAt
    <2> QED
        BY <2>1, <2>2, <2>3
<1> QED
    BY <1>6 DEF Beliefs

\* Node k takes a broadcast: it believes what it says, and none of its sender is left.
LEMMA TakeStep ==
    ASSUME RCore, AEInv, Beliefs, NEW k \in Nodes, HandleShardSync(k)
    PROVE  Beliefs'
<1> DEFINE q   == syncInbox[k]
           msg == Head(q)
<1>0. q \in Seq(SyncMessage) /\ q # <<>> /\ OneEach(q) /\ ~ From(q, k)
    BY DEF HandleShardSync, TakeShardSync, AEInv, Beliefs, MailAt
<1>1. UNCHANGED vars /\ unlisted' = unlisted /\ up[k]
    BY DEF HandleShardSync, TakeShardSync
<1>2. /\ msg \in SyncMessage /\ OneEach(Tail(q)) /\ From(q, msg.from)
      /\ \A p \in Nodes : From(Tail(q), p) <=> From(q, p) /\ p # msg.from
      /\ \A p \in Nodes, m \in Memories :
            /\ Names(Tail(q), p, m) <=> Names(q, p, m) /\ p # msg.from
            /\ p = msg.from => (Names(q, p, m) <=> m \in Ids(msg.digests))
    BY <1>0, MailTaken
<1>3. msg.from \in Nodes /\ msg.from # k
    BY <1>0, <1>2 DEF SyncMessage
<1>4. /\ syncInbox' = [syncInbox EXCEPT ![k] = Tail(q)]
      /\ peerDigests' = [peerDigests EXCEPT ![k][msg.from] = msg.digests]
    BY DEF HandleShardSync, TakeShardSync
<1> HIDE DEF q, msg
<1>5. /\ \A m \in Memories : Settled(m)' <=> Settled(m)
      /\ \A p \in Nodes, m \in Memories : HasRow(p, m)' <=> HasRow(p, m)
      /\ \A p \in Nodes, m \in Memories : Held(p, m)' <=> Held(p, m)
      /\ up' = up
    BY <1>1 DEF vars, Settled, EventAt, Holds, HasRow, Held
<1>6. /\ \A n \in Nodes \ {k} : syncInbox'[n] = syncInbox[n] /\ peerDigests'[n] = peerDigests[n]
      /\ syncInbox'[k] = Tail(q) /\ peerDigests'[k][msg.from] = msg.digests
      /\ \A p \in Nodes \ {msg.from} : peerDigests'[k][p] = peerDigests[k][p]
    BY <1>3, <1>4 DEF AEInv
<1>7. ASSUME NEW n \in Nodes \ {k}
      PROVE  MailAt(n)' /\ \A p \in Nodes, m \in Memories : BeliefAt(n, p, m)'
    <2>1. MailAt(n)'
        BY <1>5, <1>6 DEF Beliefs, MailAt
    <2>2. \A p \in Nodes, m \in Memories : Knows(n, p, m)' <=> Knows(n, p, m)
        BY <1>6 DEF Knows
    <2>3. ASSUME NEW p \in Nodes, NEW m \in Memories PROVE BeliefAt(n, p, m)'
        BY <1>5, <1>6, <2>2 DEF Beliefs, BeliefAt
    <2> QED
        BY <2>1, <2>3
<1>8. MailAt(k)'
    <2>1. peerDigests'[k][k] = {}
        BY <1>3, <1>6 DEF Beliefs, MailAt
    <2> QED
        BY <1>0, <1>1, <1>2, <1>5, <1>6, <2>1 DEF MailAt
<1>9. ASSUME NEW p \in Nodes, NEW m \in Memories PROVE BeliefAt(k, p, m)'
    <2>0. BeliefAt(k, p, m)
        BY DEF Beliefs
    <2>1. CASE p = msg.from
        <3>1. Knows(k, p, m)' <=> Names(q, p, m)
            BY <1>2, <1>6, <2>1 DEF Knows, Ids
        <3>2. ~ From(syncInbox'[k], p) /\ ~ Names(syncInbox'[k], p, m)
            BY <1>2, <1>6, <2>1
        <3> QED
            BY <1>5, <2>0, <3>1, <3>2 DEF BeliefAt, q
    <2>2. CASE p # msg.from
        <3>1. Knows(k, p, m)' <=> Knows(k, p, m)
            BY <1>6, <2>2 DEF Knows
        <3>2. /\ From(syncInbox'[k], p) <=> From(q, p)
              /\ Names(syncInbox'[k], p, m) <=> Names(q, p, m)
            BY <1>2, <1>6, <2>2
        <3> QED
            BY <1>5, <2>0, <3>1, <3>2 DEF BeliefAt, q
    <2> QED
        BY <2>1, <2>2
<1> QED
    BY <1>7, <1>8, <1>9 DEF Beliefs

\* A process that ends forgets what it believes.
LEMMA ForgetsStep ==
    ASSUME RCore, AEInv, Beliefs, [AENext]_allVars, NEW k \in Nodes, Die(k), ForgetDigests(k)
    PROVE  Beliefs'
<1>1. /\ syncInbox'[k] = <<>> /\ \A p \in Nodes : peerDigests'[k][p] = {}
      /\ \A n \in Nodes \ {k} : /\ syncInbox'[n] = syncInbox[n] /\ peerDigests'[n] = peerDigests[n]
                                /\ up'[n] = up[n]
      /\ unlisted' = unlisted
    BY DEF Die, ForgetDigests, AEInv, RCore, TypeOK
<1>2. ASSUME NEW n \in Nodes \ {k}
      PROVE  MailAt(n)' /\ \A p \in Nodes, m \in Memories : BeliefAt(n, p, m)'
    <2>1. MailAt(n)'
        BY <1>1 DEF Beliefs, MailAt
    <2>2. ASSUME NEW p \in Nodes, NEW m \in Memories PROVE BeliefAt(n, p, m)'
        BY <1>1, QuietBelief DEF Beliefs
    <2> QED
        BY <2>1, <2>2
<1>3. MailAt(k)'
    BY <1>1 DEF MailAt, OneEach, From
<1>4. \A p \in Nodes, m \in Memories : BeliefAt(k, p, m)'
    BY <1>1 DEF BeliefAt, Knows, Names
<1> QED
    BY <1>2, <1>3, <1>4 DEF Beliefs

LEMMA BeliefStep == RCore /\ AEInv /\ Beliefs /\ [AENext]_allVars => Beliefs'
<1> SUFFICES ASSUME RCore, AEInv, Beliefs, [AENext]_allVars PROVE Beliefs'
    OBVIOUS
<1>1. ASSUME NEW k \in Nodes, ListMemories(k) PROVE Beliefs'
    <2>1. UNCHANGED <<syncInbox, unlisted>> => Beliefs'
        BY <1>1, QuietStep DEF ListMemories, vars
    <2> QED
        BY <1>1, <2>1, ListStep
<1>2. ASSUME NEW k \in Nodes, HandleShardSync(k) PROVE Beliefs'
    BY <1>2, TakeStep
<1>3. ASSUME NEW k \in Nodes, NEW p \in Nodes, ComparePeer(k, p) PROVE Beliefs'
    BY <1>3, QuietStep DEF ComparePeer
<1>4. ASSUME NEW k \in Nodes, CrashNode(k) \/ MapRace(k) PROVE Beliefs'
    BY <1>4, ForgetsStep DEF CrashNode, MapRace
<1>5. ASSUME NEW k \in Nodes, NEW m \in Memories, ForgetMemory(k, m) PROVE Beliefs'
    <2>1. UNCHANGED <<syncInbox, peerDigests, up>>
        BY <1>5 DEF ForgetMemory, Forget, nodeVars
    <2>2. \A p \in Nodes : unlisted[p] \subseteq unlisted'[p]
        BY <1>5 DEF ForgetMemory
    <2> QED
        BY <2>1, <2>2, QuietStep
<1>6. CASE ReplicationStep
    <2>1. \A n \in Nodes : up[n] => up'[n]
        BY <1>6 DEF ReplicationStep, StoreStep, RejectStore, SaveMemory, LoseCommit, IndexMemory,
                    PublishStored, HandleMemoryStored, LoopStep, Dequeue, SelectVersion, WriteRow,
                    IndexVector, Restart, nodeVars, RCore, TypeOK
    <2> QED
        BY <1>6, <2>1, QuietStep DEF ReplicationStep, aeVars
<1>7. CASE UNCHANGED allVars
    BY <1>7, QuietStep DEF allVars, vars, aeVars
<1> QED
    BY <1>1, <1>2, <1>3, <1>4, <1>5, <1>6, <1>7 DEF AENext, AEStep

LEMMA BeliefsHold == AESpec => []Beliefs
<1>1. AEInit => Beliefs
    <2> SUFFICES ASSUME AEInit, NEW n \in Nodes
                 PROVE  MailAt(n) /\ \A p \in Nodes, m \in Memories : BeliefAt(n, p, m)
        BY DEF Beliefs
    <2>1. DOMAIN syncInbox[n] = {} /\ syncInbox[n] = <<>> /\ \A p \in Nodes : peerDigests[n][p] = {}
        BY DEF AEInit
    <2> QED
        BY <2>1 DEF MailAt, OneEach, From, BeliefAt, Names, Knows
<1> QED
    BY <1>1, BeliefStep, Combined, PTL DEF AESpec

\* What a node believes a peer to hold the peer holds, or has deleted since its last
\* broadcast, or its next broadcast is on its way: across restarts of either, failing
\* publishes and deletions.
THEOREM DigestsAreTruthful == AESpec => []DigestsTruthful
<1>1. Beliefs => DigestsTruthful
    BY DEF Beliefs, BeliefAt, Held, From, DigestsTruthful
<1> QED
    BY <1>1, BeliefsHold, PTL

\* A broadcast, which replaces the one before it, leaves out no memory that is still
\* there: what a node knows of a peer it keeps until one of the two loses it.
THEOREM KnowledgeLasts == AESpec => KnowledgeIsKept
<1>1. RCore /\ AEInv /\ Beliefs /\ [AENext]_allVars =>
        [\A n, p \in Nodes, m \in Memories :
            Knows(n, p, m) /\ ~ Knows(n, p, m)' => ~ up'[n] \/ ~ HasRow(p, m)]_allVars
    <2> SUFFICES ASSUME RCore, AEInv, Beliefs, AENext, NEW n \in Nodes, NEW p \in Nodes,
                        NEW m \in Memories, Knows(n, p, m), ~ Knows(n, p, m)'
                 PROVE  ~ up'[n] \/ ~ HasRow(p, m)
        OBVIOUS
    <2>1. peerDigests'[n][p] # peerDigests[n][p]
        BY DEF Knows
    <2>2. ASSUME NEW k \in Nodes, HandleShardSync(k) PROVE ~ HasRow(p, m)
        <3> DEFINE q   == syncInbox[n]
                   msg == Head(syncInbox[n])
        <3>1. k = n /\ p = Head(syncInbox[k]).from /\ peerDigests'[n][p] = Head(syncInbox[k]).digests
            BY <2>1, <2>2 DEF HandleShardSync, TakeShardSync, AEInv
        <3>2. q # <<>> /\ q \in Seq(SyncMessage) /\ OneEach(q) /\ BeliefAt(n, p, m)
            BY <2>2, <3>1 DEF HandleShardSync, TakeShardSync, AEInv, Beliefs, MailAt
        <3>3. From(q, p) /\ (Names(q, p, m) <=> m \in Ids(msg.digests))
            BY <3>1, <3>2, MailTaken
        <3>4. m \notin Ids(msg.digests)
            BY <3>1 DEF Knows, Ids
        <3> QED
            BY <3>2, <3>3, <3>4 DEF BeliefAt
    <2>3. ASSUME NEW k \in Nodes, Die(k), ForgetDigests(k) PROVE ~ up'[n]
        <3>1. k = n
            BY <2>1, <2>3 DEF ForgetDigests, AEInv
        <3> QED
            BY <2>3, <3>1 DEF Die, RCore, TypeOK
    <2>4. ASSUME NEW k \in Nodes, ListMemories(k) \/ \E q \in Nodes : ComparePeer(k, q)
          PROVE  FALSE
        BY <2>1, <2>4 DEF ListMemories, ComparePeer
    <2>5. ASSUME NEW k \in Nodes, NEW j \in Memories, ForgetMemory(k, j) PROVE FALSE
        BY <2>1, <2>5 DEF ForgetMemory
    <2> QED
        BY <2>1, <2>2, <2>3, <2>4, <2>5
        DEF AENext, ReplicationStep, AEStep, CrashNode, MapRace, aeVars
<1> QED
    BY <1>1, BeliefsHold, Combined, PTL DEF AESpec, KnowledgeIsKept
=============================================================================
