---------------------------- MODULE AntiEntropy -----------------------------
(***************************************************************************)
(* Anti-entropy, composed with replication:                                *)
(*   src/internal/fabric/antientropy.go (AntiEntropyManager),              *)
(*   src/internal/storage/postgres.go (ListAllMemoriesForAntiEntropy),     *)
(* and with the deletions of ageing, the only ones of the system:          *)
(*   src/internal/core/aging.go (processDeletions).                        *)
(*                                                                         *)
(* Every node periodically lists the memories of its Postgres, groups them *)
(* by shard key, publishes one digest per group (ShardSync on NATS) and    *)
(* compares its own digests with the last ones each peer sent.  Where the  *)
(* checksums of a shard differ it publishes MemoryStored again for its own *)
(* memories of that shard; the replication path of Replication takes them. *)
(*                                                                         *)
(* Abstraction: a checksum (MD5 of the sorted ids) is the set of ids, so   *)
(* collisions are left out; the Merkle root is left out because it is sent *)
(* and never compared; a node's own broadcast, which comes back to it and  *)
(* is dropped there, is not delivered to it.  The five minutes between two *)
(* cycles of a node are longer than NATS takes to deliver: a node lists    *)
(* again only when its previous digests have been handled (Delivered).  A  *)
(* memory is deleted when nobody has retrieved it for 90 days: long after  *)
(* its Store call and its event have come to their end (Settled).          *)
(***************************************************************************)
EXTENDS Replication, SequencesExt

CONSTANTS
    PrincipalOf,      \* PrincipalOf[m]: tenant and agent of memory m
    Forgettable       \* the memories unimportant enough for ageing to delete them

ASSUME ForgettableAssumption == Forgettable \subseteq Memories

\* Where a data race may end a process, so may anything else.
ASSUME RaceAssumption == "race" \in Faults => "crash" \in Faults

VARIABLES
    syncInbox,     \* syncInbox[n]: ShardSync messages NATS holds for n
    peerDigests,   \* peerDigests[n][p]: digests last received from p, {} if none
    cycle,         \* cycle[n]: where runCycle of n stands
    republished,   \* memories repairShard was called with (history)
    unlisted       \* unlisted[p]: memories deleted from the Postgres of p since its
                   \* digests last reached NATS (history)

aeVars  == <<syncInbox, peerDigests, cycle, republished, unlisted>>
allVars == <<vars, aeVars>>

\* Mutant of ShardKey: a shard per agent.
ShardKeyOfAgent(m) == <<PrincipalOf[m][1], PrincipalOf[m][2]>>

ShardKey(m) == ComputeShardKey(PrincipalOf[m][1], PrincipalOf[m][2], m)

\* The digests of a set of memories: one per shard key (step 2 of runCycle).
Digests(S) ==
    {[key |-> k, ids |-> {m \in S : ShardKey(m) = k}] : k \in {ShardKey(m) : m \in S}}

NoCycle == [stage |-> "idle"]

\* Where a cycle stands: the local digests are still to be compared with those of
\* the peers in todo.  With the last one it ends.
CycleAt(local, todo) ==
    IF todo = {} THEN NoCycle ELSE [stage |-> "comparing", local |-> local, todo |-> todo]

AEInit ==
    /\ Init
    /\ syncInbox = [n \in Nodes |-> <<>>]
    /\ peerDigests = [n \in Nodes |-> [p \in Nodes |-> {}]]
    /\ cycle = [n \in Nodes |-> NoCycle]
    /\ republished = {}
    /\ unlisted = [n \in Nodes |-> {}]

Delivered(n) == \A p \in Nodes : \A i \in DOMAIN syncInbox[p] : syncInbox[p][i].from # n

\* Mutant of LocalMemories: the query has a LIMIT, of one row.
LocalMemoriesLimited(n) ==
    LET local == {m \in Memories : HasRow(n, m)}
    IN  IF local = {} THEN {} ELSE {CHOOSE m \in local : TRUE}

\* ListAllMemoriesForAntiEntropy: what the Postgres of n holds.
LocalMemories(n) == {m \in Memories : HasRow(n, m)}

\* runCycle up to the publication of the digests.  An error of the query ends
\* the cycle and leaves everything as it was; an error of the publish is logged.
ListMemories(n) ==
    /\ up[n] /\ cycle[n] = NoCycle /\ Delivered(n)
    /\ LET local == Digests(LocalMemories(n))
       IN  /\ \/ /\ syncInbox' = [p \in Nodes |->
                       IF up[p] /\ p # n
                       THEN Append(syncInbox[p], [from |-> n, digests |-> local])
                       ELSE syncInbox[p]]
                 /\ unlisted' = [unlisted EXCEPT ![n] = {}]
              \/ "publish" \in Faults /\ UNCHANGED <<syncInbox, unlisted>>
           /\ cycle' = [cycle EXCEPT ![n] =
                CycleAt(local, {p \in Nodes : peerDigests[n][p] # {}})]
    /\ UNCHANGED <<vars, peerDigests, republished>>

\* The first ShardSync of node n is taken; what it says of a peer leaves n with
\* the digests in news.
TakeShardSync(n, news) ==
    /\ up[n] /\ syncInbox[n] # <<>>
    /\ peerDigests' = [peerDigests EXCEPT ![n][Head(syncInbox[n]).from] = news]
    /\ syncInbox' = [syncInbox EXCEPT ![n] = Tail(@)]
    /\ UNCHANGED <<vars, cycle, republished, unlisted>>

\* Mutants of HandleShardSync: digests are added to those that are known; a
\* message without digests changes nothing.
HandleShardSyncAdded(n) ==
    TakeShardSync(n, peerDigests[n][Head(syncInbox[n]).from] \cup Head(syncInbox[n]).digests)

HandleShardSyncNonEmpty(n) ==
    TakeShardSync(n, IF Head(syncInbox[n]).digests = {}
                     THEN peerDigests[n][Head(syncInbox[n]).from] ELSE Head(syncInbox[n]).digests)

\* SubscribeToShardSync: the last digests of a peer replace the previous ones.
HandleShardSync(n) == TakeShardSync(n, Head(syncInbox[n]).digests)

\* The local memories of every shard both digests name with other ids.  A shard
\* only the peer has is logged and passed over.
Divergent(local, remote) ==
    UNION {l.ids : l \in {d \in local :
        \E r \in remote : r.key = d.key /\ r.ids # d.ids}}

\* repairShard: the event is built from the record of the listing, which has no
\* content.
RepairEvent(m) == [memory |-> m, version |-> InitialVersion, content |-> "blank"]

\* One round of the loop over peerDigests; a publish that fails is logged and the
\* next memory is tried.
ComparePeer(n, p) ==
    /\ up[n] /\ cycle[n] # NoCycle /\ p \in cycle[n].todo
    /\ LET repair == Divergent(cycle[n].local, peerDigests[n][p])
       IN  \E sent \in IF "publish" \in Faults THEN SUBSET repair ELSE {repair} :
             LET order  == SetToSeq(sent)
                 events == [i \in DOMAIN order |-> RepairEvent(order[i])]
             IN  /\ inbox' = [q \in Nodes |-> IF up[q] THEN inbox[q] \o events ELSE inbox[q]]
                 /\ republished' = republished \cup repair
    /\ cycle' = [cycle EXCEPT ![n] = CycleAt(cycle[n].local, cycle[n].todo \ {p})]
    /\ UNCHANGED <<up, request, queue, loop, dataVars, lost, dlq, syncInbox, peerDigests, unlisted>>

\* What a process forgets when it ends.
ForgetDigests(n) ==
    /\ syncInbox' = [syncInbox EXCEPT ![n] = <<>>]
    /\ peerDigests' = [peerDigests EXCEPT ![n] = [p \in Nodes |-> {}]]
    /\ cycle' = [cycle EXCEPT ![n] = NoCycle]
    /\ UNCHANGED <<republished, unlisted>>

CrashNode(n) == "crash" \in Faults /\ Die(n) /\ ForgetDigests(n)

\* runCycle iterates peerDigests without its mutex: a ShardSync handled
\* meanwhile is a concurrent map iteration and map write, on which the Go
\* runtime may end the process.  (That it may also go unnoticed is
\* HandleShardSync.)  Instances without the fault "race" are those where it
\* always goes unnoticed.
MapRace(n) ==
    /\ "race" \in Faults
    /\ cycle[n] # NoCycle
    /\ syncInbox[n] # <<>>
    /\ Die(n) /\ ForgetDigests(n)

\* Nobody is storing or replicating m any more.
Settled(m) ==
    /\ request[m].stage \notin {"new", "saved", "indexed"}
    /\ \A n \in Nodes : ~ EventAt(n, m)

\* The ageing worker of node n deletes m from its Qdrant and its Postgres; an error
\* of the first is passed over.  (Aging has the worker statement by statement.)
Forget(n, m) ==
    /\ up[n] /\ m \in Forgettable /\ HasRow(n, m) /\ Settled(m)
    /\ row' = [row EXCEPT ![StoreOf[n]][m] = NoRow]
    /\ \/ vector' = [vector EXCEPT ![StoreOf[n]] = @ \ {m}]
       \/ "qdrant" \in Faults /\ UNCHANGED vector
    /\ UNCHANGED <<nodeVars, request, lost, dlq>>

\* Nobody tells the peers.
ForgetMemory(n, m) ==
    /\ Forget(n, m)
    /\ unlisted' = [p \in Nodes |->
          IF StoreOf[p] = StoreOf[n] THEN unlisted[p] \cup {m} ELSE unlisted[p]]
    /\ UNCHANGED <<syncInbox, peerDigests, cycle, republished>>

AEStep(n) ==
    \/ ListMemories(n) \/ HandleShardSync(n)
    \/ \E p \in Nodes : ComparePeer(n, p)

ReplicationStep ==
    /\ \/ \E n \in Nodes, m \in Memories : StoreStep(n, m)
       \/ \E n \in Nodes : HandleMemoryStored(n) \/ LoopStep(n) \/ Restart(n)
    /\ UNCHANGED aeVars

AENext ==
    \/ ReplicationStep
    \/ \E n \in Nodes : AEStep(n) \/ CrashNode(n) \/ MapRace(n)
    \/ \E n \in Nodes, m \in Memories : ForgetMemory(n, m)

AESpec == AEInit /\ [][AENext]_allVars

\* The digests of a cycle reach NATS.
SendDigests(n) ==
    ListMemories(n) /\ \A p \in Nodes \ {n} : up[p] => syncInbox'[p] # syncInbox[p]

\* The ticker starts a cycle again and again, a cycle ends, NATS delivers, and not
\* every publish of a node fails.
ExchangeFairness ==
    \A n \in Nodes :
        /\ SF_allVars(SendDigests(n))
        /\ WF_allVars(HandleShardSync(n))
        /\ WF_allVars(\E p \in Nodes : ComparePeer(n, p))

\* The replication path as in Replication.
ReplicationFairness ==
    /\ \A n \in Nodes :
          /\ WF_allVars(HandleMemoryStored(n) /\ UNCHANGED aeVars)
          /\ WF_allVars(LoopStep(n) /\ UNCHANGED aeVars)
    /\ \A n \in Nodes, m \in Memories :
          /\ WF_allVars(IndexMemory(n, m) /\ UNCHANGED aeVars)
          /\ WF_allVars(PublishStored(n, m) /\ UNCHANGED aeVars)

ExchangeSpec == AESpec /\ ExchangeFairness
FairAESpec   == ExchangeSpec /\ ReplicationFairness
-----------------------------------------------------------------------------
(* Properties. *)

Digest == {d \in [key : {ShardKey(m) : m \in Memories}, ids : SUBSET Memories] : d.ids # {}}

AETypeOK ==
    /\ TypeOK
    /\ \A n \in Nodes : \A i \in DOMAIN syncInbox[n] :
          syncInbox[n][i].from \in Nodes /\ syncInbox[n][i].digests \subseteq Digest
    /\ peerDigests \in [Nodes -> [Nodes -> SUBSET Digest]]
    /\ \A n \in Nodes : cycle[n] # NoCycle =>
          cycle[n].local \subseteq Digest /\ cycle[n].todo \subseteq Nodes
    /\ republished \subseteq Memories
    /\ unlisted \in [Nodes -> SUBSET Memories]

\* Two stores that hold a memory hold the same version and content of it: a
\* replica is never a record without its text.
ReplicasAgree ==
    \A s, t \in Stores, m \in Memories :
        row[s][m] # NoRow /\ row[t][m] # NoRow =>
            /\ row[s][m].version = row[t][m].version
            /\ row[s][m].content = row[t][m].content

\* Anti-entropy has no effect on what replication stores: every step of a cluster
\* with it is one of Replication alone, or a deletion by ageing.  In particular
\* none of its comparisons publishes a memory again (repairShard would do so
\* without content and embedding).
AntiEntropyIsInert ==
    Init /\ [][Next \/ \E n \in Nodes, m \in Memories : Forget(n, m)]_vars

Knows(n, p, m) == \E d \in peerDigests[n][p] : m \in d.ids

\* What a node believes a peer holds, the peer holds, or has deleted since its
\* digests last reached NATS, or newer digests of it are on their way to the node:
\* a belief is never older than the last broadcast, across restarts of either.
DigestsTruthful ==
    \A n, p \in Nodes, m \in Memories : Knows(n, p, m) =>
        \/ HasRow(p, m) \/ m \in unlisted[p]
        \/ \E i \in DOMAIN syncInbox[n] : syncInbox[n][i].from = p

\* A node unlearns what it knows of a peer only when it stops, or when the peer no
\* longer holds it: no broadcast leaves out a memory that is there.
KnowledgeIsKept ==
    [][\A n, p \in Nodes, m \in Memories :
          Knows(n, p, m) /\ ~ Knows(n, p, m)' => ~ up'[n] \/ ~ HasRow(p, m)]_allVars

\* The exchange of digests itself works, in both directions: when two nodes no longer
\* stop, then in the end what one believes the other to hold is what it holds, rows
\* missed for whatever reason and deleted ones included.  (Of a peer that is gone a
\* node believes for ever what it last heard.)
BeliefsConverge ==
    \A n, p \in Nodes : n # p =>
        (<>[](up[n] /\ up[p]) => <>[](\A m \in Memories : Knows(n, p, m) = HasRow(p, m)))

\* "For divergent shards, re-publish MEMORY_STORED events to trigger replication"
\* (antientropy.go:54): a memory that p holds and that n has to store and does not
\* have gets to n, as long as neither stops.
DivergenceIsRepaired ==
    \A n, p \in Nodes, m \in Memories \ Forgettable :
        Wanted(n, m) /\ HasRow(p, m) /\ ~ HasRow(n, m)
            ~> HasRow(n, m) \/ ~ up[n] \/ ~ up[p]

=============================================================================
