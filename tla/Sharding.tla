------------------------------ MODULE Sharding ------------------------------
(***************************************************************************)
(* Shard placement: src/internal/fabric/sharding.go.                       *)
(*                                                                         *)
(* A memory's shard key is tenant:agent:memory, its hash selects a start   *)
(* position in a LIST of nodes and the ReplicationFactor nodes from there  *)
(* on, cyclically, hold it; the first of them is the primary.  The list is *)
(* an argument: every caller passes its own GetActiveNodes(), which puts   *)
(* the local node first and the others in the order of a Go map iteration. *)
(* The lists that call can return are defined here too, because placement  *)
(* means nothing without them.                                             *)
(*                                                                         *)
(* Abstraction: a hash is a natural number (the code's uint32); FNV-1a     *)
(* itself is not modelled, a memory's hash is a parameter of the modules   *)
(* that use this one.                                                      *)
(***************************************************************************)
EXTENDS Naturals, Sequences, FiniteSets

CONSTANT ReplicationFactor    \* NewShardingStrategy(3)

ASSUME ReplicationFactorAssumption == ReplicationFactor \in Nat \ {0}

\* ComputeShardKey: the three parts, kept apart as a tuple.
ComputeShardKey(tenant, agent, memory) == <<tenant, agent, memory>>

\* Mutants of ReplicaCount: the loop bound without the length of the list, and
\* with one replica less.
ReplicaCountUnbounded(nodes) == ReplicationFactor
ReplicaCountLess(nodes) ==
    IF ReplicationFactor < Len(nodes) THEN ReplicationFactor - 1 ELSE Len(nodes) - 1

\* The number of replicas a list of nodes provides (the bound of the loop in
\* GetReplicaNodes).
ReplicaCount(nodes) ==
    IF ReplicationFactor < Len(nodes) THEN ReplicationFactor ELSE Len(nodes)

\* The index, counted from 0 as in the code, of the i-th replica (i from 0).
ReplicaIndex(hash, len, i) == ((hash % len) + i) % len

\* GetReplicaNodes.  ReplicaCount is 0 for an empty list: no index is taken.
GetReplicaNodes(hash, nodes) ==
    [i \in 1 .. ReplicaCount(nodes) |->
        nodes[ReplicaIndex(hash, Len(nodes), i - 1) + 1]]

IsShardOwner(node, hash, nodes) ==
    \E i \in 1 .. ReplicaCount(nodes) : GetReplicaNodes(hash, nodes)[i] = node

\* IsPrimaryOwner, and GetPrimaryNode compared with a node: the first replica.
IsPrimaryOwner(node, hash, nodes) ==
    /\ ReplicaCount(nodes) > 0
    /\ GetReplicaNodes(hash, nodes)[1] = node

\* Mutants of AppliesEvent: the primary is not skipped; only it applies.
AppliesEventWhenOwner(node, hash, nodes)   == IsShardOwner(node, hash, nodes)
AppliesEventWhenPrimary(node, hash, nodes) == IsPrimaryOwner(node, hash, nodes)

\* The test at the head of applyReplication: a node stores an event it
\* receives when it is an owner and not the primary, in its own list.
AppliesEvent(node, hash, nodes) ==
    /\ IsShardOwner(node, hash, nodes)
    /\ ~ IsPrimaryOwner(node, hash, nodes)

\* Mutant of Views: the local node at any position.
ViewsInAnyOrder(node, S) ==
    {v \in [1 .. Cardinality(S) -> S] :
        \A i, j \in 1 .. Cardinality(S) : v[i] = v[j] => i = j}

\* The lists GetActiveNodes can return on a node when it deems the nodes of S
\* (which contains the node itself) active: the node first, then the others,
\* once each, in any order.
Views(node, S) ==
    {v \in [1 .. Cardinality(S) -> S] :
        /\ v[1] = node
        /\ \A i, j \in 1 .. Cardinality(S) : v[i] = v[j] => i = j}
=============================================================================
