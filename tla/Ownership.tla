----------------------------- MODULE Ownership ------------------------------
(***************************************************************************)
(* Who owns a shard, as the nodes of a cluster see it.  Each node calls    *)
(* GetActiveNodes (src/internal/fabric/gossip.go) whenever it needs the    *)
(* membership and passes the list it got to the functions of Sharding;     *)
(* nothing is agreed between nodes.  The state is the last list each node  *)
(* obtained, and the only step is another call.                            *)
(***************************************************************************)
EXTENDS Sharding

CONSTANTS Nodes,     \* node ids
          Hashes     \* the shard hashes considered

ASSUME OwnershipAssumption ==
    /\ IsFiniteSet(Nodes) /\ Nodes # {}
    /\ Hashes \subseteq Nat

VARIABLE view        \* view[n]: the list n's last call of GetActiveNodes returned

\* A node that has heard of nobody sees itself alone.
Init == view = [n \in Nodes |-> <<n>>]

\* GetActiveNodes on node n: any set of peers whose heartbeats are recent, in
\* any order, after the local node.
GetActiveNodes(n) ==
    \E peers \in SUBSET (Nodes \ {n}) :
        \E v \in Views(n, peers \cup {n}) : view' = [view EXCEPT ![n] = v]

Next == \E n \in Nodes : GetActiveNodes(n)

Spec == Init /\ [][Next]_view

-----------------------------------------------------------------------------
(* What the nodes decide. *)

Owners(hash)   == {n \in Nodes : IsShardOwner(n, hash, view[n])}
Primaries(hash) == {n \in Nodes : IsPrimaryOwner(n, hash, view[n])}
Appliers(hash) == {n \in Nodes : AppliesEvent(n, hash, view[n])}

\* Every node's list holds every node: the cluster has converged.
Converged == \A n \in Nodes : Len(view[n]) = Cardinality(Nodes)

TypeOK ==
    /\ DOMAIN view = Nodes
    /\ \A n \in Nodes :
        \E S \in SUBSET Nodes : n \in S /\ view[n] \in Views(n, S)

\* The replicas of a shard are distinct nodes, as many as the replication
\* factor and the list allow (the cyclic index of GetReplicaNodes never meets
\* itself).
ReplicasDistinct ==
    \A n \in Nodes, hash \in Hashes :
        LET r == GetReplicaNodes(hash, view[n])
        IN  /\ Len(r) = ReplicaCount(view[n])
            /\ \A i, j \in DOMAIN r : r[i] = r[j] => i = j

\* A node decides from the hash and the LENGTH of its list alone, because it
\* always stands first in it: it is its own primary when the hash is a multiple
\* of the length, and stores a replicated event only when the window that
\* starts elsewhere wraps around to position 0.
SelfFirstDecision ==
    \A n \in Nodes, hash \in Hashes :
        LET start == hash % Len(view[n])
        IN  /\ n \in Primaries(hash) <=> start = 0
            /\ n \in Appliers(hash)
                 <=> start # 0 /\ start + ReplicationFactor > Len(view[n])

\* So in a converged cluster the decision is the same on every node: an event
\* is stored by all of them or by none (src/internal/fabric/replication.go:
\* 101-110), whatever the replication factor says.
AllOrNothing ==
    Converged => \A hash \in Hashes : Appliers(hash) \in {{}, Nodes}

\* A list no longer than the replication factor leaves nobody out: every listed
\* node is a replica of every shard, whatever the hash.
ShortListOwnsAll ==
    \A n \in Nodes, hash \in Hashes :
        Len(view[n]) <= ReplicationFactor =>
            \A i \in DOMAIN view[n] : IsShardOwner(view[n][i], hash, view[n])
=============================================================================
