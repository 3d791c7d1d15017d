--------------------------- MODULE MCReplication ----------------------------
(* Instances of Replication for TLC. *)
EXTENDS Replication, TLC

CONSTANTS n1, n2, m1, m2

\* Every node with its own Postgres and Qdrant; the nodes name their stores.
OwnStore == [n \in Nodes |-> n]

\* Every client may call every node.
AnyEntry == [m \in Memories |-> Nodes]

\* Gossip always reports all nodes.
AllPeers == {Nodes}

\* m1 is replicated by a cluster of two or three nodes; m2 hashes to the first
\* position of the list.
TwoHashes == (m1 :> 1) @@ (m2 :> 6)

Fault == {"postgres", "qdrant", "publish", "crash"}
=============================================================================
