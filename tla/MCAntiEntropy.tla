--------------------------- MODULE MCAntiEntropy ----------------------------
(* Instances of AntiEntropy for TLC.                                       *)
EXTENDS AntiEntropy

CONSTANTS n1, n2, m1, m2

\* Every node with its own Postgres and Qdrant; the nodes name their stores.
OwnStore == [n \in Nodes |-> n]

\* Gossip reports all nodes.
AllPeers == {Nodes}

\* Each memory has a client with a node of its own.
OwnEntry == [m \in Memories |-> IF m = m1 THEN {n1} ELSE {n2}]

\* In a cluster of two, the first memory is replicated nowhere, the second is.
OneReplicated == [m \in Memories |-> IF m = m1 THEN 0 ELSE 1]

\* All memories are of one agent.
OneAgent == [m \in Memories |-> <<"tenant", "agent">>]

CrashRacePublish == {"crash", "race", "publish"}
CrashOnly        == {"crash"}
=============================================================================
