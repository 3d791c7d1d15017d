\* Four nodes, one more than the replication factor of three; the hashes run
\* through every residue of every list length (1 to 4).
SPECIFICATION Spec
CONSTANTS
    Nodes = {n1, n2, n3, n4}
    ReplicationFactor = 3
    Hashes = {0, 1, 2, 3, 4, 5, 6, 7, 8, 9, 10, 11}
INVARIANTS
    ReplicasDistinct
    SelfFirstDecision
    AllOrNothing
    ShortListOwnsAll
SYMMETRY Symmetry
