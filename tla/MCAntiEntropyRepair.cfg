\* One memory that every node but its writer has to store; processes crash.
SPECIFICATION FairAESpec
CONSTANTS
    n1 = n1
    n2 = n2
    m1 = m1
    m2 = m2
    Nodes = {n1, n2}
    Stores = {n1, n2}
    Memories = {m2}
    Forgettable = {}
    StoreOf <- OwnStore
    EntryNodes <- OwnEntry
    Hash <- OneReplicated
    PeerSets <- AllPeers
    PrincipalOf <- OneAgent
    Faults <- CrashOnly
    QueueCapacity = 1
    ReplicationFactor = 3
PROPERTIES
    DivergenceIsRepaired
