\* Two nodes with a store each, everything may fail, every node sees every
\* other; a channel of one event fills up.
SPECIFICATION FairSpec
CONSTANTS
    n1 = n1
    n2 = n2
    m1 = m1
    m2 = m2
    Nodes = {n1, n2}
    Stores = {n1, n2}
    Memories = {m1, m2}
    StoreOf <- OwnStore
    EntryNodes <- AnyEntry
    Hash <- TwoHashes
    PeerSets <- AllPeers
    Faults <- Fault
    QueueCapacity = 1
    ReplicationFactor = 3
INVARIANTS
    TypeOK
    EventsBackedByRow
    UnindexedRowExplained
    WritersStoreIsLeftAlone
PROPERTIES
    CopiesAreKept
    NoEventVanishes
    DeliveredIsStored
