\* Two memories of one agent, one of which is replicated, and deleted by ageing; the
\* exchange of digests under fairness; processes end at any point, by a crash or by
\* the map race, and a publish may fail.
SPECIFICATION ExchangeSpec
CONSTANTS
    n1 = n1
    n2 = n2
    m1 = m1
    m2 = m2
    Nodes = {n1, n2}
    Stores = {n1, n2}
    Memories = {m1, m2}
    Forgettable = {m2}
    StoreOf <- OwnStore
    EntryNodes <- OwnEntry
    Hash <- OneReplicated
    PeerSets <- AllPeers
    PrincipalOf <- OneAgent
    Faults <- CrashRacePublish
    QueueCapacity = 1
    ReplicationFactor = 3
INVARIANTS
    ReplicasAgree
    
PROPERTIES
    AntiEntropyIsInert
    KnowledgeIsKept
    BeliefsConverge
