\* A reflection worker and a consolidator, four memories of two agents, the oldest
\* stored without metadata; everything may fail, under fairness.
SPECIFICATION FairSpec
CONSTANTS
    w1 = w1
    w2 = w2
    a = a
    b = b
    t = t
    Memories = {1, 2, 3, 4}
    TenantOf <- OneTenant
    AgentOf <- TwoAgents
    Importance <- Important
    Metadata <- OldestNull
    Workers = {w1, w2}
    Kind <- Both
    BatchSize = 4
    Faults = {"postgres", "embedder", "crash"}
INVARIANTS
    MarkedIsSummarised
    SummaryIsMarked
PROPERTIES
    PairIsReflected
