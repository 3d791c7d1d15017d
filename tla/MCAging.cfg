\* Two workers on one store under fairness; the metadata of memory 1, which comes
\* first in every batch, is JSON null.  Postgres and Qdrant may fail and the
\* processes crash.
SPECIFICATION FairSpec
CONSTANTS
    Memories = {1, 2}
    Importance <- OneWorthless
    Metadata <- NullOlder
    Workers = {w1, w2}
    BatchSize = 2
    Faults = {"postgres", "qdrant", "crash"}
    w1 = w1
    w2 = w2
INVARIANTS
    VectorExplained
PROPERTIES
    ColdIsArchived
    
