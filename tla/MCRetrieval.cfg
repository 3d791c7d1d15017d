\* Two memories that contradict each other, stored, compared, lowered and
\* deleted while one caller retrieves through a cache with room for one.
SPECIFICATION RetrievalSpec
CONSTANTS
    Memories = {1, 2}
    Importance <- Tenths
    Rivals <- AllContradict
    Orders <- InOrder
    Depth = 2
    RelatedLimit = 20
    Callers = {1}
    Capacity = 1
    TTL = 1
    MaxFill = 0
INVARIANTS
    RetrievalTypeOK
    FreshnessWins
    LossIsBounded
PROPERTIES
    ReadsAreBoundedlyStale
