\* Two nodes under fairness; graceful restarts.
SPECIFICATION FairSpec
CONSTANTS
    Nodes = {n1, n2}
    TTL = 2
    MaxPending = 1
    Timely = TRUE
    Faults <- StopOnly
PROPERTIES
    OneOfTwoKnows
