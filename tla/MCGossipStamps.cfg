\* Two nodes under fairness; messages delayed, reordered and lost, processes
\* ending.
SPECIFICATION FairSpec
CONSTANTS
    Nodes = {n1, n2}
    TTL = 2
    MaxPending = 2
    Timely = FALSE
    Faults <- AnyFault
INVARIANTS
    ActiveMeansRecent
PROPERTIES
    DeadIsDropped
