\* Three nodes under fairness, every tick waits for the heartbeats of the last;
\* processes crash and start again.
SPECIFICATION FairSpec
CONSTANTS
    Nodes = {n1, n2, n3}
    TTL = 2
    MaxPending = 1
    Timely = TRUE
    Faults <- CrashOnly
INVARIANTS
    FreshWhenDrained
PROPERTIES
    OneOfTwoKnows
