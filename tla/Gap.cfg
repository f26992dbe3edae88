SPECIFICATION FairSpec
CONSTANTS
    Apps = {app}
    Host = host
    NoTask = NoTask
    MaxCalls = 3
    MaxConns = 2
    MaxFaults = 1
INVARIANTS
    FinalOnce
    Agreement
    TimerOwned
PROPERTIES
    ProcsEnd
    PreemptionEnds
CHECK_DEADLOCK FALSE
