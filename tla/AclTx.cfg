SPECIFICATION FairSpec
CONSTANTS
    Handles = {1, 2}
    MaxPkts = 2
    MaxFrags = 3
    MaxSends = 2
    MaxEvents = 2
    MaxFaults = 1
INVARIANT CreditsConserved
INVARIANT NeverOverrun
INVARIANT WireWellFormed
PROPERTY QueuesDrain
