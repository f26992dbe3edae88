SPECIFICATION FairSpec
CONSTANTS
    Peers = {p1}
    NumChars = 2
    Allowed <- MCAllowed
    Apps = {app}
    NoPeer = NoPeer
    NoRec = NoRec
    MaxUpdates = 2
    MaxWrites = 2
    MaxLinks = 2
    MaxFails = 1
    MaxErrors = 1
CHECK_DEADLOCK FALSE
INVARIANT OneIndication
INVARIANT SubscriptionKept
INVARIANT ChangesKept
PROPERTY UpdatesSent
