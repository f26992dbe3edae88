SPECIFICATION FairSpec
CONSTANTS
    Tasks = {host, app}
    Peers = {p1, p2}
    Edivs = {1, 2}
    Handles = {1}
    Data = {d1}
    NoPeer = NoPeer
    AnyPeer = AnyPeer
    NoRec = NoRec
    NoTask = NoTask
    NoJob = NoJob
    MaxBonds = 2
    MaxCccds = 1
    MaxJobs = 3
    MaxCrashes = 1
    MaxFailures = 1
INVARIANTS
    LoadsOnlyWritten
    SurvivesCrash
    AckMeansDurable
PROPERTIES
    UnpairForgets
    JobsEnd
CHECK_DEADLOCK FALSE
