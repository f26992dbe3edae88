SPECIFICATION FairSpec
CONSTANTS
    k1 = k1
    k2 = k2
    k3 = k3
    small = small
    big = big
    Keys = {k1, k2}
    Vals = {small, big}
    Absent = Absent
    NoKey = NoKey
    NoReq = NoReq
    Hash <- MCHash
    Pages <- MCPages
    SectorPages = 2
    NumSectors = 2
    VersionMod = 65536
    EnsureSizes = {2}
    TornOutcomes = {"bad"}
    VersionLimit = 3
    MaxCrashes = 2
PROPERTIES BootCompletes RequestsReturn
CHECK_DEADLOCK FALSE
