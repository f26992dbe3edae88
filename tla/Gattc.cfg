SPECIFICATION FairSpec
CONSTANTS
    Procs = {x1, x2}
    Conns = {c1}
    Apps = {a1, a2}
    NoProc = NoProc
    MaxCalls = 3
    MaxMore = 2
    MaxNoMem = 2
    MaxLinks = 2
CHECK_DEADLOCK FALSE
INVARIANT FinalOnce
INVARIANT NoProcLost
PROPERTY ProceduresEnd
