SPECIFICATION FairSpec
CONSTANTS
    Tasks = {t1, t2}
    Conns = {c1, c2}
    CntMod = 4
    MaxStops = 3
    MaxStarts = 2
    MaxConns = 3
    MaxFails = 1
CHECK_DEADLOCK FALSE
INVARIANT CountExact
INVARIANT StopGuarded
PROPERTY ListenersCalled
