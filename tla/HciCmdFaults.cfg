SPECIFICATION FairSpec
CONSTANTS
    Apps = {app}
    Host = host
    NoTask = NoTask
    NoAck = NoAck
    Ops = {"adv"}
    Startup <- MCStartup
    Budget <- MCAnyFault
    MaxQueue = 3
INVARIANT TypeOK
PROPERTY CommandsReturn
