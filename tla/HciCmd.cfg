SPECIFICATION FairSpec
CONSTANTS
    Apps = {app1, app2}
    Host = host
    NoTask = NoTask
    NoAck = NoAck
    Ops = {"adv"}
    Startup <- MCStartup
    Budget <- MCTolerated
    MaxQueue = 2
INVARIANT AnswersMatch
INVARIANT StartupUndisturbed
PROPERTY AckSlotFree
PROPERTY CommandsReturn
PROPERTY Resyncs
