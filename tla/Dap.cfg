SPECIFICATION FairSpec
CONSTANTS
    Calls = {c1, c2}
    Waits = {w1, w2}
    KindChoices <- CallsOrStops
    Budget <- CallsOrStopsBudget
    c1 = c1
    c2 = c2
    w1 = w1
    w2 = w2
    NoWait = NoWait
    NoCall = NoCall
INVARIANTS
    TypeOK
    Correlated
    SenderNotLost
    NoLeakedEntry
    FramesIntact
    WaiterReachable
    TerminatedSignalled
PROPERTIES
    DeliveredOnce
    KeepsPromise
    RecoveryUnblocksCalls
    RecoveryUnblocksStop
CHECK_DEADLOCK FALSE
