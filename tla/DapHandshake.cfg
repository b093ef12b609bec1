SPECIFICATION FairSpec
CONSTANTS
    Calls = {c1}
    Waits = {w1}
    KindChoices <- OneLaunch
    Budget <- OneLaunchBudget
    c1 = c1
    c2 = c2
    w1 = w1
    w2 = w2
    NoWait = NoWait
    NoCall = NoCall
PROPERTIES
    HandshakeUnblocked
CHECK_DEADLOCK FALSE
