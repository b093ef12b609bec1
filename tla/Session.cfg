SPECIFICATION Spec
CONSTANTS
    Tools = {t1, t2, t3, t4}
    t1 = t1
    t2 = t2
    t3 = t3
    t4 = t4
    None = None
    KindChoices <- Sessions
    Overlaps <- Careful
INVARIANTS
    TypeOK
    SessionMatchesBackend
PROPERTIES
    OneDebuggerAtATime
CHECK_DEADLOCK FALSE
