SPECIFICATION Spec
CONSTANTS
    Tools = {t1, t2, t3}
    t1 = t1
    t2 = t2
    t3 = t3
    t4 = t4
    None = None
    KindChoices <- OneSession
    Overlaps <- DisconnectDuringResume
INVARIANTS
    ResetStaysIdle
CHECK_DEADLOCK FALSE
