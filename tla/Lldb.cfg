SPECIFICATION FairSpec
CONSTANTS
    th1 = th1
    th2 = th2
    None = None
    Calls <- MCCalls
    PlanChoices <- MCPlans
    Threads = {th1}
    StackDepth = 2
    Sizes = {1, 2, 3}
    MaxSize = 2
    Cap = 3
    Trees <- MCTrees
    Depths = {0, 2}
    Filters = {{1, 2}, {2}}
INVARIANTS
    TypeOK
    NoMissedStop
    StoppedHolds
    ChildGone
    VariablesInOrder
PROPERTIES
    LaunchReturns
    PauseEndsResume
    LossEndsCalls
    OutputIsBoundedLog
CHECK_DEADLOCK FALSE
