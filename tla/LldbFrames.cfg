SPECIFICATION Spec
CONSTANTS
    th1 = th1
    th2 = th2
    None = None
    Calls <- MCCalls
    PlanChoices <- MCFramePlans
    Threads = {th1, th2}
    StackDepth = 1
    Sizes = {1}
    MaxSize = 3
    Cap = 3
    Trees <- MCTrees
    Depths = {0}
    Filters = {{1, 2}}
INVARIANT
    FramesOfTheStop
CHECK_DEADLOCK FALSE
