SPECIFICATION FairSpec
CONSTANTS
    k1 = k1
    k2 = k2
    bad = bad
    file = file
    fn = fn
    NoId = NoId
    Unreported = Unreported
    Ids = {0, 1, 2, 3, 4}
    Locations <- MCLocations
    BreakPolls = 1
    Calls <- MCCalls
    PlanChoices <- MCPausePlans
    Groups <- MCGroups
    Keys <- MCKeys
    Conditional = {k1}
    Rejected = {bad}
    CmdBuffer = 1
    MaxOutput = 1
    Careful = TRUE
PROPERTIES
    InterruptSeen
CHECK_DEADLOCK FALSE
