\* A tab and a request on one conversation that may be deleted.
SPECIFICATION FairSpec
CONSTANTS
    tab = tab
    req = req
    forget = forget
    Sockets = {tab}
    Requests = {req}
    Tools = {forget}
    Forget = {forget}
    ToolPolicy <- MCToolPolicy
    MaxIterations = 1
    MaxCalls = 2
    MaxTurns = 2
    MaxFrames = 2
    MaxFaults = 1
INVARIANTS CountFollowsRows TranscriptKeepsTurns EffectsAreTraceable ToolCallsAnswered
PROPERTY TurnEnds
CHECK_DEADLOCK FALSE
