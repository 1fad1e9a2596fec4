\* A client pauses, sends a message and resumes.
SPECIFICATION FairSpec
CONSTANTS
    tab = tab
    req = req
    forget = forget
    Sockets = {tab}
    Requests = {}
    Tools = {forget}
    Forget = {forget}
    ToolPolicy <- MCToolPolicy
    MaxIterations = 1
    MaxCalls = 1
    MaxTurns = 1
    MaxFrames = 3
    MaxFaults = 0
PROPERTY ResumeReleases
CHECK_DEADLOCK FALSE
