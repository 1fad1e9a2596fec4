\* The replay path with every start and delivery it could be granted.
SPECIFICATION FairSpec
CONSTANTS
    m1 = m1
    m2 = m2
    p1 = p1
    d1 = d1
    None = None
    Memories = {m1}
    RestMemories = {}
    Blank = {}
    Publishers = {p1}
    Drains = {}
    MaxStamp = 1
    MaxAttempts = 2
    MaxCopies = 2
    MaxCrashes = 0
    AsyncUnsafeAllowed = FALSE
    Faults = {}
PROPERTY AcceptedIsSettled
CHECK_DEADLOCK FALSE
