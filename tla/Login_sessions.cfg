\* Two people logging in, two requests and an operator.
SPECIFICATION FairSpec
CONSTANTS
    a1 = a1
    a2 = a2
    r1 = r1
    r2 = r2
    Attempts = {a1, a2}
    Requests = {r1, r2}
    LockWindows <- MCLockWindows
    MaxSoftWindow = 3
    HardLockAt = 2
    IdleTimeout = 1
    AbsoluteTimeout = 1
    LastLogin = 1
    MaxNow = 3
    MaxWrong = 3
INVARIANTS TypeOK LockIsEarned SessionIsAudited RefusedStaysDead
PROPERTY SessionsDie
CHECK_DEADLOCK FALSE
