\* A chat memory beside a blank REST one, and every fault of the environment.
SPECIFICATION Spec
CONSTANTS
    m1 = m1
    m2 = m2
    p1 = p1
    d1 = d1
    None = None
    Memories = {m1, m2}
    RestMemories = {m2}
    Blank = {m2}
    Publishers = {p1}
    Drains = {d1}
    MaxStamp = 0
    MaxAttempts = 1
    MaxCopies = 1
    MaxCrashes = 1
    AsyncUnsafeAllowed = TRUE
    Faults = {"soft2xx", "dlqTopicDown", "dlqStoreDown", "acceptError", "freshGroup"}
INVARIANTS TypeOK BlankIsNotReplayed
CHECK_DEADLOCK FALSE
