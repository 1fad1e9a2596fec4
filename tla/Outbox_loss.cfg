\* A REST memory, both drains and the replicator, one crash; one dead-letter
\* store may be down.
SPECIFICATION Spec
CONSTANTS
    m1 = m1
    m2 = m2
    p1 = p1
    d1 = d1
    None = None
    Memories = {m1}
    RestMemories = {m1}
    Blank = {}
    Publishers = {p1}
    Drains = {d1}
    MaxStamp = 1
    MaxAttempts = 2
    MaxCopies = 1
    MaxCrashes = 1
    AsyncUnsafeAllowed = TRUE
    Faults = {"acceptError", "dlqTopicDown"}
INVARIANTS ZeroLoss DurableBeforeHop RestFailsClosed
PROPERTIES OutboxKeepsPromise NoSilentConsume
CHECK_DEADLOCK FALSE
