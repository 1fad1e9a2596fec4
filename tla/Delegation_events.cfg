\* A task, two overlapping drains, a callback and faults enough to use up
\* the attempts.
SPECIFICATION Spec
CONSTANTS
    t1 = t1
    c1 = c1
    d1 = d1
    d2 = d2
    Tasks = {t1}
    Callbacks = {c1}
    Drains = {d1, d2}
    MaxAttempts = 2
    MaxFailures = 2
    MaxLog = 3
    MaxFaults = 4
INVARIANTS OnlyErrorsStrand BuriedIsTried NothingHandled
PROPERTIES PublisherKeepsPromise
CHECK_DEADLOCK FALSE
