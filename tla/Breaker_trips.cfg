\* The memory gateway: one writer that never raises, two readers.
SPECIFICATION FairSpec
CONSTANTS
    c1 = c1
    c2 = c2
    c3 = c3
    Callers = {c1, c2, c3}
    Swallowing = {c1}
    Threshold = 2
    ResetTimeout = 2
    MaxOperatorOps = 2
INVARIANTS TripsAfterThreshold QuietBeforeProbe
PROPERTIES StragglerNeverCloses OpenEnds
