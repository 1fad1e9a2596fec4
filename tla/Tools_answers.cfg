\* Request 0 is invalid, 1 and 2 are good and 3 is not JSON, under every failure.
SPECIFICATION Spec
CONSTANTS
    MaxLog = 4
    MaxFailures = 2
    Poison = {3}
    Invalid = {0}
    StoreAppends = TRUE
INVARIANT TypeOK
INVARIANT HandledIsAnswered
INVARIANT BlockedIsListed
PROPERTY CommitsOnlyAnswered
