\* Failures, crashes and commits of unknown outcome.
SPECIFICATION FairSpec
CONSTANTS
    MaxLog = 4
    MaxFailures = 3
    Poison = {2}
INVARIANT RedeliveryWindow
PROPERTIES CommitsOnlyHandled EventuallyHandled
