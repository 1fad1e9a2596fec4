\* A refused and an accepted message, in every mode, with faults.
SPECIFICATION Spec
CONSTANTS
    h1 = h1
    h2 = h2
    MaxMessages = 2
    Rejected = {1}
    Hooks = {h1, h2}
    BatchLimit = 1
    MaxSendAttempts = 2
    MaxPollFailures = 2
    MaxFaults = 2
    MaxOperatorOps = 1
INVARIANTS TypeOK ForgottenIsSettled ProcessedIsSettled OneConversation
CHECK_DEADLOCK FALSE
