\* The reply of a message that is delivered again.
SPECIFICATION Spec
CONSTANTS
    h1 = h1
    h2 = h2
    MaxMessages = 2
    Rejected = {1}
    Hooks = {h1, h2}
    BatchLimit = 1
    MaxSendAttempts = 2
    MaxPollFailures = 2
    MaxFaults = 0
    MaxOperatorOps = 0
INVARIANT NoDoubleSend
CHECK_DEADLOCK FALSE
