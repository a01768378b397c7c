SPECIFICATION Spec
CONSTANTS
    Modes = {TRUE}
    Cap = 3
    Invalid <- MCInvalid
    MaxSpans = 2
    MaxFaults = 0
    MaxPublishFailures = 1
INVARIANT NoSilentLoss
CHECK_DEADLOCK FALSE
