SPECIFICATION FairSpec
CONSTANTS
    Modes = {TRUE}
    Cap = 3
    Invalid <- MCInvalid
    MaxSpans = 1
    MaxFaults = 0
    MaxPublishFailures = 1
PROPERTY HeldIsReleased
CHECK_DEADLOCK FALSE
