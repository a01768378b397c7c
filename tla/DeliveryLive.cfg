SPECIFICATION FairSpec
CONSTANTS
    Modes = {TRUE}
    Cap = 2
    Invalid <- MCInvalid
    MaxSpans = 3
    MaxFaults = 2
    MaxPublishFailures = 0
PROPERTIES Promise HeldIsReleased
CHECK_DEADLOCK FALSE
