SPECIFICATION Spec
CONSTANTS
    Modes = {TRUE, FALSE}
    Cap = 2
    Invalid <- MCInvalid
    MaxSpans = 3
    MaxFaults = 2
    MaxPublishFailures = 1
INVARIANTS TypeOK OnlyFailedPublishLoses AckCoversSettled CarriedInOrder LossIsCounted HandOffInv
CHECK_DEADLOCK FALSE
