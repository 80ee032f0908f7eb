SPECIFICATION AvailabilitySpec
CONSTANTS
    NoToken = NoToken
    Unknown = Unknown
    Callers = {c1, c2}
    MaxRetries = 2
    Seats = 1
    Viewers = {v1}
INVARIANTS AvailabilityTypeOK HolderKeepsKey ViewersAreCurrent
PROPERTIES EveryCallEnds
CHECK_DEADLOCK FALSE
