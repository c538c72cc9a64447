SPECIFICATION Spec
CONSTANTS
    MaxPosts = 3
    SessionPosts = 3
    PowerLoss = FALSE
    MaxEnrolls = 3
    MaxStops = 1
    MaxFaults = 0
INVARIANTS KeyForLife
CHECK_DEADLOCK FALSE
