SPECIFICATION Spec
CONSTANTS
    MaxPosts = 3
    SessionPosts = 3
    PowerLoss = FALSE
    MaxEnrolls = 2
    MaxStops = 0
    MaxFaults = 0
PROPERTIES ReloadTakesEffect
CHECK_DEADLOCK FALSE
