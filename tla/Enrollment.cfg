SPECIFICATION Spec
CONSTANTS
    MaxPosts = 3
    SessionPosts = 3
    PowerLoss = TRUE
    MaxEnrolls = 3
    MaxStops = 1
    MaxFaults = 1
INVARIANTS TypeOK CredsWhole KeyForLifeUnlessGap StaysEnrolled FreshSessionSuffices ClientCoherent
CHECK_DEADLOCK FALSE
