\* Three clips compete for a queue of one, two of them refused by preflight, so
\* that a census can overlook both the others; a power loss, a retry.
SPECIFICATION FairSpec
CONSTANTS
    NumClips = 3
    Size <- MCSize
    BadClips = {2, 3}
    MaxClips = 1
    MaxBytes = 3
    RefuseNew = FALSE
    MaxAttempts = 2
    PowerLoss = TRUE
    MaxRestarts = 1
    MaxFaults = 0
    MaxRot = 0
PROPERTIES QueueDrains EvictionNotInVain DeliveryImplemented
