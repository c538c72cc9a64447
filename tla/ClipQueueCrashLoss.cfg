SPECIFICATION Spec
CONSTANTS
    NumClips = 1
    Size <- MCSize
    BadClips = {}
    MaxClips = 1
    MaxBytes = 9
    RefuseNew = FALSE
    MaxAttempts = 1
    PowerLoss = TRUE
    MaxRestarts = 1
    MaxFaults = 0
    MaxRot = 0
INVARIANT NoLoss
