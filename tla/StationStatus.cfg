\* Two clips in a queue of two, an orderly restart, and any number of status commands.
SPECIFICATION StatusSpec
CONSTANTS
    NumClips = 2
    Size <- MCSize
    BadClips = {}
    MaxClips = 2
    MaxBytes = 2
    RefuseNew = FALSE
    MaxAttempts = 2
    PowerLoss = FALSE
    MaxRestarts = 1
    MaxFaults = 0
    MaxRot = 0
    RecentLimit = 1
INVARIANTS DepthCounts LatestShown
