SPECIFICATION FairSpec
CONSTANTS
    c1 = c1
    c2 = c2
    Clips <- MCClips
    PollBudget = 1
    Retention = 1
    MaxRestarts = 0
    MaxFaults = 0
    MaxRot = 0
PROPERTIES OnlyUndecodableStays
