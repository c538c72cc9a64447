SPECIFICATION Spec
CONSTANTS
    c1 = c1
    c2 = c2
    Clips <- MCClips
    PollBudget = 1
    Retention = 1
    MaxRestarts = 1
    MaxFaults = 1
    MaxRot = 1
INVARIANTS TypeOK HeldIsFresh SeenIsSettled RecordedVerdict
SYMMETRY MCSymmetry
