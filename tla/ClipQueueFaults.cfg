SPECIFICATION Spec
CONSTANTS
    NumClips = 2
    Size <- MCSize
    BadClips = {}
    MaxClips = 1
    MaxBytes = 9
    RefuseNew = FALSE
    MaxAttempts = 2
    PowerLoss = TRUE
    MaxRestarts = 2
    MaxFaults = 2
    MaxRot = 1
INVARIANTS
    TypeOK UploadOwnsMedia RecordedIsFinal DeliveredMeansAccepted
    DeliveredHoldsNoMedia AttemptCeiling 
 
