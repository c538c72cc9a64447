\* Two clips, one restart, one failing write; delays of 0 to 3 s in half seconds.
SPECIFICATION FairSpec
CONSTANTS
    NumClips = 2
    Configs <- MCConfigs
    RetryAfters <- MCRetryAfters
    Statuses = {201, 404, 429}
    Sub = 2
    Hour = 1
    MaxWallclockHours = 2
    MaxRetryDelay = 4
    MaxClipSecs = 2
    MaxHangMargin = 2
    MaxBackoff = 30
    ChronoMax = 100
    DateMax = 10
    DiskFullRetry = 2
    CertTick = 2
    Cap = 1
    MaxRestarts = 1
    MaxFaults = 1
INVARIANTS TypeOK  AcceptedNotResent OneLateAttempt PanicNeedsAbsurdRetryAfter
PROPERTIES BackoffKeepsOrder ClipsSettle
