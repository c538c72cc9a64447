SPECIFICATION FairSpec
CONSTANTS
    Cooldown = 2
    RecordLimit = 2
    Stuck = 2
    StagingCap = 2
    ClipBytes = 2
    FifoDepth = 2
    MaxFaults = 1
    MaxOutages = 1
    MaxStops = 1
INVARIANTS TypeOK LeftoversNeedFaults FootprintBounded CacheCatchesUp StuckExact
PROPERTIES RecordingsSpaced StaleEdgesSkipped HandlerReturns SensorRecovers
