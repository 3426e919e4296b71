\* Flushes and expiry on one chunk list of two slots, which is doubled once.
SPECIFICATION FairRetentionSpec
CONSTANTS
    Bounds <- MCBounds
    Metric = "cpu"
    Specs <- MCSpecs
    RETENTION_MAX_RULES = 1
    InitialCapacity = 2
    CapRange = 16
    MaxChunks = 3
    Times = {0, 4}
    MaxScans = 0
INVARIANTS RetentionTypeOK IndexExact FreshKept
PROPERTIES ExpiredGo StopJoins
