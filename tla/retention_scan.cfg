\* The same with a query; the list has one slot at first and the capacity three
\* bits, so that the second doubling is negative.
SPECIFICATION RetentionSpec
CONSTANTS
    Bounds <- MCBounds
    Metric = "cpu"
    Specs <- MCOneSpec
    RETENTION_MAX_RULES = 1
    InitialCapacity = 1
    CapRange = 8
    MaxChunks = 3
    Times = {0, 4}
    MaxScans = 1
INVARIANTS CapacitySafe ScanComplete
