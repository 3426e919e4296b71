\* Queries before and after a crash that makes a chunk file be written again.
SPECIFICATION FairQuerySpec
CONSTANTS
    HEAD_CAPACITY = 2
    Clients = {c1}
    Main = main
    NoThread = none
    Timestamps = {7, 8, 9}
    ChunkIdMod = 8
    Garbage = {0}
    UniqueTimestamps = TRUE
    Failures = {}
    MaxPuts = 3
    MaxFlushes = 2
    MaxStops = 1
    Readers = {r1}
    Ranges <- TwoRanges
    BucketSizes = {2, 3}
INVARIANTS CompleteUnlessMoved StatsSeesData
PROPERTIES QueriesFinish
