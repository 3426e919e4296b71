\* Queries while two clients write and flush, and the log fails; no crash.
SPECIFICATION QuerySpec
CONSTANTS
    HEAD_CAPACITY = 2
    Clients = {c1, c2}
    Main = main
    NoThread = none
    Timestamps = {7, 8, 9}
    ChunkIdMod = 8
    Garbage = {0}
    UniqueTimestamps = TRUE
    Failures = {"fopen_chunk", "fwrite_chunk", "fopen_wal", "remove_wal"}
    MaxPuts = 3
    MaxFlushes = 2
    MaxStops = 0
    Readers = {r1}
    Ranges <- TwoRanges
    BucketSizes = {2, 3}
SYMMETRY ClientSymmetry
INVARIANTS ExactlyOnce NoDoubleRead ReadsCommitted AggMatches
