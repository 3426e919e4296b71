\* Downsampling next to flushes and retention, with a crash and a failed write.
SPECIFICATION FairSpec
CONSTANTS
    Minute = 2
    After = 3
    Blocks <- MCBlocks
    Retained = 5
    W14 = 8
    IntRange = 1024
    Horizon = 100
    Times = {0, 5, 9}
    MaxLevel = 2
    MaxFlushes = 2
    MaxCrashes = 1
    MaxFails = 1
INVARIANTS CoarseAggExact CountedOnce BucketsFit
PROPERTIES OldGetsMarked
