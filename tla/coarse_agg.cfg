\* AGG over a long range while a recent chunk exists.
SPECIFICATION Spec
CONSTANTS
    Minute = 2
    After = 3
    Blocks <- MCBlocks
    Retained = 5
    W14 = 8
    IntRange = 1024
    Horizon = 100
    Times = {0, 5, 9}
    MaxLevel = 2
    MaxFlushes = 2
    MaxCrashes = 1
    MaxFails = 1
INVARIANT RecentCounted
