\* Kills at any step, restarts, shutdown, and the failures that headflush notices.
SPECIFICATION FairSpec
CONSTANTS
    HEAD_CAPACITY = 2
    Clients = {c1, c2}
    Main = main
    NoThread = none
    Timestamps = {7, 8, 9}
    ChunkIdMod = 8
    Garbage = {0}
    UniqueTimestamps = TRUE
    Failures = {"fopen_chunk", "fwrite_chunk"}
    MaxPuts = 3
    MaxFlushes = 2
    MaxStops = 2
INVARIANTS TypeOK IInv NoAckedLoss WalMirrorsHead
PROPERTIES OverwriteProtected ImplementsSeries RequestsFinish ShutdownFinishes LoadFinishes
