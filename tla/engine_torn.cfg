\* Power losses, kills and silent failures of fclose.
SPECIFICATION Spec
CONSTANTS
    HEAD_CAPACITY = 2
    Clients = {c1, c2}
    Main = main
    NoThread = none
    Timestamps = {7, 8, 9}
    ChunkIdMod = 8
    Garbage = {0}
    UniqueTimestamps = TRUE
    Failures = {"fopen_chunk", "fwrite_chunk", "fclose_chunk", "power"}
    MaxPuts = 3
    MaxFlushes = 1
    MaxStops = 2
SYMMETRY ClientSymmetry
INVARIANTS IInv LossOnlyInTornChunk
