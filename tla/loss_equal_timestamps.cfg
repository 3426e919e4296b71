\* A crash after two points with one timestamp.
SPECIFICATION Spec
CONSTANTS
    HEAD_CAPACITY = 2
    Clients = {c1}
    Main = main
    NoThread = none
    Timestamps = {1}
    ChunkIdMod = 8
    Garbage = {0}
    UniqueTimestamps = FALSE
    Failures = {}
    MaxPuts = 3
    MaxFlushes = 0
    MaxStops = 1
SYMMETRY ClientSymmetry
INVARIANTS NoAckedLoss
