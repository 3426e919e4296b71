\* Records cut short, crashes and restarts.
SPECIFICATION WalSpec
CONSTANTS
    HEAD_CAPACITY = 3
    Timestamps = {1, 2, 3, 4, 5}
    Doubles <- MCDoubles
    Garbage = {0, 2}
    MaxPuts = 4
    MaxCrashes = 2
INVARIANTS PrefixRecovered NoPhantom
