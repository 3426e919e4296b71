\* Two clients, one of which overflows the line buffer and may go away.
SPECIFICATION FairSpec
CONSTANTS
    Conns = {c1, c2}
    NoConn = none
    Script <- MCScript
    BUFFER_SIZE = 2
    INBUF = 5
    LINE = 3
    Leavers = {c2}
INVARIANTS LinesInOrder OverflowContained OwnWords
PROPERTIES Served
