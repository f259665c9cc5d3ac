SPECIFICATION TcpSpec
CONSTANTS
    N = 3
    Offset <- MCOffset
    BadLens = {0, 1, 6, 200}
INVARIANT
    EveryFrameHandled
CHECK_DEADLOCK FALSE
