SPECIFICATION TcpFairSpec
CONSTANTS
    N = 3
    Offset <- MCOffset
    BadLens = {0, 1, 6, 200}
INVARIANTS
    HandledInOrder
    NothingWithheld
PROPERTY
    CallReturns
CHECK_DEADLOCK FALSE
