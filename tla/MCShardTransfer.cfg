CONSTANTS
    a = a
    b = b
    c = c
    None = None
    Peers = {a, b, c}
    Holders = {a, b}
    Factor = 1
    Scenarios <- All

SPECIFICATION Spec

INVARIANTS
    AckedIsReplicated
    SomeActive
    SameStates
    TransfersEndCleanly
