SPECIFICATION FairSpec
CONSTANTS
    M = 12
    W = 4
    Pool = 3
    First = 9
    N = 8
    SendWin = 3
    Burst = 2
    Rtp = {2}
INVARIANTS
    HeldIsTimed
PROPERTIES
    PoolConserved
    ImplementsWindow
    HeldGoes
CHECK_DEADLOCK FALSE
