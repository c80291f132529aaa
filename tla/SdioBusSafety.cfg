SPECIFICATION Spec

CONSTANTS
    NumPrio = 1
    QMax = 1
    Frames = {f1}
    Prio <- MCPrio
    Callers = {c1, c2}
    FwBufs = 3
    Thresh = 2
    AggrMax = 3
    TxMayFail = FALSE
    TrggMax = 2
    MaxRxQLen = 1
    MayFail = TRUE
    RxTrggMax = 1
    PwrThread = PwrThread
    Suspender = Suspender
    WakeMayFail = FALSE
    PwrTrggMax = 1

SYMMETRY Symmetric

INVARIANTS
    NothingForgotten
    CommandToAwakeChip
