SPECIFICATION TxFairSpec

CONSTANTS
    f1 = f1
    f2 = f2
    f3 = f3
    f4 = f4
    Frames <- MCFrames
    Prio <- MCPrio
    NumPrio = 2
    QMax = 3
    Callers = {c1, c2}
    FwBufs = 5
    Thresh = 2
    AggrMax = 4
    TxMayFail = TRUE
    TrggMax = 3

INVARIANTS
    QueueInStep
    ReserveKept
    NothingHeldBack

PROPERTIES
    ImplementsCarrier
    CommandsGo
    UrgentFramesGo
