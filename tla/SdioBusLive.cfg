SPECIFICATION FairSpec

CONSTANTS
    NumPrio = 1
    QMax = 1
    Frames = {}
    Prio <- MCPrio
    Callers = {c1}
    FwBufs = 3
    Thresh = 2
    AggrMax = 3
    TxMayFail = FALSE
    TrggMax = 1
    MaxRxQLen = 1
    MayFail = FALSE
    RxTrggMax = 1
    PwrThread = PwrThread
    Suspender = Suspender
    WakeMayFail = FALSE
    PwrTrggMax = 1

INVARIANTS
    NotStranded

PROPERTIES
    CommandsGo
    BlocksTaken
    QuietBusSleeps
