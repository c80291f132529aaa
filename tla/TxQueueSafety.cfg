SPECIFICATION Spec

CONSTANTS
    be = be
    vo = vo
    mg = mg
    f1 = f1
    f2 = f2
    f3 = f3
    m1 = m1
    Data <- MCData
    Mgmt = mg
    Hwq <- MCHwq
    PsId <- MCPsId
    Frames = {f1, f2, f3}
    Tid <- MCTid
    NeedCfm = {f1, f2}
    Credits = 1
    CreditMax = 127
    CreditBound = 3
    StopBound = 1
    NdevStop = 1
    NdevRestart = 1
    CfmInterrupted = FALSE
    None = None

INVARIANTS
    QueuesInService
    NeverHalts
    ReadyCounted
    GrantKept

PROPERTIES
    OnlyGranted
