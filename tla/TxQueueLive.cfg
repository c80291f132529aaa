SPECIFICATION FairSpec

CONSTANTS
    be = be
    vo = vo
    mg = mg
    f1 = f1
    f2 = f2
    f3 = f3
    m1 = m1
    Data <- MCOneData
    Mgmt = mg
    Hwq <- MCOneHwq
    PsId <- MCOnePsId
    Frames = {f1, f2, m1}
    Tid <- MCOneTid
    NeedCfm = {f1, f2}
    Credits = 1
    CreditMax = 127
    CreditBound = 3
    StopBound = 1
    NdevStop = 3
    NdevRestart = 1
    CfmInterrupted = FALSE
    None = None

PROPERTIES
    ImplementsLines
    GrantServed
