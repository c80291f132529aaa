SPECIFICATION FairSpec

CONSTANTS
    Senders = {t1, t2}
    Worker = Worker
    Slots = {c1, c2, c3}
    Msgs = {"MM_ADD_IF_REQ", "SCANU_START_REQ", "MM_REMOVE_IF_REQ"}
    Kind <- MCKind
    MaxQueued = 2
    FwMayStall = TRUE
    None = None

PROPERTIES
    QueuedLeaves
    WaitersReturn

CHECK_DEADLOCK FALSE
