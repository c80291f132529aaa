SPECIFICATION FairSpec

CONSTANTS
    Senders = {t1, t2}
    Worker = Worker
    Slots = {c1, c2, c3, c4}
    Msgs = {"SCANU_START_REQ", "ME_TRAFFIC_IND_REQ"}
    Kind <- MCKind
    MaxQueued = 2
    FwMayStall = FALSE
    None = None

PROPERTIES
    QueuedLeaves
