SPECIFICATION Spec

CONSTANTS
    Senders = {t1, t2}
    Worker = Worker
    Slots = {c1, c2, c3, c4, c5}
    Msgs = {"MM_ADD_IF_REQ", "SCANU_START_REQ", "ME_TRAFFIC_IND_REQ", "MM_REMOVE_IF_REQ", "MESH_PATH_CREATE_REQ"}
    Kind <- MCKind
    MaxQueued = 3
    FwMayStall = TRUE
    None = None

SYMMETRY Symmetric

INVARIANTS
    DeferredBehindBusy
    ConfirmsItsCommand
    PoolConsistent
    BufferLive

PROPERTIES
    ImplementsChannel

CHECK_DEADLOCK FALSE
