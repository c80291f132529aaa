SPECIFICATION FairSpec

CONSTANTS
    c1 = c1
    c2 = c2
    Conns = {c1, c2}
    NumSlots = 2
    Wrap = 4
    MaxDrop = 3
    FirstSeq = 3
    MaxSeq <- MCMaxSeq
    None = None

INVARIANTS
    SlotsCounted
    HeldIsTimed

PROPERTIES
    ImplementsStream
    NewestGoes

CHECK_DEADLOCK FALSE
