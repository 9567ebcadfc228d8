SPECIFICATION RingSpec
CONSTANTS
    Threads = {t1, t2, t3}
    Calls = {c1}
    SlotCount = 2
    MaxCallbacks = 2
SYMMETRY Symmetry
CHECK_DEADLOCK FALSE
INVARIANTS
    RingTypeOK
    NoOrphanSlot
    Accounting
    DropsOnlyOverflow
