SPECIFICATION FairSpec
CONSTANTS
    Stubs <- AllStubs
    NumberOf <- AllNumbers
    QueryLimit = 8
    Faults = {"lookup", "install", "clear", "workerThread", "monitorThread", "allocate", "free"}
INVARIANTS
    TypeOK
    CallsAllocate
    HeldWhileJudged
    VerdictsAgree
    MemoryReleased
PROPERTIES
    Returns
