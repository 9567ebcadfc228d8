SPECIFICATION FairSpec
CONSTANTS
    stub = stub
    raw = raw
    gadget = gadget
    Threads = {1, 2}
    Calls <- AllCalls
    SlotCount = 2
    MaxCallbacks = 100
    MaxProbes = 2
    Scripts <- OneOrTwo
    ExitScript <- Exit
    BystanderScript <- NoCalls
    ServiceNumber <- Number
    ReturnOwner <- Owner
    Catalogued <- Known
    QueryRetryCount = 2
    Faults = {"install", "workerStart", "monitorStart", "suspend", "query"}
INVARIANTS
    TypeOK
    QueryMatchesRecord
    QueriedWhileSpinning
    NoDanglingWorker
PROPERTIES
    ImplementsContract
