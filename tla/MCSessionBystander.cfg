SPECIFICATION Spec
CONSTANTS
    stub = stub
    raw = raw
    gadget = gadget
    Threads = {1, 2, 3}
    Calls <- AllCalls
    SlotCount = 1
    MaxCallbacks = 100
    MaxProbes = 2
    Scripts <- Single
    ExitScript <- Exit
    BystanderScript <- OneCall
    ServiceNumber <- Number
    ReturnOwner <- Owner
    Catalogued <- Known
    QueryRetryCount = 2
    Faults = {"slowStart", "open"}
CHECK_DEADLOCK FALSE
INVARIANTS
    JoinedResult
    SuspensionScoped
