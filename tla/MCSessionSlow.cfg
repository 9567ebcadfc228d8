SPECIFICATION FairSpec
CONSTANTS
    stub = stub
    raw = raw
    gadget = gadget
    Threads = {1, 2}
    Calls <- AllCalls
    SlotCount = 2
    MaxCallbacks = 100
    MaxProbes = 2
    Scripts <- Short
    ExitScript <- Exit
    BystanderScript <- NoCalls
    ServiceNumber <- Number
    ReturnOwner <- Owner
    Catalogued <- Known
    QueryRetryCount = 2
    Faults = {"slowCall", "suspend", "query"}
INVARIANTS
    RecordIntact
    Quiescent
    ArmedForWorker
    SuspensionScoped
PROPERTIES
    ArmsAnEmptyRing
    RunProbeReturns
    SpinnerReleased
