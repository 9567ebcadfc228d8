SPECIFICATION FairSpec
CONSTANTS
    stub = stub
    raw = raw
    gadget = gadget
    Threads = {1}
    Calls <- AllCalls
    SlotCount = 1
    MaxCallbacks = 100
    MaxProbes = 1
    Scripts <- Pair
    ExitScript <- Exit
    BystanderScript <- NoCalls
    ServiceNumber <- Number
    ReturnOwner <- Owner
    Catalogued <- Known
    QueryRetryCount = 2
    Faults = {"slowCode"}
CHECK_DEADLOCK FALSE
PROPERTIES
    SpinnerReleased
