SPECIFICATION DemoSpec
CONSTANTS
    Processes <- AllProcesses
    ScanByteCount = 96
    ImmediateSize = 4
    AllocateName <- Allocate
    ProtectName <- Protect
    QueryTimeName <- QueryTime
    NtdllModule = 1
    Win32uModule = 2
    Faults = {"lookup", "install", "worker", "query", "allocate", "free"}
INVARIANTS
    DemoTypeOK
    EveryAllocationReleased
    ExitTellsDetection
    TypeOK
    OneNumberPerReturn
    EntriesRight
    VerdictsRight
    QueriesAgree
    StubsRecovered
