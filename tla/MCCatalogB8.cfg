SPECIFICATION Spec
CONSTANTS
    Processes <- ServiceB8
    ScanByteCount = 96
    ImmediateSize = 4
INVARIANTS
    StubsRecovered
