SPECIFICATION Spec
CONSTANTS
    Names <- AllStrings
    Types <- AllStrings
    Less <- NameLess
    NoSignature = NoSignature
    ZeroServices <- ZeroNames
    OtherCalls <- CalledBeside
    HeaderSets <- SmallHeaders
    Updates <- LaterHeaders
    ExportSets <- SmallExports
    Shipped <- ShippedTable
    ShippedExports <- AllShippedNames
    IsNt <- NameIsNt
    IsZw <- NameIsZw
    IsWow64 <- NameIsWow64
    NtName <- NtNameOf
INVARIANTS
    MetadataCurrent
