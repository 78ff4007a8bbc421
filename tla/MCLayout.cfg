SPECIFICATION LayoutSpec
CONSTANTS
    NoName = ""
    EntryName = "payload_entry"
    ArtifactNames = {"$t"}
    PageSize = 4
    MaxDyn = 2
    Builtins <- MCBuiltins
    LongNames = {}
    Images <- MCLayoutImages
    Base = 16
    MaxSymbols = 4
    Stored <- MCStored
    ExportCalls <- MCExportCalls
    Concurrent = FALSE
    HeapLimit = 2
INVARIANTS
    LayoutSound
    ResidentIsWx
    CodeExecutable
CHECK_DEADLOCK FALSE
