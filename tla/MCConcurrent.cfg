SPECIFICATION Spec
CONSTANTS
    NoName = ""
    EntryName = "payload_entry"
    ArtifactNames = {"$t"}
    PageSize = 4
    MaxDyn = 2
    Builtins <- MCBuiltins
    LongNames = {}
    Images <- MCConcurrentImages
    Base = 16
    MaxSymbols = 4
    Stored <- MCStored
    ExportCalls <- MCExportCalls
    Concurrent = TRUE
    HeapLimit = 2
INVARIANTS
    ImportsConsistent
    CodeSynced
PROPERTIES
    LoadDescends
    LoadReturns
