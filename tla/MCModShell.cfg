SPECIFICATION ShellSpec
CONSTANTS
    NoName = ""
    EntryName = "payload_entry"
    ArtifactNames = {"$t"}
    PageSize = 4
    MaxDyn = 2
    Builtins <- MCBuiltins
    LongNames = {}
    Images <- MCShellImages
    Base = 16
    MaxSymbols = 4
    Stored <- MCStored
    ExportCalls <- MCShellExports
    Concurrent = FALSE
    HeapLimit = 1
    Uris <- MCUris
    Paths = {"a"}
    HostFiles <- MCHostFiles
    MaxFetch = 2
    NoPath = ""
    EmbedUri <- MCEmbedUri
    NoUri = NoUri
    ImageOf <- MCImageOf
    PayloadValues <- MCPayloadValues
INVARIANTS
    ShellTypeOK
    BufferHeld
    NothingHeld
    CallsExport
PROPERTIES
    AnswersTrue
    CommandDescends
    CommandsEnd
