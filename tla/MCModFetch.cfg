SPECIFICATION FetchSpec
CONSTANTS
    NoName = ""
    Paths = {"a"}
    Uris <- MCUris
    HostFiles <- MCHostFiles
    MaxFetch = 2
    NoPath = ""
INVARIANTS
    FetchTypeOK
    CleanReturn
    DeliveredWhole
    MountHeld
