SPECIFICATION RaceSpec
CONSTANTS
    MaxDyn = 2
    Builtins <- MCBuiltins
    NoName = "none"
    LongNames = {}
    Names <- MCNames
    Addrs = {0, 200, 300}
    NameMax = 3
    Spelling <- MCSpelling
INVARIANT
    RaceTypeOK
PROPERTIES
    AnswerLived
    StableNameFound
    ImplementsCalls
