SPECIFICATION Spec
CONSTANTS
    MaxDyn = 2
    Builtins <- MCBuiltins
    NoName = "none"
    LongNames = {"long"}
    Names <- MCNames
    Addrs = {0, 200, 300}
INVARIANTS
    TypeOK
    NoDuplicateNames
PROPERTIES
    ImplementsMap
