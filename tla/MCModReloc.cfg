SPECIFICATION Spec
CONSTANTS
    NoName = ""
    Programs <- MCPrograms
INVARIANTS
    TypeOK
    RelocsCompose
    BranchesReach
    MovePairsBuild
    PointersReach
    OpcodesKept
\* The loop ends after the last relocation.
CHECK_DEADLOCK FALSE
