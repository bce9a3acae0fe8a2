SPECIFICATION Spec
CONSTANTS
    Agent = {a, b}
    Path = {f}
    Proc = {p1, p2}
    NoProc = NoProc
    Never = Never
    InPane = {a, b}
    Remote = {b}
    ActiveWindow = 0
    TombstoneWindow = 0
    IdleWindow = 1
    PruneWindow = 1
    MaxKill = 1
SYMMETRY Symmetry
INVARIANTS
    OneHolder
    ClaimsHaveOwners
    LiveIsNotDead
PROPERTIES
    KeepsClaims
CHECK_DEADLOCK FALSE
