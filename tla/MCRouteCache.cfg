SPECIFICATION Spec
CONSTANTS
    Proc = {p1, p2}
    i1 = i1
    i2 = i2
    here = here
    Asked <- MCAsked
    Intent = {i1, i2}
    Near <- MCNear
    Project = {here}
    Anywhere = Anywhere
    Route = {r1, r2}
    NoRow = NoRow
    NoTable = NoTable
    MaxRun = 2
    MaxFault = 1
SYMMETRY Symmetry
INVARIANTS
    CountsAreEarned
    CreditIsOwn
    LegacyIsMoved
CHECK_DEADLOCK FALSE
