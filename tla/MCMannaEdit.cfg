CONSTANTS
    a = a
    b = b
    ta = ta
    tb = tb
    None = None
    NoRow = NoRow
    IssueId = {i1, i2}
    Label = {a, b}
    Token = {ta, tb}
    Session <- MCSession
    Editor = {e1}
    Reconciler = {}
    PeerStatus = {"active"}
    Strict = TRUE
    InitialRow <- MCUnownedRow
    MaxClock = 4
SYMMETRY IssueSymmetry
SPECIFICATION Spec
CHECK_DEADLOCK FALSE
INVARIANTS
    RowsCoherent
PROPERTIES
    OnlyOwnerOrRepair
    DoneIsFinal
