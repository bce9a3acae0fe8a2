CONSTANTS
    a = a
    b = b
    ta = ta
    tb = tb
    None = None
    NoRow = NoRow
    IssueId = {i1, i2}
    Label = {a, b}
    Token = {ta, tb}
    Session <- MCTwoSession
    Editor = {}
    Reconciler = {r1}
    PeerStatus = {"active", "dead"}
    Strict = TRUE
    InitialRow <- MCClaimedRow
    MaxClock = 3
SYMMETRY IssueSymmetry
SPECIFICATION Spec
CHECK_DEADLOCK FALSE
PROPERTIES
    FinishedWorkIsUnblocked
    RepairJustified
