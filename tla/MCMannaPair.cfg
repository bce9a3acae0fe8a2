SPECIFICATION FairSpec
CONSTANTS
    Proc = {p1, p2}
    NoRow = NoRow
    NoTx = NoTx
    NoProc = NoProc
    MaxClock = 3
    MaxCrash = 1
INVARIANTS
    DisagreementHasCause
    ScopeIsApproved
    InterruptedIsPending
PROPERTIES
    AppliedOnce
    JournalIsSettled
CHECK_DEADLOCK FALSE
