\* Every command on a small vault, with an editor outside and a kill.
CONSTANTS
    w1 = w1
    w2 = w2
    w3 = w3
    Writer = {w1, w2, w3}
    Path <- MCPath
    Ops <- MCOps
    Initial <- MCInitial
    Tag = Tag
    Edit = Edit
    None = None
    MaxOutside = 1
    MaxStamp = 9
SPECIFICATION Spec
INVARIANTS
    ExclusiveUntilBroken
    AcceptedIsKept
    AllOrNothing
CHECK_DEADLOCK FALSE
