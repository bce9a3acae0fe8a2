\* Emits, resets and a live tool, with a kill.
CONSTANTS
    p1 = p1
    p2 = p2
    ann = ann
    bob = bob
    cat = cat
    app = app
    Proc = {p1, p2}
    App = {app}
    NoApp = NoApp
    TTL = {0, 2}
    Torn = Torn
    None = None
    Horizon = 3
    Rule <- MCRule
    Recipient = {ann, bob, cat}
    Events <- MCEvents
    MembersOf <- MCMembersOf
    Attempts <- MCAttempts
    Cooldown <- MCCooldown
    Messenger = app
    Requests <- MCRequests
    Modifiers <- MCModifiers
    SendAll = FALSE
    MaxRuns = 3
    MaxKills = 1
SPECIFICATION Spec
SYMMETRY Symmetry
INVARIANTS
    CooldownIsEarned
PROPERTIES
    LeaseDecides
CHECK_DEADLOCK FALSE
