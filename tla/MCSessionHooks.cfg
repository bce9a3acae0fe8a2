\* Three calls, all of them side by side, one of them cut off; two reads; or three
\* calls of the hook of zpc.
CONSTANTS
    t1 = t1
    t2 = t2
    f1 = f1
    Tool = {t1, t2}
    File = {f1}
    FriendlyAfter = 1
    SilentAfter = 2
    MaxActions = 2
    None = None
    Torn = Torn
    Commands <- MCCommands
    MaxCalls = 3
    Width = 3
    MaxKills = 1
    Parts = {"hooks", "coord", "zpc"}
    path = path
    Topic = {path}
    Silent = Silent
    Reader = {r1, r2}
    NewsLimit = 1
    MaxNews = 2
    MaxReadKills = 1
    h1 = h1
    h2 = h2
    l1 = l1
    l2 = l2
    session = session
    LessonHook = {h1, h2}
    Session = {session}
    Lesson = {l1, l2}
    Kind <- MCKind
    LessonGiven <- MCGiven
    Whens <- MCWhens
    MaxHooks = 3
    MaxChanges = 1
    MaxHookKills = 1
SPECIFICATION HooksSpec
SYMMETRY Symmetry
INVARIANT NudgesAreEarned
INVARIANT ToldOnce
PROPERTY NewsIsShownOnce
CHECK_DEADLOCK FALSE
