\* Two processes of one of the tools.
CONSTANTS
    p1 = p1
    p2 = p2
    a1 = a1
    a2 = a2
    text = text
    binary = binary
    open = open
    bad = bad
    s1 = s1
    s2 = s2
    None = None
    Proc = {p1, p2}
    Account = {a1, a2}
    Uri <- MCUri
    Supported = {text, binary, open}
    SecretOf <- MCSecretOf
    Binary = {s2}
    Legacy <- MCLegacy
    Darwin = TRUE
    Tools = {"psql", "db", "excel", "zpc"}
    d1 = d1
    d2 = d2
    w1 = w1
    w2 = w2
    x1 = x1
    x2 = x2
    n1 = n1
    n2 = n2
    n3 = n3
    c1 = c1
    c2 = c2
    XlFail = XlFail
    Broken = Broken
    MaxRuns = 4
    Database = {d1, d2}
    Sqlite = {d1}
    Write = {w1, w2}
    RowsOf = {w2}
    Saved <- MCSaved
    DbKeep = 1
    DbAsked <- MCDbAsked
    DbRuns = 4
    Path = {x1, x2}
    Name = {n1, n2, n3}
    First = n1
    Kept = {x1}
    XlGiven <- MCXlGiven
    XlAsked <- MCXlAsked
    MaxRow = 4
    MaxCol = 2
    Preview = 1
    Numbers = {1, 2}
    Texts = {1, 2}
    XlRuns = 2
    MaxEdits = 1
    Lesson = {c1, c2}
    Problem <- MCProblem
    Automatic = {}
    When = {{"prompt"}}
    ZpcGiven <- MCZpcGiven
    ZpcRuns = 3
    MaxFaults = 1
    MaxKills = 1
SPECIFICATION ToolsSpec
INVARIANT NothingEscapes
INVARIANT SortLosesNothing
INVARIANT BoundIsOwn
INVARIANT ConnectIsRight
PROPERTY MemoryStands
CHECK_DEADLOCK FALSE
