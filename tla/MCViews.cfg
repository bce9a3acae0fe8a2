\* Two processes of one of the tools, or two and an editor on a vault of two notes.
CONSTANTS
    r1 = r1
    r2 = r2
    plain = plain
    linking = linking
    p1 = p1
    p2 = p2
    g1 = g1
    b1 = b1
    b2 = b2
    c1 = c1
    c2 = c2
    agree = agree
    cancel = cancel
    e1 = e1
    e2 = e2
    face = face
    word = word
    cam = cam
    still = still
    None = None
    Tools = {"vault", "notion", "macos", "screen", "vision", "appleevents", "email"}
    Proc = {p1, p2}
    Indexer = {r1, r2}
    NotePath <- MCPath
    Text = {plain, linking}
    LinksOf <- MCLinksOf
    Initial <- MCInitial
    Untouched = Untouched
    NoteEdits = 1
    NoteCommands = 3
    MaxStamp = 9
    Page = {g1}
    Block = {b1, b2}
    PageOf <- MCPageOf
    Limit = 1
    MaxTime = 3
    App = {c1, c2}
    Dialogs <- MCDialogs
    Cancelling = {cancel}
    UiAsked <- MCUiAsked
    UiRuns = 2
    UiMoves = 3
    Display = {e1, e2}
    Arrangement <- MCArrangement
    Scale <- MCScale
    Inset = 1
    ScAsked <- MCScAsked
    ScRuns = 2
    ScChanges = 1
    Source = {cam, still}
    VsFree = {still}
    Thing = {face, word}
    Face = {face}
    VsLimit = 1
    VsAsked <- MCVsAsked
    VsRuns = 3
    MaxElapsed = 5
    AeAsked <- MCAeAsked
    MaxVersion = 2
    AeRuns = 2
    AeMoves = 2
    Reader = {p1}
    Message = {1, 2}
    Inbox = {1}
    Remote <- MCRemote
    Fixture <- MCFixture
    Slow = 1
    EmAsked <- MCEmAsked
    EmRuns = 1
    EmChanges = 2
    EmTime = 6
    Account = {}
    Uri = {}
    Supported = {}
    SecretOf <- MCNothing
    Binary = {}
    Legacy = {}
    Darwin = TRUE
    MaxRuns = 0
    MaxKills = 0
    Database = {}
    Sqlite = {}
    Write = {}
    RowsOf = {}
    Saved <- MCNothing
    DbKeep = 0
    DbAsked <- MCDbNothing
    DbRuns = 0
    Path = {}
    Name = {c1}
    First = c1
    Kept = {}
    XlGiven = {}
    XlAsked <- MCDbNothing
    MaxRow = 1
    MaxCol = 0
    Preview = 0
    Numbers = {}
    Texts = {}
    XlFail = None
    Broken = still
    XlRuns = 0
    MaxEdits = 0
    Lesson = {}
    Problem <- MCNothing
    Automatic = {}
    When = {}
    ZpcGiven = {}
    ZpcRuns = 0
    MaxFaults = 0
SPECIFICATION ViewsSpec
CONSTRAINT LastIsAlone
SYMMETRY Symmetry
INVARIANT IndexFollows
INVARIANT TextIsWhereItWas
INVARIANT WatchIsInTime
INVARIANT NothingIsMissed
INVARIANT AnswersAreCurrent
PROPERTY BlocksMoveForward
PROPERTY OnlyApprovedActs
CHECK_DEADLOCK FALSE
