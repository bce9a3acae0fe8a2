-------------------------------- MODULE Views --------------------------------
(***************************************************************************)
(* The tools that keep a view of something that changes under them, one of *)
(* them at a time: each initial state picks a tool, whose module then      *)
(* makes all the steps.  The variables of the others are None, as are      *)
(* those of the tools in Tools.                                            *)
(***************************************************************************)
EXTENDS Tools, Integers

-----------------------------------------------------------------------------
\* The index of a vault.  Its processes are alike, so they have a name of their own.
CONSTANTS Indexer, NotePath, Text, LinksOf, Initial, Untouched, NoteEdits, NoteCommands, MaxStamp

VARIABLES viFile, viRow, viVec, viDb, viPc, viCmd, viListed, viKnown, viTodo, viHeld,
          viTx, viQuiet, viFresh, viRaced, viEdits, viCommands
viState == <<viFile, viRow, viVec, viDb, viPc, viCmd, viListed, viKnown, viTodo, viHeld,
             viTx, viQuiet, viFresh, viRaced, viEdits, viCommands>>

Vi == INSTANCE VaultIndex WITH
    Proc <- Indexer, Path <- NotePath, Keep <- Untouched, MaxEdits <- NoteEdits,
    MaxCommands <- NoteCommands, file <- viFile, row <- viRow, vec <- viVec, db <- viDb,
    pc <- viPc, cmd <- viCmd, listed <- viListed, known <- viKnown, todo <- viTodo,
    held <- viHeld, tx <- viTx, quiet <- viQuiet, fresh <- viFresh, raced <- viRaced,
    edits <- viEdits, commands <- viCommands

ASSUME VaultAssumption ==
    /\ NotePath \subseteq Nat /\ IsFiniteSet(NotePath)
    /\ Initial \in [NotePath -> Text \cup {None}]
    /\ LinksOf \in [Text -> SUBSET NotePath]
    /\ None \notin Text \cup Indexer \cup Nat /\ Untouched # None
    /\ MaxStamp \in Nat /\ {None, Untouched} \cap Vi!Row = {}

-----------------------------------------------------------------------------
\* agent-notion.
CONSTANTS Page, Block, PageOf, Limit, MaxTime

VARIABLES ntLog, ntCache, ntWriter, ntProc
ntState == <<ntLog, ntCache, ntWriter, ntProc>>

Nt == INSTANCE NotionCache WITH
    log <- ntLog, cache <- ntCache, writer <- ntWriter, proc <- ntProc

ASSUME NotionAssumption ==
    /\ PageOf \in [Block -> Page]
    /\ MaxTime \in Nat /\ Limit \in Nat /\ None \notin Proc

-----------------------------------------------------------------------------
\* agent-macos.
CONSTANTS App, Dialogs, Cancelling, UiAsked, UiRuns, UiMoves

VARIABLES uiRunning, uiFront, uiDialog, uiSession, uiProc, uiActed, uiPressed, uiMoves, uiRuns
uiState == <<uiRunning, uiFront, uiDialog, uiSession, uiProc, uiActed, uiPressed, uiMoves, uiRuns>>

Ui == INSTANCE MacosGui WITH
    Asked <- UiAsked, MaxRuns <- UiRuns, MaxMoves <- UiMoves,
    running <- uiRunning, front <- uiFront, dialog <- uiDialog, session <- uiSession,
    proc <- uiProc, acted <- uiActed, pressed <- uiPressed, moves <- uiMoves, runs <- uiRuns

\* No button is called as an option of dialog click.
ASSUME GuiAssumption ==
    /\ None \notin App
    /\ \A d \in Dialogs : Len(d) \in Nat /\ DOMAIN d = 1..Len(d) /\ \A i \in DOMAIN d : d[i] # "cancel"
    /\ \A p \in Proc : \A c \in UiAsked[p] :
         /\ c.op \in {"open", "focus"} \cup Ui!WindowActions => c.arg \in App
         /\ c.op = "screenshot" => c.arg \in App \cup {None}

-----------------------------------------------------------------------------
\* agent-screen.
CONSTANTS Display, Arrangement, Scale, Inset, ScAsked, ScRuns, ScChanges

VARIABLES scListed, scFrames, scState, scProc, scClicked, scMoved, scMixed, scRuns, scChanges
scVars == <<scListed, scFrames, scState, scProc, scClicked, scMoved, scMixed, scRuns, scChanges>>

Sc == INSTANCE ScreenState WITH
    Asked <- ScAsked, MaxRuns <- ScRuns, MaxChanges <- ScChanges,
    listed <- scListed, frames <- scFrames, state <- scState, proc <- scProc,
    clicked <- scClicked, moved <- scMoved, mixed <- scMixed, runs <- scRuns, changes <- scChanges

\* The system lists a display once; on the command line they are counted from 1.
ASSUME ScreenAssumption ==
    /\ Inset \in Int
    /\ \A a \in Arrangement :
         /\ a \in Seq([id : Display, x : Int])
         /\ \A i, j \in DOMAIN a : a[i].id = a[j].id => i = j
    /\ \A p \in Proc : \A c \in ScAsked[p] : c.display \in (Nat \ {0}) \cup {None}

-----------------------------------------------------------------------------
\* agent-vision.
CONSTANTS Source, VsFree, Thing, Face, VsLimit, VsAsked, VsRuns, MaxElapsed

VARIABLES vsScene, vsSession, vsKnown, vsProc, vsChosen, vsAlone, vsRuns
vsState == <<vsScene, vsSession, vsKnown, vsProc, vsChosen, vsAlone, vsRuns>>

Vs == INSTANCE VisionWatch WITH
    Free <- VsFree, Limit <- VsLimit, Asked <- VsAsked, MaxRuns <- VsRuns,
    scene <- vsScene, session <- vsSession, known <- vsKnown, proc <- vsProc,
    chosen <- vsChosen, alone <- vsAlone, runs <- vsRuns

ASSUME VisionAssumption ==
    /\ VsLimit \in Nat
    /\ \A p \in Proc : \A c \in VsAsked[p] : c.op = "watch" => c.timeout \in Nat

-----------------------------------------------------------------------------
\* agent-appleevents, which looks at the applications of agent-macos.
CONSTANTS AeAsked, MaxVersion, AeRuns, AeMoves

VARIABLES aeVersion, aeRunning, aeXml, aeParsed, aeProc, aeAlive, aeAnswers, aeLaunched, aeRuns, aeMoves
aeState == <<aeVersion, aeRunning, aeXml, aeParsed, aeProc, aeAlive, aeAnswers, aeLaunched, aeRuns, aeMoves>>

Ae == INSTANCE AppleEvents WITH
    Asked <- AeAsked, MaxRuns <- AeRuns, MaxMoves <- AeMoves,
    version <- aeVersion, running <- aeRunning, xml <- aeXml, parsed <- aeParsed, proc <- aeProc,
    alive <- aeAlive, answers <- aeAnswers, launched <- aeLaunched, runs <- aeRuns, moves <- aeMoves

ASSUME AppAssumption ==
    /\ None \notin App /\ MaxVersion \in Nat \ {0}
    /\ AeAsked \in [Proc -> SUBSET
           [op : Ae!Dictionaries \cup Ae!Scripts \cup {"apps", "cache status", "cache clear", "compile"},
            app : App \cup {None}, launch : BOOLEAN, refresh : BOOLEAN]]

-----------------------------------------------------------------------------
\* agent-email.
CONSTANTS Reader, Message, Inbox, Remote, Fixture, Slow, EmAsked, EmRuns, EmChanges, EmTime

VARIABLES emIndex, emAnother, emNow, emProc, emChanged, emMissed, emExported, emRuns, emChanges
emState == <<emIndex, emAnother, emNow, emProc, emChanged, emMissed, emExported, emRuns, emChanges>>

Em == INSTANCE EmailQuery WITH
    Proc <- Reader, Asked <- EmAsked, MaxRuns <- EmRuns, MaxChanges <- EmChanges, MaxTime <- EmTime,
    index <- emIndex, another <- emAnother, now <- emNow, proc <- emProc, changed <- emChanged,
    missed <- emMissed, exported <- emExported, runs <- emRuns, changes <- emChanges

\* Numbers below 0 mean what 0 does.  A fixture's text is no summary of a source.
ASSUME MailAssumption ==
    /\ Message \subseteq Nat /\ IsFiniteSet(Message) /\ Slow \in Nat
    /\ \A p \in Reader : \A c \in EmAsked[p] :
         /\ c.op \in Em!Waits =>
              c.timeout \in Nat /\ c.interval \in Nat /\ c.limit \in Nat /\ c.fixture \in BOOLEAN
         /\ c.op \in Em!Single /\ c.fixture => \A m \in Message :
              \/ Fixture[m] = None
              \/ /\ DOMAIN Fixture[m] = {"body", "source", "unread"}
                 /\ Fixture[m].body = "summary" => ~Fixture[m].source

-----------------------------------------------------------------------------
\* What the tools that were not picked hold.
NtOff ==
    /\ ntLog = None /\ ntCache = None /\ ntWriter = None /\ ntProc = None
UiOff ==
    /\ uiRunning = None /\ uiFront = None /\ uiDialog = None /\ uiSession = None
    /\ uiProc = None /\ uiActed = None /\ uiPressed = None /\ uiMoves = None /\ uiRuns = None
ScOff ==
    /\ scListed = None /\ scFrames = None /\ scState = None /\ scProc = None /\ scClicked = None
    /\ scMoved = None /\ scMixed = None /\ scRuns = None /\ scChanges = None
VsOff ==
    /\ vsScene = None /\ vsSession = None /\ vsKnown = None /\ vsProc = None
    /\ vsChosen = None /\ vsAlone = None /\ vsRuns = None
AeOff ==
    /\ aeVersion = None /\ aeRunning = None /\ aeXml = None /\ aeParsed = None /\ aeProc = None
    /\ aeAlive = None /\ aeAnswers = None /\ aeLaunched = None /\ aeRuns = None /\ aeMoves = None
EmOff ==
    /\ emIndex = None /\ emAnother = None /\ emNow = None /\ emProc = None /\ emChanged = None
    /\ emMissed = None /\ emExported = None /\ emRuns = None /\ emChanges = None
ViOff ==
    /\ viFile = None /\ viRow = None /\ viVec = None /\ viDb = None /\ viPc = None
    /\ viCmd = None /\ viListed = None /\ viKnown = None /\ viTodo = None /\ viHeld = None
    /\ viTx = None /\ viQuiet = None /\ viFresh = None /\ viRaced = None
    /\ viEdits = None /\ viCommands = None

ViewsInit ==
    /\ tool \in Tools
    /\ PsqlOff /\ DbOff /\ XlOff /\ ZpcOff
    /\ IF tool = "vault" THEN Vi!Init ELSE ViOff
    /\ IF tool = "notion" THEN Nt!Init ELSE NtOff
    /\ IF tool = "macos" THEN Ui!Init ELSE UiOff
    /\ IF tool = "screen" THEN Sc!Init ELSE ScOff
    /\ IF tool = "vision" THEN Vs!Init ELSE VsOff
    /\ IF tool = "appleevents" THEN Ae!Init ELSE AeOff
    /\ IF tool = "email" THEN Em!Init ELSE EmOff

ViewsNext ==
    /\ UNCHANGED toolsVars
    /\ IF tool = "vault" THEN Vi!Next ELSE UNCHANGED viState
    /\ IF tool = "notion" THEN Nt!Next ELSE UNCHANGED ntState
    /\ IF tool = "macos" THEN Ui!Next ELSE UNCHANGED uiState
    /\ IF tool = "screen" THEN Sc!Next ELSE UNCHANGED scVars
    /\ IF tool = "vision" THEN Vs!Next ELSE UNCHANGED vsState
    /\ IF tool = "appleevents" THEN Ae!Next ELSE UNCHANGED aeState
    /\ IF tool = "email" THEN Em!Next ELSE UNCHANGED emState

viewsVars == <<toolsVars, viState, ntState, uiState, scVars, vsState, aeState, emState>>
ViewsSpec == ViewsInit /\ [][ViewsNext]_viewsVars

-----------------------------------------------------------------------------
\* VaultIndex: a note that a refresh skips is as it was indexed, and a refresh that
\* nothing disturbs catches up with the vault.
IndexFollows == tool = "vault" => Vi!SkippedIsSame /\ Vi!RefreshCatchesUp
\* NotionCache: no block goes back to an earlier text in the cache, and a page's
\* row is never ahead of its blocks.
BlocksMoveForward ==
    [][tool = "notion" => Nt!BlocksStepForward /\ Nt!BlocksReachThePage']_viewsVars
\* ScreenState: elements and clicks are where the text was seen.
TextIsWhereItWas == tool = "screen" => Sc!TextIsWhereItWas
\* VisionWatch: a watch ends in time, and the source stays until it is changed.
WatchIsInTime == tool = "vision" => Vs!WatchIsInTime /\ Vs!SourceIsKept
\* EmailQuery: waits end in time and miss nothing, and summaries are called so.
NothingIsMissed ==
    tool = "email" => Em!NothingIsMissed /\ Em!WaitsEndInTime /\ Em!SummariesAreNamed
\* MacosGui: only an approved command acts, and --cancel only cancels.
OnlyApprovedActs == [][tool = "macos" => Ui!ApprovedStep /\ Ui!CancelOnlyCancels']_viewsVars
\* AppleEvents: no dictionary is older than what was asked about, and nothing is
\* launched that neither ran nor was to be launched.
AnswersAreCurrent == tool = "appleevents" => Ae!AnswersAreCurrent /\ Ae!LaunchesAreAsked
=============================================================================
