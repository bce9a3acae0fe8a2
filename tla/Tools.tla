-------------------------------- MODULE Tools --------------------------------
(***************************************************************************)
(* The tools that keep a session or a cache in files, one of them at a     *)
(* time: each initial state picks a tool, whose module then makes all the  *)
(* steps.  The variables of the others are None.                           *)
(***************************************************************************)
EXTENDS PsqlProfiles, Integers, Sequences

CONSTANT Tools      \* the tools to choose from
VARIABLE tool

-----------------------------------------------------------------------------
\* agent-db: the profiles are named like those of agent-psql.
CONSTANTS Database, Sqlite, Write, RowsOf, Saved, DbKeep, DbAsked, DbRuns

VARIABLES dbProfiles, dbTorn, dbSession, dbCommitted, dbProc, dbExecuted, dbBegun,
          dbMarked, dbEntries, dbAlone, dbRuns
dbState == <<dbProfiles, dbTorn, dbSession, dbCommitted, dbProc, dbExecuted, dbBegun,
             dbMarked, dbEntries, dbAlone, dbRuns>>

Db == INSTANCE DbSession WITH
    Profile <- Account, Keep <- DbKeep, Asked <- DbAsked, MaxRuns <- DbRuns,
    profiles <- dbProfiles, torn <- dbTorn, session <- dbSession,
    committed <- dbCommitted, proc <- dbProc, executed <- dbExecuted, begun <- dbBegun,
    marked <- dbMarked, entries <- dbEntries, alone <- dbAlone, runs <- dbRuns

ASSUME DbAssumption ==
    /\ Saved \in [Account -> Database \cup {None}]
    /\ None \notin Account \cup Database /\ DbKeep \in Nat
    /\ DbAsked \in [Proc -> SUBSET Db!Command]

-----------------------------------------------------------------------------
\* agent-excel.
CONSTANTS Path, Name, First, Kept, XlGiven, XlAsked, MaxRow, MaxCol, Preview, Numbers,
          Texts, XlFail, Broken, XlRuns, MaxEdits

VARIABLES xlDisk, xlState, xlProc, xlMeant, xlRuns, xlEdits
xlBooks == <<xlDisk, xlState, xlProc, xlMeant, xlRuns, xlEdits>>

Xl == INSTANCE ExcelSession WITH
    Fail <- XlFail, Given <- XlGiven, Command <- XlAsked, MaxRuns <- XlRuns, disk <- xlDisk,
    state <- xlState, proc <- xlProc, meant <- xlMeant, runs <- xlRuns, edits <- xlEdits

ASSUME XlAssumption ==
    /\ MaxRow \in Nat \ {0} /\ MaxCol \in Nat /\ Preview \in Nat
    /\ Numbers \subseteq Int /\ Texts \subseteq Int
    /\ First \in Name /\ Kept \subseteq Path /\ XlGiven \subseteq Xl!Loadable
    /\ None \notin Path \cup Numbers \cup Xl!Value \cup Xl!Sheet \cup Xl!Workbook
    /\ Broken \notin Xl!Workbook /\ \A rows \in SUBSET Xl!Row : rows # XlFail
    /\ XlAsked \in [Proc -> SUBSET Xl!Commands]

-----------------------------------------------------------------------------
\* agent-zpc.
CONSTANTS Lesson, Problem, Automatic, When, ZpcGiven, ZpcRuns, MaxFaults

VARIABLES zFiles, zProc, zNext, zRenamed, zRaced, zDoubled, zFiled, zTold, zAlone,
          zRuns, zFaults
zpcState == <<zFiles, zProc, zNext, zRenamed, zRaced, zDoubled, zFiled, zTold, zAlone,
              zRuns, zFaults>>

Zpc == INSTANCE ZpcStore WITH
    Auto <- Automatic, Given <- ZpcGiven, MaxRuns <- ZpcRuns, files <- zFiles, proc <- zProc,
    next <- zNext, renamed <- zRenamed, raced <- zRaced, doubled <- zDoubled,
    filed <- zFiled, told <- zTold, alone <- zAlone, runs <- zRuns, faults <- zFaults

ASSUME ZpcAssumption ==
    /\ {} \notin When /\ None \notin Zpc!Ids("global")
    /\ \A g \in ZpcGiven : Zpc!WellKept(g)

-----------------------------------------------------------------------------
\* What the tools that were not picked hold.
DbOff ==
    /\ dbProfiles = None /\ dbTorn = None /\ dbSession = None /\ dbCommitted = None
    /\ dbProc = None /\ dbExecuted = None /\ dbBegun = None /\ dbMarked = None
    /\ dbEntries = None /\ dbAlone = None /\ dbRuns = None
XlOff ==
    /\ xlDisk = None /\ xlState = None /\ xlProc = None /\ xlMeant = None
    /\ xlRuns = None /\ xlEdits = None
ZpcOff ==
    /\ zFiles = None /\ zProc = None /\ zNext = None /\ zRenamed = None
    /\ zRaced = None /\ zDoubled = None /\ zFiled = None /\ zTold = None
    /\ zAlone = None /\ zRuns = None /\ zFaults = None
PsqlOff == Init /\ profiles = [a \in Account |-> None]

ToolsInit ==
    /\ tool \in Tools
    /\ IF tool = "psql" THEN Init ELSE PsqlOff
    /\ IF tool = "db" THEN Db!Init ELSE DbOff
    /\ IF tool = "excel" THEN Xl!Init ELSE XlOff
    /\ IF tool = "zpc" THEN Zpc!Init ELSE ZpcOff

ToolsNext ==
    /\ UNCHANGED tool
    /\ IF tool = "psql" THEN Next ELSE UNCHANGED vars
    /\ IF tool = "db" THEN Db!Next ELSE UNCHANGED dbState
    /\ IF tool = "excel" THEN Xl!Next ELSE UNCHANGED xlBooks
    /\ IF tool = "zpc" THEN Zpc!Next ELSE UNCHANGED zpcState

toolsVars == <<tool, vars, dbState, xlBooks, zpcState>>
ToolsSpec == ToolsInit /\ [][ToolsNext]_toolsVars

-----------------------------------------------------------------------------
\* DbSession: no write since a begin is in the database before its commit, or
\* after its rollback; and the session's profile and database were one entry of
\* the profiles.
NothingEscapes == tool = "db" => Db!NothingEscapes /\ Db!SessionIsOneEntry
\* DbSession: what commit reports to be committed is in a database; it is not.
CommitKeepsWork == tool = "db" => Db!CommitKeepsWork
\* ExcelSession: a sort loses no value and puts those sorted by in order, and
\* what the reading commands say of the columns survives it.
SortLosesNothing == tool = "excel" => Xl!SortKeepsValues /\ Xl!ReadsSurviveSort
\* ExcelSession: a save writes what the edits before it made; it does not.
EditsAreSaved == tool = "excel" => Xl!EditsAreSaved
\* ZpcStore: a row keeps the id readers know it by, and what was learned or
\* retracted stands in every store, but for what overlapping commands lose.
MemoryStands ==
    [][tool = "zpc" => /\ Zpc!RowsKeepIds
                       /\ (Zpc!LostHasCause /\ Zpc!RetractionReaches /\ Zpc!ToldIsOwn)']_toolsVars
=============================================================================
