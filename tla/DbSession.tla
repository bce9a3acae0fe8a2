------------------------------ MODULE DbSession ------------------------------
(***************************************************************************)
(* The session of agent-db (src/tools/agent-db/db_ops.py).  Every command  *)
(* is a process of its own: it loads session.json, connects anew through   *)
(* the profile named there, does its work and, if it has anything to keep, *)
(* rewrites session.json whole from what it loaded.  A transaction is a    *)
(* flag in that file: the connection it would belong to ends with the      *)
(* command.  The driver opens a transaction with the first statement and   *)
(* drops what was not committed when the process ends.                     *)
(***************************************************************************)
EXTENDS Naturals, Sequences

CONSTANTS
    Proc,       \* the processes
    Profile,    \* names of profiles
    Database,   \* the databases profiles point to
    Sqlite,     \* those of them that are SQLite files
    Write,      \* the writing statements, each executed once at most
    RowsOf,     \* those of them that return rows (INSERT ... RETURNING)
    Saved,      \* the profiles.json there is at first
    Asked,      \* bound: [Proc -> the commands it may be given]
    MaxRuns,    \* bound: commands
    Keep,       \* how many queries the history keeps
    None

VARIABLES
    profiles,   \* profiles.json: [Profile -> its database or None]
    torn,       \* profiles.json is truncated and not written
    session,    \* session.json; Blank when it is missing or truncated
    committed,  \* [Database -> the writes other connections see]
    proc,       \* the commands
    executed,   \* history: the writes a process has executed
    begun,      \* history: begin was the last of begin, commit, ... to succeed
    marked,     \* history: writes of the transaction that is open, or was rolled back
    entries,    \* history: every <<profile, database>> ever written
    alone,      \* history: no two commands overlapped and none was killed
    runs

dbVars == <<profiles, torn, session, committed, proc, executed, begun, marked,
            entries, alone, runs>>

Blank == [profile |-> None, database |-> None, tx |-> FALSE, history |-> <<>>]
Idle == [at |-> "idle"]

Reads == {"snapshot", "describe", "sample", "count", "relations"}
NoConnection == {"status", "history", "profiles", "disconnect"}
Command ==
    [op : {"connect", "remove"}, arg : Profile]
    \cup [op : {"add"}, arg : Profile \X Database]
    \cup [op : {"query", "export"}, arg : Write \cup {None}]    \* None: a SELECT
    \cup [op : {"explain"}, arg : Write]
    \cup [op : Reads \cup NoConnection \cup {"begin", "commit", "rollback"}, arg : {None}]

TypeOK ==
    /\ profiles \in [Profile -> Database \cup {None}] /\ torn \in BOOLEAN
    /\ session.tx \in BOOLEAN /\ Len(session.history) <= Keep
    /\ committed \in [Database -> SUBSET Write]
    /\ executed \subseteq Write /\ marked \subseteq executed
    /\ begun \in BOOLEAN /\ alone \in BOOLEAN
    /\ entries \subseteq Profile \X Database

Init ==
    /\ profiles = Saved /\ torn = FALSE /\ session = Blank
    /\ committed = [d \in Database |-> {}] /\ proc = [p \in Proc |-> Idle]
    /\ executed = {} /\ begun = FALSE /\ marked = {} /\ alone = TRUE
    /\ entries = {e \in Profile \X Database : Saved[e[1]] = e[2]} /\ runs = 0

-----------------------------------------------------------------------------
At(p, at) == proc[p].at = at
Op(p) == proc[p].cmd.op
Arg(p) == proc[p].cmd.arg
Mem(p) == proc[p].s
Becomes(p, r) == proc' = [proc EXCEPT ![p] = r]
Finish(p) == Becomes(p, Idle)
Saving(p, s) == Becomes(p, [proc[p] EXCEPT !.at = "save", !.s = s])
Quiet == UNCHANGED <<committed, executed, begun, marked>>

\* main: a process starts and loads the session; a truncated one is ignored.
Load(p, c) ==
    /\ At(p, "idle") /\ runs < MaxRuns /\ runs' = runs + 1
    /\ Becomes(p, [at |-> "loaded", cmd |-> c, db |-> None,
                   s |-> session])
    /\ alone' = (alone /\ \A q \in Proc : At(q, "idle"))
    /\ Quiet /\ UNCHANGED <<profiles, torn, session, entries>>

\* cmd_status, cmd_history, cmd_profiles: they only print.
Show(p) ==
    /\ At(p, "loaded") /\ Op(p) \in NoConnection \ {"disconnect"}
    /\ Finish(p)
    /\ Quiet /\ UNCHANGED <<profiles, torn, session, entries, alone, runs>>

\* cmd_disconnect, _clear_session: the file goes; without one a session is blank.
Disconnect(p) ==
    /\ At(p, "loaded") /\ Op(p) = "disconnect"
    /\ session' = Blank /\ begun' = FALSE /\ Finish(p)
    /\ UNCHANGED <<profiles, torn, committed, executed, marked, entries, alone, runs>>

\* cmd_profile_add, cmd_profile_remove: read all profiles, change one, write all.
ReadProfiles(p) ==
    /\ At(p, "loaded") /\ Op(p) \in {"add", "remove"}
    /\ IF torn \/ (Op(p) = "remove" /\ profiles[Arg(p)] = None)
       THEN Finish(p)
       ELSE Becomes(p, [proc[p] EXCEPT !.at = "staged", !.s =
                IF Op(p) = "add" THEN [profiles EXCEPT ![Arg(p)[1]] = Arg(p)[2]]
                                 ELSE [profiles EXCEPT ![Arg(p)] = None]])
    /\ Quiet /\ UNCHANGED <<profiles, torn, session, entries, alone, runs>>

TruncateProfiles(p) ==
    /\ At(p, "staged")
    /\ torn' = TRUE /\ Becomes(p, [proc[p] EXCEPT !.at = "refill"])
    /\ Quiet /\ UNCHANGED <<profiles, session, entries, alone, runs>>

WriteProfiles(p) ==
    /\ At(p, "refill")
    /\ profiles' = Mem(p) /\ torn' = FALSE
    /\ entries' = entries \cup {e \in Profile \X Database : Mem(p)[e[1]] = e[2]}
    /\ Finish(p)
    /\ Quiet /\ UNCHANGED <<session, alone, runs>>

\* The profile _get_connection goes by: connect's argument or the session's.
Wanted(p) == IF Op(p) = "connect" THEN Arg(p) ELSE Mem(p).profile

\* _get_connection: what is connected to and what the session says of it, when
\* the profile d is looked up.
OpenedStale(p, d) == [proc[p] EXCEPT !.at = "connected", !.db = d,     \* a mutant
                          !.s = [Mem(p) EXCEPT !.profile = Wanted(p)]]
Opened(p, d) == [proc[p] EXCEPT !.at = "connected", !.db = d,
                     !.s = [Mem(p) EXCEPT !.profile = Wanted(p), !.database = d]]

\* _connect_bounded: the driver's connect, refused or cut off after its time,
\* leaves the command without a connection, and it ends.
Dial(p, up) ==
    /\ At(p, "loaded") /\ Op(p) \notin NoConnection \cup {"add", "remove"}
    /\ IF /\ up /\ Wanted(p) # None
          /\ ~torn /\ profiles[Wanted(p)] # None
       THEN Becomes(p, Opened(p, profiles[Wanted(p)]))
       ELSE Finish(p)
    /\ Quiet /\ UNCHANGED <<profiles, torn, session, entries, alone, runs>>

\* cmd_connect: what was loaded goes on, transaction flag and history too.
Connect(p) ==
    /\ At(p, "connected") /\ Op(p) = "connect"
    /\ Saving(p, Mem(p))
    /\ Quiet /\ UNCHANGED <<profiles, torn, session, entries, alone, runs>>

\* Commands whose cursors only read, on a connection that ends with the command,
\* and that keep no history: the driver's transaction ends unnoticed.
Only(p, op) ==
    /\ At(p, "connected") /\ Op(p) = op
    /\ Finish(p)
    /\ Quiet /\ UNCHANGED <<profiles, torn, session, entries, alone, runs>>
Snapshot(p) == Only(p, "snapshot")
Describe(p) == Only(p, "describe")
Sample(p) == Only(p, "sample")
Count(p) == Only(p, "count")
Relations(p) == Only(p, "relations")

\* _add_to_history and the save in it.
Remember(p, w) == Saving(p, [Mem(p) EXCEPT !.history = Append(@, w)])
LastKept(h) == IF Len(h) > Keep THEN Tail(h) ELSE h

\* cmd_query (and cmd_export through it): a statement that returns rows (a
\* SELECT, a RETURNING, anything under EXPLAIN) is not committed; one that does
\* not is, unless the flag was set when the command started.  For SQLite --explain
\* adds nothing to the statement, which is then executed like any other.
Query(p) ==
    /\ At(p, "connected") /\ Op(p) \in {"query", "export", "explain"}
    /\ Arg(p) \notin executed
    /\ LET w == Arg(p)
           rows == \/ Op(p) = "explain" /\ proc[p].db \notin Sqlite
                   \/ w = None \/ w \in RowsOf
       IN /\ executed' = executed \cup ({w} \ {None})
          /\ marked' = IF begun THEN marked \cup ({w} \ {None}) ELSE marked
          /\ committed' = IF rows \/ Mem(p).tx THEN committed
                          ELSE [committed EXCEPT ![proc[p].db] = @ \cup {w}]
          /\ Remember(p, w)
    /\ UNCHANGED <<profiles, torn, session, begun, entries, alone, runs>>

\* The statement fails, or there is none left: the error is reported.
QueryFails(p) ==
    /\ At(p, "connected") /\ Op(p) \in {"query", "export", "explain"}
    /\ Finish(p)
    /\ Quiet /\ UNCHANGED <<profiles, torn, session, entries, alone, runs>>

\* cmd_begin: a second one is refused.
BeginForgets(p) ==      \* a mutant
    /\ At(p, "connected") /\ Op(p) = "begin"
    /\ IF Mem(p).tx THEN Finish(p) ELSE Saving(p, Mem(p))
    /\ Quiet /\ UNCHANGED <<profiles, torn, session, entries, alone, runs>>
Begin(p) ==
    /\ At(p, "connected") /\ Op(p) = "begin"
    /\ IF Mem(p).tx THEN Finish(p) ELSE Saving(p, [Mem(p) EXCEPT !.tx = TRUE])
    /\ Quiet /\ UNCHANGED <<profiles, torn, session, entries, alone, runs>>

\* cmd_commit, cmd_rollback: on the command's own connection, which has
\* executed nothing.
EndTransaction(p) ==
    /\ At(p, "connected") /\ Op(p) \in {"commit", "rollback"}
    /\ IF Mem(p).tx THEN Saving(p, [Mem(p) EXCEPT !.tx = FALSE]) ELSE Finish(p)
    /\ Quiet /\ UNCHANGED <<profiles, torn, session, entries, alone, runs>>

\* _save_session: write_text truncates the file and then writes it.
Truncate(p) ==
    /\ At(p, "save")
    /\ session' = Blank /\ Becomes(p, [proc[p] EXCEPT !.at = "rewrite"])
    /\ Quiet /\ UNCHANGED <<profiles, torn, entries, alone, runs>>

Save(p) ==
    /\ At(p, "rewrite")
    /\ session' = [Mem(p) EXCEPT !.history = LastKept(@)] /\ Finish(p)
    /\ begun' = CASE Op(p) = "begin" -> TRUE
                  [] Op(p) \in {"commit", "rollback"} -> FALSE
                  [] OTHER -> begun
    /\ marked' = IF Op(p) \in {"begin", "commit"} THEN {} ELSE marked
    /\ UNCHANGED <<profiles, torn, committed, executed, entries, alone, runs>>

\* A command is cut off: what it has not committed is dropped.
Kill(p) ==
    /\ ~At(p, "idle")
    /\ Finish(p) /\ alone' = FALSE
    /\ Quiet /\ UNCHANGED <<profiles, torn, session, entries, runs>>

Next == \E p \in Proc :
    \/ \E c \in Asked[p] : Load(p, c)
    \/ Show(p) \/ Disconnect(p)
    \/ ReadProfiles(p) \/ TruncateProfiles(p) \/ WriteProfiles(p)
    \/ \E up \in BOOLEAN : Dial(p, up)
    \/ Connect(p) \/ Snapshot(p) \/ Describe(p) \/ Sample(p) \/ Count(p) \/ Relations(p)
    \/ Query(p) \/ QueryFails(p)
    \/ Begin(p) \/ EndTransaction(p) \/ Truncate(p) \/ Save(p) \/ Kill(p)

-----------------------------------------------------------------------------
\* As long as commands come one after another, no write made after a begin is in
\* the database before the commit, nor ever after a rollback (db_ops.py:847): the
\* flag lives through every connect, query and change of profiles in between.
NothingEscapes ==
    alone => \A d \in Database : marked \cap committed[d] = {}

\* The profile and the database of the session file were one entry of the
\* profiles at some time, whatever commands add, replace, connect and save side
\* by side or are killed in the middle (db_ops.py:116, 222).
SessionIsOneEntry ==
    session = Blank \/ <<session.profile, session.database>> \in entries

\* What agent-db:42 says of begin, commit and rollback, and commit itself when it
\* reports "Transaction committed" (db_ops.py:968): the writes since the begin are
\* in a database.  The code does otherwise.
CommitKeepsWork ==
    alone => \A p \in Proc :
        (At(p, "rewrite") /\ Op(p) = "commit") => marked \subseteq UNION {committed[d] : d \in Database}

=============================================================================
