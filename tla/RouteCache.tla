---------------------------- MODULE RouteCache ----------------------------
(***************************************************************************)
(* lib/cache.py, the memory of routes in SQLite, as the runs of             *)
(* bin/intent-router use it: a request is looked up by its words, then by   *)
(* near ones, then a model is asked; the route is executed, and its outcome *)
(* is counted in the row the request belongs to.  Every statement commits   *)
(* by itself, so what a run read may be old when it writes.  The first run  *)
(* that opens a table of the earlier schema renames it, creates the new one *)
(* and moves the rows.  A database step may raise, and a run may be killed. *)
(*                                                                         *)
(* An intent stands for its normalized words, a route for a tool and its    *)
(* command line.  Near stands for both thresholds of the fuzzy match, and   *)
(* which of the near rows scores best is left open.                         *)
(***************************************************************************)
EXTENDS Naturals, FiniteSets

CONSTANTS Proc,      \* processes that run the router, one run after another
          Intent,    \* normalized intents
          Near,      \* pairs of intents whose words overlap enough
          Project,   \* project roots
          Anywhere,  \* the scope outside every project, the empty string
          Route,     \* what a request resolves to
          NoRow, NoTable,
          Asked,     \* the requests that are made
          MaxRun,    \* bound on the runs
          MaxFault   \* bound on kills, database errors and changed tools

Scope == Project \cup {Anywhere}
Job == [intent : Intent, scope : Scope, mode : {"run", "dry", "how"}]

\* A row of patterns; `of` is history: the routes whose outcomes it counts.
Row == [result : Route, hits : Nat, executions : Nat, successes : Nat,
        failures : Nat, of : SUBSET Route]

Key == [scope : Scope, intent : Intent]
Rows == [Key -> Row \cup {NoRow}]

ASSUME RouteCacheAssumption ==
    /\ Near \subseteq Intent \X Intent
    /\ Anywhere \notin Project
    /\ Asked \subseteq Job
    /\ {MaxRun, MaxFault} \subseteq Nat
    /\ NoRow \notin Row /\ NoTable \notin Rows

Empty == [k \in Key |-> NoRow]
Global(i) == [scope |-> Anywhere, intent |-> i]

VARIABLES
    patterns,    \* the rows of the table patterns
    schema,      \* "none", "old" (without cache_key) or "new"
    legacy,      \* the rows of patterns_legacy, or NoTable
    supported,   \* the routes whose tool is installed
    pc,
    run,         \* per process: the request and what the run knows
    \* history
    told,        \* per intent: the outcomes of executed routes, and old hits
    disturbed,   \* intents whose count was cut off, or read by two at once
    shared,      \* intents of two runs at once
    swapped,     \* a tool was missing once, or an explanation was asked for
    crowded,     \* a run went to the database while another one migrated
    stranded,    \* a migration was cut off between its new table and its end
    runs, faults

store == <<patterns, schema, legacy>>
history == <<told, disturbed, shared, swapped, crowded, stranded>>
vars == <<store, supported, pc, run, history, runs, faults>>

\* op: what the connection is for; fell: main's handler was reached.
Request(j) == [job |-> j, op |-> "check", got |-> NoRow, key |-> NoRow,
               snap |-> NoRow, rows |-> NoTable, won |-> FALSE, fell |-> FALSE]

Goto(p, l) == pc' = [pc EXCEPT ![p] = l]

\* A new connection, for the operation op.
Connect(p, op, r) ==
    /\ Goto(p, "open")
    /\ run' = [run EXCEPT ![p] = [r EXCEPT !.op = op, !.key = NoRow, !.snap = NoRow, !.rows = NoTable,
                                           !.got = IF op = "fuzzy" THEN NoRow ELSE @]]

End(p) ==
    /\ Goto(p, "idle")
    /\ run' = [run EXCEPT ![p] = NoRow]

Moving(p) == pc[p] \in {"rename", "create", "look", "migrate"}

\* An outcome that is to be counted, and one whose row was read for that.
Counting(p) == pc[p] # "idle" /\ run[p].op \in {"note", "keep"}
Reading(p, k) == pc[p] \in {"put", "count"} /\ run[p].key = k

MyKey(j) == [scope |-> j.scope, intent |-> j.intent]

(***************************************************************************)
(* A database step that raises.  main catches the first error of a run,     *)
(* tries the near rows again, and executes what it finds there; a second    *)
(* error ends the run.  An outcome that was to be counted is not.           *)
(***************************************************************************)
Raise(p) ==
    /\ IF run[p].fell THEN End(p)
                      ELSE Connect(p, "fuzzy", [run[p] EXCEPT !.fell = TRUE])
    /\ disturbed' = disturbed \cup (IF Counting(p) THEN {run[p].job.intent} ELSE {})
    /\ stranded' = (stranded \/ pc[p] \in {"look", "migrate"})
    /\ UNCHANGED <<store, supported, told, shared, swapped, crowded, runs>>

(***************************************************************************)
(* init_db.                                                                *)
(***************************************************************************)
\* PRAGMA table_info: is there a table, and has it the key of this version?
Open(p) ==
    /\ pc[p] = "open"
    /\ Goto(p, CASE schema = "new"  -> run[p].op
                 [] schema = "old"  -> "rename"
                 [] schema = "none" -> "create")
    /\ crowded' = (crowded \/ \E q \in Proc : Moving(q))
    /\ UNCHANGED <<store, supported, run, told, disturbed, shared, swapped, stranded, runs, faults>>

\* ALTER TABLE patterns RENAME TO patterns_legacy
Rename(p) ==
    /\ pc[p] = "rename"
    /\ schema # "none" /\ legacy = NoTable
    /\ legacy' = patterns
    /\ patterns' = Empty
    /\ schema' = "none"
    /\ Goto(p, "create")
    /\ UNCHANGED <<supported, run, history, runs, faults>>

RenameRefused(p) ==
    /\ pc[p] = "rename"
    /\ schema = "none" \/ legacy # NoTable
    /\ Raise(p) /\ UNCHANGED faults

\* Mutant: a new table is taken for a new installation.
CreateOnly(p) ==
    /\ pc[p] = "create"
    /\ schema' = "new"
    /\ Goto(p, run[p].op)
    /\ UNCHANGED <<patterns, legacy, supported, run, history, runs, faults>>

\* CREATE TABLE IF NOT EXISTS, and the indexes.
Create(p) ==
    /\ pc[p] = "create"
    /\ schema' = "new"
    /\ Goto(p, "look")
    /\ UNCHANGED <<patterns, legacy, supported, run, history, runs, faults>>

\* Is there a legacy table?  Its rows are read before anything is written.
Look(p) ==
    /\ pc[p] = "look"
    /\ IF legacy = NoTable
       THEN Goto(p, run[p].op) /\ UNCHANGED run
       ELSE Goto(p, "migrate") /\ run' = [run EXCEPT ![p].rows = legacy]
    /\ UNCHANGED <<store, supported, history, runs, faults>>

Migrated(row) == [row EXCEPT !.executions = row.hits, !.successes = row.hits,
                             !.failures = 0, !.of = {row.result}]

\* The rows go to the scope outside projects; of two scopes the last one stays.
\* The inserts, the DROP and the commit are one transaction.
Migrate(p) ==
    /\ pc[p] = "migrate"
    /\ schema = "new" /\ legacy # NoTable
    /\ \E from \in [Intent -> Scope] :
          LET rows    == run[p].rows
              Source(i) == [scope |-> from[i], intent |-> i]
              held    == {i \in Intent : \E k \in Key : k.intent = i /\ rows[k] # NoRow}
          IN  /\ \A i \in held : rows[Source(i)] # NoRow
              /\ \A i \in Intent \ held : from[i] = Anywhere
              /\ patterns' = [k \in Key |->
                    IF k.scope = Anywhere /\ k.intent \in held
                    THEN Migrated(rows[Source(k.intent)]) ELSE patterns[k]]
    /\ legacy' = NoTable
    /\ Goto(p, run[p].op)
    /\ run' = [run EXCEPT ![p].rows = NoTable]
    /\ UNCHANGED <<schema, supported, history, runs, faults>>

MigrateFails(p) ==
    /\ pc[p] = "migrate"
    /\ schema # "new" \/ legacy = NoTable
    /\ Raise(p) /\ UNCHANGED faults

(***************************************************************************)
(* The routing of a request.                                               *)
(***************************************************************************)
Begin(p, j) ==
    /\ pc[p] = "idle" /\ runs < MaxRun
    /\ Connect(p, "check", Request(j))
    /\ shared' = shared \cup {i \in {j.intent} : \E q \in Proc : pc[q] # "idle" /\ run[q].job.intent = i}
    /\ swapped' = (swapped \/ j.mode = "how")
    /\ runs' = runs + 1
    /\ UNCHANGED <<store, supported, told, disturbed, crowded, stranded, faults>>

\* The rows a request may use: those of its project and those of nobody's.
Visible(j) == {k \in Key : k.scope \in {j.scope, Anywhere} /\ patterns[k] # NoRow}

\* The row of exactly this intent, that of the project first.
Exact(j) == LET rows == {k \in Visible(j) : k.intent = j.intent}
            IN  IF MyKey(j) \in rows THEN {MyKey(j)} ELSE rows

\* A route that was found is executed if its tool is installed; an explanation
\* is not taken from the memory, but for main's handler.
Usable(p, route) == route \in supported /\ (run[p].job.mode # "how" \/ run[p].fell)

\* Mutant: near rows are asked before the exact one.
CheckLast(p) ==
    /\ pc[p] = "check" /\ schema = "new"
    /\ Connect(p, "fuzzy", run[p])
    /\ UNCHANGED <<store, supported, history, runs, faults>>

\* check_cache: the hit is counted in a statement of its own.
Check(p) ==
    /\ pc[p] = "check" /\ schema = "new"
    /\ IF Exact(run[p].job) = {}
       THEN Connect(p, "fuzzy", run[p])
       ELSE \E k \in Exact(run[p].job) :
               /\ Goto(p, "touch")
               /\ run' = [run EXCEPT ![p].got = patterns[k].result, ![p].key = k]
    /\ UNCHANGED <<store, supported, history, runs, faults>>

Touched(row) == IF row = NoRow THEN NoRow ELSE [row EXCEPT !.hits = @ + 1]

Touch(p) ==
    /\ pc[p] = "touch" /\ schema = "new"
    /\ patterns' = [patterns EXCEPT ![run[p].key] = Touched(@)]
    /\ IF Usable(p, run[p].got) THEN Goto(p, "execute") /\ UNCHANGED run
                                ELSE Connect(p, "fuzzy", run[p])
    /\ UNCHANGED <<schema, legacy, supported, history, runs, faults>>

\* fuzzy_match: the best of the near rows.  Near is what main's handler accepts;
\* before, only the row of the intent itself is near enough for certain.
Fuzzy(p) ==
    /\ pc[p] = "fuzzy" /\ schema = "new"
    /\ LET j    == run[p].job
           near == {k \in Visible(j) : <<j.intent, k.intent>> \in Near}
           None == IF run[p].fell THEN End(p) ELSE Goto(p, "ask") /\ UNCHANGED run
       IN  \/ /\ near = {} \/ (~run[p].fell /\ j.intent \notin {k.intent : k \in near})
              /\ None
           \/ \E k \in near :
                 IF Usable(p, patterns[k].result)
                 THEN /\ Goto(p, "execute")
                      /\ run' = [run EXCEPT ![p].got = patterns[k].result]
                 ELSE None
    /\ UNCHANGED <<store, supported, history, runs, faults>>

\* The model answers with a route, with a question or with nothing to execute;
\* an answer that is not JSON ends the run as these do.
Ask(p) ==
    /\ pc[p] = "ask"
    /\ \/ \E route \in Route : Connect(p, "save", [run[p] EXCEPT !.got = route])
       \/ End(p)
    /\ UNCHANGED <<store, supported, history, runs, faults>>

\* No provider can be asked: an exception for main.
AskFails(p) == pc[p] = "ask" /\ Raise(p) /\ UNCHANGED faults

(***************************************************************************)
(* cache_result, for a new answer or for an outcome without a row: the      *)
(* counts are read, and the row is replaced by one with these counts.       *)
(***************************************************************************)
\* A row is read to be written: two that do it at once disturb the count.
Snapshot(p, k) ==
    /\ run' = [run EXCEPT ![p].key = k, ![p].snap = patterns[k]]
    /\ disturbed' = disturbed \cup
                       {i \in {k.intent} : \E q \in Proc \ {p} : Reading(q, k)}

Save(p) ==
    /\ pc[p] \in {"save", "keep"} /\ schema = "new"
    /\ Snapshot(p, MyKey(run[p].job))
    /\ Goto(p, "put")
    /\ UNCHANGED <<store, supported, told, shared, swapped, crowded, stranded, runs, faults>>

\* Mutant: INSERT OR REPLACE with the defaults of the table.
CountsFresh(snap, route) ==
    [result |-> route, hits |-> 0, executions |-> 0, successes |-> 0,
     failures |-> 0, of |-> {}]

Counts(snap, route) ==
    IF snap = NoRow
    THEN [result |-> route, hits |-> 0, executions |-> 0, successes |-> 0,
          failures |-> 0, of |-> {}]
    ELSE [snap EXCEPT !.result = route]

Put(p) ==
    /\ pc[p] = "put" /\ schema = "new"
    /\ patterns' = [patterns EXCEPT ![run[p].key] = Counts(run[p].snap, run[p].got)]
    /\ Goto(p, IF run[p].op = "save" THEN "execute" ELSE "reread")
    /\ run' = [run EXCEPT ![p].snap = NoRow]
    /\ UNCHANGED <<schema, legacy, supported, history, runs, faults>>

(***************************************************************************)
(* execute.  A dry run prints, a dangerous route asks first; the run for an *)
(* explanation executes like any other.                                    *)
(***************************************************************************)
Stop(p) ==
    /\ pc[p] = "execute"
    /\ End(p)
    /\ UNCHANGED <<store, supported, history, runs, faults>>

Met(tally, ok) == IF ok THEN [tally EXCEPT !.successes = @ + 1]
                        ELSE [tally EXCEPT !.failures = @ + 1]

Execute(p) ==
    /\ pc[p] = "execute" /\ run[p].job.mode # "dry"
    /\ \E ok \in BOOLEAN :
          /\ ok => run[p].got \in supported
          /\ told' = [told EXCEPT ![run[p].job.intent] = Met(@, ok)]
          /\ Connect(p, "note", [run[p] EXCEPT !.won = ok])
    /\ UNCHANGED <<store, supported, disturbed, shared, swapped, crowded, stranded, runs, faults>>

(***************************************************************************)
(* note_route_outcome.                                                     *)
(***************************************************************************)
\* The row of the project, or else of nobody's, or else a new one.
Note(p) ==
    /\ pc[p] = "note" /\ schema = "new"
    /\ IF Exact(run[p].job) = {}
       THEN Connect(p, "keep", run[p]) /\ UNCHANGED disturbed
       ELSE \E k \in Exact(run[p].job) : Snapshot(p, k) /\ Goto(p, "count")
    /\ UNCHANGED <<store, supported, told, shared, swapped, crowded, stranded, runs, faults>>

\* The row just created is read again.
Reread(p) ==
    /\ pc[p] = "reread" /\ schema = "new"
    /\ IF patterns[run[p].key] = NoRow
       THEN End(p) /\ UNCHANGED disturbed
       ELSE Snapshot(p, run[p].key) /\ Goto(p, "count")
    /\ UNCHANGED <<store, supported, told, shared, swapped, crowded, stranded, runs, faults>>

\* The counts are those that were read, and one more.
Counted(row, r) ==
    IF row = NoRow THEN NoRow
    ELSE [row EXCEPT !.executions = r.snap.executions + 1,
                     !.successes  = r.snap.successes + (IF r.won THEN 1 ELSE 0),
                     !.failures   = r.snap.failures + (IF r.won THEN 0 ELSE 1),
                     !.of         = r.snap.of \cup {r.got}]

Count(p) ==
    /\ pc[p] = "count" /\ schema = "new"
    /\ patterns' = [patterns EXCEPT ![run[p].key] = Counted(@, run[p])]
    /\ End(p)
    /\ UNCHANGED <<schema, legacy, supported, history, runs, faults>>

(***************************************************************************)
(* What may happen to a run, and to the tools.                             *)
(***************************************************************************)
Statements == {"check", "touch", "fuzzy", "save", "keep", "put", "note", "reread", "count"}

\* no such table: patterns
TableGone(p) == pc[p] \in Statements /\ schema # "new" /\ Raise(p) /\ UNCHANGED faults

\* A database that stays locked, a full disk.
DatabaseFails(p) ==
    /\ pc[p] \in Statements \cup {"open", "rename", "create", "look", "migrate"}
    /\ faults < MaxFault /\ faults' = faults + 1
    /\ Raise(p)

\* The process is killed; what it had not committed is gone.
Kill(p) ==
    /\ pc[p] # "idle"
    /\ faults < MaxFault /\ faults' = faults + 1
    /\ End(p)
    /\ disturbed' = disturbed \cup (IF Counting(p) THEN {run[p].job.intent} ELSE {})
    /\ stranded' = (stranded \/ pc[p] \in {"look", "migrate"})
    /\ UNCHANGED <<store, supported, told, shared, swapped, crowded, runs>>

\* A tool is installed or removed.
ChangeTools(route) ==
    /\ supported' = IF route \in supported THEN supported \ {route}
                                           ELSE supported \cup {route}
    /\ swapped' = TRUE
    /\ faults < MaxFault /\ faults' = faults + 1
    /\ UNCHANGED <<store, pc, run, told, disturbed, shared, crowded, stranded, runs>>

OldRow(route) == [Counts(NoRow, route) EXCEPT !.hits = 1]

Init ==
    /\ \/ schema \in {"none", "new"} /\ patterns = Empty
       \/ /\ schema = "old"
          /\ patterns \in [Key -> {NoRow} \cup {OldRow(route) : route \in Route}]
          /\ \A k \in Key : patterns[k] # NoRow => k.scope = Anywhere
    /\ legacy = NoTable
    /\ supported = Route
    /\ pc = [p \in Proc |-> "idle"]
    /\ run = [p \in Proc |-> NoRow]
    /\ told = [i \in Intent |->
                 [successes |-> IF patterns[Global(i)] = NoRow THEN 0
                                ELSE patterns[Global(i)].hits,
                  failures |-> 0]]
    /\ disturbed = {} /\ shared = {}
    /\ swapped = FALSE /\ crowded = FALSE /\ stranded = FALSE
    /\ runs = 0 /\ faults = 0

Step(p) ==
    \/ Open(p) \/ Rename(p) \/ RenameRefused(p) \/ Create(p) \/ Look(p)
    \/ Migrate(p) \/ MigrateFails(p)
    \/ Check(p) \/ Touch(p) \/ Fuzzy(p) \/ Ask(p) \/ AskFails(p)
    \/ Save(p) \/ Put(p) \/ Stop(p) \/ Execute(p)
    \/ Note(p) \/ Reread(p) \/ Count(p)
    \/ TableGone(p) \/ DatabaseFails(p) \/ Kill(p)

Next ==
    \/ \E p \in Proc : Step(p) \/ \E j \in Asked : Begin(p, j)
    \/ \E route \in Route : ChangeTools(route)

Spec == Init /\ [][Next]_vars

Labels == Statements \cup {"idle", "open", "rename", "create", "look", "migrate",
                           "ask", "execute"}

Run == [job : Asked, op : {"check", "fuzzy", "save", "keep", "note"},
        got : Route \cup {NoRow}, key : Key \cup {NoRow},
        snap : Row \cup {NoRow}, rows : Rows \cup {NoTable},
        won : BOOLEAN, fell : BOOLEAN]

\* The type of every variable.
TypeOK ==
    /\ patterns \in Rows /\ schema \in {"none", "old", "new"}
    /\ legacy \in Rows \cup {NoTable}
    /\ supported \subseteq Route
    /\ pc \in [Proc -> Labels]
    /\ run \in [Proc -> Run \cup {NoRow}]
    /\ told \in [Intent -> [successes : Nat, failures : Nat]]
    /\ disturbed \subseteq Intent /\ shared \subseteq Intent
    /\ {swapped, crowded, stranded} \subseteq BOOLEAN
    /\ runs \in 0 .. MaxRun /\ faults \in 0 .. MaxFault
---------------------------------------------------------------------------
(***************************************************************************)
(* CountsAreEarned.  The outcomes a row counts add up, whatever overlaps:   *)
(* each row is written from one reading.  Unless a run overlapped with a    *)
(* migration, the rows of an intent together count no more successes or     *)
(* failures than were met; and once the earlier table is moved, all of them *)
(* are counted, but for an intent whose count was read by two runs at once, *)
(* or cut off.                                                             *)
(***************************************************************************)
RowsOf(i) == {k \in Key : k.intent = i /\ patterns[k] # NoRow}

\* The outcomes the rows of an intent count, each with its number in its row.
Score(row, ok) == IF ok THEN row.successes ELSE row.failures
Outcomes(i, ok) == UNION {{k} \X (1 .. Score(patterns[k], ok)) : k \in RowsOf(i)}
Total(i, ok) == Cardinality(Outcomes(i, ok))

Adds(row) == row.executions = row.successes + row.failures
CountsAddUp == \A k \in Key : patterns[k] # NoRow => Adds(patterns[k])

CountsAreEarned ==
    /\ CountsAddUp
    /\ schema = "new" /\ ~crowded => \A i \in Intent, ok \in BOOLEAN :
          /\ Total(i, ok) <= Score(told[i], ok)
          /\ \/ legacy # NoTable \/ i \in disturbed
             \/ \E p \in Proc : Counting(p) /\ run[p].job.intent = i
             \/ Total(i, ok) = Score(told[i], ok)

(***************************************************************************)
(* CreditIsOwn.  "The router learns which route actually works" only if the *)
(* outcomes a row counts are those of the route it holds.  They are, as     *)
(* long as no tool was missing, no explanation was asked for, no two runs   *)
(* asked for the intent at once, none during a migration, and nothing failed.*)
(***************************************************************************)
CreditIsOwn ==
    schema = "new" /\ ~swapped /\ ~crowded /\ faults = 0 =>
        \A k \in Key : (k.intent \notin shared /\ patterns[k] # NoRow) =>
            patterns[k].of \subseteq {patterns[k].result}

(***************************************************************************)
(* LegacyIsMoved.  A table of the earlier schema that was renamed is moved  *)
(* by somebody: it waits for the next run while there is no new table, and  *)
(* is being moved while there is one.  It is stranded only if a run was cut *)
(* off just there, or runs overlapped in it.                               *)
(***************************************************************************)
LegacyIsMoved ==
    legacy # NoTable =>
        schema = "none" \/ stranded \/ crowded
        \/ \E p \in Proc : pc[p] \in {"look", "migrate"}
===========================================================================
