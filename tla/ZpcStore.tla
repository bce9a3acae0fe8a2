------------------------------ MODULE ZpcStore ------------------------------
(***************************************************************************)
(* The memory of agent-zpc: lessons.jsonl of a project and global-lessons  *)
(* of the machine (src/tools/agent-zpc/lib/epistemics.py, epistemics.sh,   *)
(* memory.sh, intelligence.sh).  A row is appended without an id; readers  *)
(* derive one from its content and its place among equal rows, and the     *)
(* backfill writes what they derive into the file: it reads the whole      *)
(* file and replaces it.  A correction is a row that names another one.    *)
(* Nothing locks a store, so commands of several sessions overlap.         *)
(***************************************************************************)
EXTENDS Naturals, FiniteSets, SequencesExt

CONSTANTS
    Proc,
    Lesson,     \* what a row says: context, problem, solution, takeaway, tags
    Problem,    \* [Lesson -> its date, context and problem: key_of]
    Auto,       \* the lessons a machine wrote
    When,       \* sets of moments that a promotion may name
    Given,      \* pairs of stores to start with
    None,
    MaxRuns, MaxFaults      \* bounds: commands, kills and failed backfills

VARIABLES
    files,      \* the two stores, as lines
    proc,       \* the commands
    \* history
    next,       \* lines written so far: every line carries its number
    renamed,    \* lines that a promotion renewed before they had an id
    raced,      \* lines that were appended while a rewrite was on its way
    doubled,    \* ids promoted while another command ran
    filed,      \* retractions reported as done: id and number of the row
    told,       \* what learn reported: number of the row and id
    alone,      \* the commands that ran by themselves so far
    runs, faults

zpcVars == <<files, proc, next, renamed, raced, doubled, filed, told, alone, runs, faults>>
history == <<renamed, doubled, filed, told>>

Store == {"project", "global"}
Other(s) == IF s = "project" THEN "global" ELSE "project"

\* Lines.  fires: the moments of a promoted lesson.
Claim(id, lesson, fires, n) ==
    [kind |-> "claim", id |-> id, lesson |-> lesson, fires |-> fires, n |-> n]
Correction(verb, id, n) == [kind |-> verb, of |-> id, n |-> n]

IsClaim(r) == r.kind = "claim"
Content(r) == <<r.lesson, r.fires>>
Id(r, nonce) == <<Content(r), nonce>>

-----------------------------------------------------------------------------
\* Mutant: equal rows are numbered from the newest one.
AssignFromNewest(file) ==
    [i \in DOMAIN file |->
        IF ~IsClaim(file[i]) \/ file[i].id # None THEN file[i]
        ELSE [file[i] EXCEPT !.id = Id(file[i], Cardinality({j \in DOMAIN file : j > i /\
                 IsClaim(file[j]) /\ Content(file[j]) = Content(file[i])}))]]

\* A claim without an id takes the first nonce whose id no row of the file has and
\* none of the rows before it takes: the k-th row like it, the k-th one that is free.
Nameless(r) == IsClaim(r) /\ r.id = None
AssignIds(file) ==
    LET stored == {r.id : r \in {x \in ToSet(file) : IsClaim(x)}}
        Earlier(i) == {j \in 1..(i - 1) : /\ Nameless(file[j])
                                          /\ Content(file[j]) = Content(file[i])}
        Free(i) == {k \in 0..Len(file) : Id(file[i], k) \notin stored}
        Nonce(i) == CHOOSE k \in Free(i) :
                        Cardinality({m \in Free(i) : m < k}) = Cardinality(Earlier(i))
    IN [i \in DOMAIN file |->
            IF Nameless(file[i]) THEN [file[i] EXCEPT !.id = Id(file[i], Nonce(i))] ELSE file[i]]

Claims(file) == {r \in ToSet(AssignIds(file)) : IsClaim(r)}
Resolves(file, id) == \E r \in Claims(file) : r.id = id
\* Of rows with one id the last is the one that corrections are about.
Meant(file, id) == LET rows == AssignIds(file)
                       at == {i \in DOMAIN rows : IsClaim(rows[i]) /\ rows[i].id = id}
                   IN rows[CHOOSE i \in at : \A j \in at : j <= i]
Retracted(file, r) == /\ \E c \in ToSet(file) : c.kind = "retracts" /\ c.of = r.id
                      /\ r = Meant(file, r.id)
LiveClaims(file) == {r \in Claims(file) : ~Retracted(file, r)}

-----------------------------------------------------------------------------
\* What a line of a store is.  Only the machine's lessons have moments, and an id
\* keeps those its row had when it was derived.
Moments(s) == IF s = "project" THEN {{}} ELSE When \cup {{}}
Ids(s) == (Lesson \X Moments(s)) \X Nat
ClaimRow(s) ==
    {r \in [kind : {"claim"}, id : Ids(s) \cup {None}, lesson : Lesson, fires : Moments(s), n : Nat] :
        r.id # None => r.id[1][1] = r.lesson}
Row(s) == ClaimRow(s) \cup [kind : {"retracts", "challenges"}, of : Ids("global"), n : Nat]
                      \cup [kind : {"unreadable"}, n : Nat]

\* Two stores to start with: their lines are counted through, and no id stands twice.
Numbered(g) == 1..(Len(g["project"]) + Len(g["global"]))
WellKept(g) ==
    /\ DOMAIN g = Store /\ \A s \in Store : g[s] \in Seq(Row(s))
    /\ \A s, t \in Store : \A i \in DOMAIN g[s], j \in DOMAIN g[t] :
          g[s][i].n = g[t][j].n => s = t /\ i = j
    /\ Numbered(g) = UNION {{g[s][i].n : i \in DOMAIN g[s]} : s \in Store}
    /\ \A s \in Store : \A i, j \in DOMAIN g[s] :
          (IsClaim(g[s][i]) /\ IsClaim(g[s][j]) /\ g[s][i].id = g[s][j].id)
          => i = j \/ g[s][i].id = None

-----------------------------------------------------------------------------
Idle == [at |-> "idle"]
Becomes(p, r) == proc' = [proc EXCEPT ![p] = r]
Running(p) == proc[p].at # "idle"

TypeOK ==
    /\ DOMAIN files = Store /\ next \in Nat /\ raced \subseteq 1..next
    /\ \A s \in Store : \A r \in ToSet(files[s]) :
          r.kind \in {"claim", "retracts", "challenges", "unreadable"} /\ r.n \in 1..next
    /\ \A p \in Proc : proc[p].at \in {"idle", "load", "replace", "append", "tell", "twin",
                                       "dest", "write"}

Init ==
    /\ files \in Given
    /\ next = Len(files["project"]) + Len(files["global"])
    /\ proc = [p \in Proc |-> Idle]
    /\ renamed = {} /\ raced = {} /\ doubled = {} /\ filed = {} /\ told = {}
    /\ alone = {} /\ runs = 0 /\ faults = 0

\* Whoever starts while another command runs is not alone, and neither is that one.
Begin(p) ==
    /\ ~Running(p) /\ runs < MaxRuns /\ runs' = runs + 1
    /\ alone' = IF \E q \in Proc : Running(q) THEN {} ELSE {p}
    /\ UNCHANGED faults

\* echo >> file: one write, at the end of the file of that moment.
AppendTo(p, s, r) ==
    /\ files' = [files EXCEPT ![s] = Append(@, r)]
    /\ next' = next + 1
    /\ raced' = IF \E q \in Proc \ {p} : proc[q].at \in {"replace", "write"} /\ proc[q].store = s
                THEN raced \cup {next'} ELSE raced

Replace(s, lines) == files' = [files EXCEPT ![s] = lines] /\ UNCHANGED <<next, raced>>
Keep == UNCHANGED <<files, next, raced>>

\* learn: the row first, then ids for all that have none.
Learn(p, lesson) ==
    /\ Begin(p)
    /\ AppendTo(p, "project", Claim(None, lesson, {}, next + 1))
    /\ Becomes(p, [at |-> "load", store |-> "project", then |-> "tell", n |-> next + 1])
    /\ UNCHANGED history

\* retract --backfill
Backfill(p) ==
    /\ Begin(p) /\ Keep
    /\ Becomes(p, [at |-> "load", store |-> "project", then |-> "end"])
    /\ UNCHANGED history

\* retract: the store that has the id, the project's first; without evidence it
\* is refused before anything is written.
Retract(p, verb, id, evidence) ==
    /\ Begin(p) /\ Keep /\ UNCHANGED history
    /\ \E s \in Store : Resolves(files[s], id)
    /\ LET s == IF Resolves(files["project"], id) THEN "project" ELSE "global" IN
       IF ~evidence THEN UNCHANGED proc
       ELSE Becomes(p, [at |-> "load", store |-> s, then |-> "append", verb |-> verb, id |-> id,
                        first |-> TRUE, lines |-> {}])

\* load: _zpc_backfill reads the file, and is done if every claim has its id, or
\* if it fails, which nobody is told of.
Then(p) == IF proc[p].then = "end" THEN Becomes(p, Idle)
           ELSE Becomes(p, [proc[p] EXCEPT !.at = proc[p].then])
LoadStore(p) ==
    LET file == files[proc[p].store] IN
    /\ proc[p].at = "load" /\ Keep /\ UNCHANGED <<history, alone, runs>>
    /\ \/ /\ AssignIds(file) # file
          /\ Becomes(p, [at |-> "replace", lines |-> AssignIds(file), of |-> proc[p],
                         store |-> proc[p].store])
          /\ UNCHANGED faults
       \/ AssignIds(file) = file /\ Then(p) /\ UNCHANGED faults
       \/ faults < MaxFaults /\ faults' = faults + 1 /\ Then(p)

\* write_atomic: what was read, with the ids.
WriteAtomic(p) ==
    LET of == proc[p].of IN
    /\ proc[p].at = "replace"
    /\ Replace(proc[p].store, proc[p].lines)
    /\ Becomes(p, IF of.then = "end" THEN Idle ELSE [of EXCEPT !.at = of.then])
    /\ UNCHANGED <<history, alone, runs, faults>>

\* learn reports the id of the last line there is.
Tell(p) ==
    /\ proc[p].at = "tell" /\ Keep
    /\ LET last == Last(files["project"]) IN
       told' = IF p \in alone THEN told \cup {[n |-> proc[p].n,
                                              id |-> IF IsClaim(last) THEN last.id ELSE None]}
               ELSE told
    /\ Becomes(p, Idle) /\ UNCHANGED <<renamed, doubled, filed, alone, runs, faults>>

AppendCorrection(p) ==
    /\ proc[p].at = "append"
    /\ AppendTo(p, proc[p].store, Correction(proc[p].verb, proc[p].id, next + 1))
    /\ Becomes(p, [proc[p] EXCEPT !.at = "twin", !.lines = @ \cup {next + 1}])
    /\ UNCHANGED <<history, alone, runs, faults>>

\* Mutant: the correction reaches the store in front only.
NoTwin(p, id) == FALSE
\* _zpc_twin_store: does the other store have the id too.
HasTwin(p, id) == proc[p].first /\ Resolves(files[Other(proc[p].store)], id)
Twin(p) ==
    /\ proc[p].at = "twin" /\ Keep /\ UNCHANGED <<renamed, doubled, told, alone, runs, faults>>
    /\ IF HasTwin(p, proc[p].id)
       THEN /\ Becomes(p, [proc[p] EXCEPT !.at = "load", !.store = Other(@), !.first = FALSE])
            /\ UNCHANGED filed
       ELSE /\ Becomes(p, Idle)
            /\ filed' = IF proc[p].verb = "retracts" /\ p \in alone
                        THEN filed \cup {[id |-> proc[p].id, lines |-> proc[p].lines]} ELSE filed

\* promote <line> --to global: a live row of the project that passes the gate.
Promote(p, r, when, complete) ==
    /\ Begin(p) /\ Keep /\ UNCHANGED history
    /\ r \in LiveClaims(files["project"])
    /\ IF ~complete \/ r.lesson \in Auto THEN UNCHANGED proc
       ELSE Becomes(p, [at |-> "dest", row |-> [r EXCEPT !.fires = when]])

\* Then it reads the destination ...
ReadDest(p) ==
    /\ proc[p].at = "dest" /\ Keep
    /\ Becomes(p, [at |-> "write", store |-> "global", row |-> proc[p].row,
                   lines |-> files["global"]])
    /\ UNCHANGED <<history, alone, runs, faults>>

\* ... and renews the rows about the same problem, or adds its own.
WriteDest(p) ==
    LET row == proc[p].row
        lines == proc[p].lines
        Same(r) == IsClaim(r) /\ Problem[r.lesson] = Problem[row.lesson]
        same == {r \in ToSet(lines) : Same(r)}
    IN
    /\ proc[p].at = "write"
    /\ IF same # {}
       THEN Replace("global", [i \in DOMAIN lines |->
                IF Same(lines[i]) THEN [lines[i] EXCEPT !.fires = row.fires] ELSE lines[i]])
       ELSE AppendTo(p, "global", [row EXCEPT !.n = next + 1])
    /\ renamed' = renamed \cup {r.n : r \in {x \in same : x.id = None}}
    /\ doubled' = IF p \in alone THEN doubled ELSE doubled \cup {row.id}
    /\ Becomes(p, Idle) /\ UNCHANGED <<filed, told, alone, runs, faults>>

Kill(p) ==
    /\ Running(p) /\ faults < MaxFaults /\ faults' = faults + 1
    /\ Becomes(p, Idle) /\ Keep /\ UNCHANGED <<history, alone, runs>>

Next == \E p \in Proc :
    \/ \E lesson \in Lesson : Learn(p, lesson)
    \/ Backfill(p)
    \/ \E s \in Store : \E r \in Claims(files[s]), verb \in {"retracts", "challenges"}, b \in BOOLEAN :
          Retract(p, verb, r.id, b)
    \/ \E r \in Claims(files["project"]), w \in When, b \in BOOLEAN : Promote(p, r, w, b)
    \/ LoadStore(p) \/ WriteAtomic(p) \/ Tell(p)
    \/ AppendCorrection(p) \/ Twin(p) \/ ReadDest(p) \/ WriteDest(p) \/ Kill(p)

-----------------------------------------------------------------------------
Lines == UNION {{r.n : r \in ToSet(files[s])} : s \in Store}

\* A line is lost only if it was appended while a rewrite of its store, made from
\* an earlier reading, was on its way.
LostHasCause == 1..next \subseteq Lines \cup raced

\* A retraction that ran by itself and was reported as done holds in both stores,
\* whatever is renamed or promoted after it, unless its lines were lost, the claim was
\* promoted while another command ran, or the project has learned the same once more: in
\* a store that had no row with the id, the new row takes it.
LearnedSince(f) == \E r \in Claims(files["project"]) : r.id = f.id /\ \A n \in f.lines : n < r.n
RetractionReaches ==
    \A f \in filed : f.lines \cap raced = {} /\ f.id \notin doubled /\ ~LearnedSince(f) =>
        \A s \in Store : \A r \in LiveClaims(files[s]) : r.id # f.id

\* learn, by itself, reports the id under which its row is found from then on; a
\* backfill that failed leaves it without one.
ToldIsOwn ==
    \A t \in told : t.id # None => \A r \in Claims(files["project"]) : r.n = t.n => r.id = t.id

\* A row keeps the id that readers derive for it, written down or not, whatever is
\* appended or filled in.  Only a lesson that was promoted again before it had an id
\* does not.
RowsKeepIds ==
    \A s \in Store : \A r \in Claims(files[s]), x \in Claims(files'[s]) :
        r.n = x.n => r.id = x.id \/ r.n \in renamed'
=============================================================================
