-------------------------- MODULE RouteCacheProofs --------------------------
(***************************************************************************)
(* Theorems about RouteCache, for any number of runs, processes, requests,  *)
(* projects and faults.                                                    *)
(***************************************************************************)
EXTENDS RouteCache, FiniteSetTheorems, TLAPS

---------------------------------------------------------------------------
(* The earlier table.                                                      *)

\* All that is needed of the types: pc is a function on the processes.
MovedInv == DOMAIN pc = Proc /\ LegacyIsMoved

\* A run that fails inside the migration says that it stranded it; any other
\* failure leaves the runs that migrate alone.
LEMMA RaiseMoves ==
    ASSUME MovedInv, NEW p \in Proc, Raise(p)
    PROVE  MovedInv'
<1>1. /\ DOMAIN pc' = Proc
      /\ \A q \in Proc \ {p} : pc'[q] = pc[q]
      BY DEF MovedInv, Raise, End, Connect, Goto
<1>2. UNCHANGED <<legacy, schema, crowded>>
      BY DEF Raise, store
<1>3. stranded' = (stranded \/ pc[p] \in {"look", "migrate"})
      BY DEF Raise
<1> QED BY <1>1, <1>2, <1>3 DEF MovedInv, LegacyIsMoved

\* A step that is not one of the migration's.
LEMMA ElsewhereMoves ==
    ASSUME MovedInv, NEW p \in Proc, pc[p] \notin {"look", "migrate"},
           DOMAIN pc' = Proc, \A q \in Proc \ {p} : pc'[q] = pc[q],
           UNCHANGED <<legacy, schema, stranded>>,
           crowded => crowded'
    PROVE  MovedInv'
BY DEF MovedInv, LegacyIsMoved

LEMMA StepMoves ==
    ASSUME MovedInv, NEW p \in Proc, Step(p)
    PROVE  MovedInv'
<1>1. CASE Open(p)
      BY <1>1, ElsewhereMoves DEF Open, Goto, MovedInv, store
<1>2. CASE Rename(p)
      BY <1>2 DEF Rename, Goto, MovedInv, LegacyIsMoved
<1>3. CASE RenameRefused(p)
      BY <1>3, RaiseMoves DEF RenameRefused
<1>4. CASE Create(p)
      BY <1>4 DEF Create, Goto, MovedInv, LegacyIsMoved
<1>5. CASE Look(p)
  <2>1. CASE legacy = NoTable
        BY <1>5, <2>1 DEF Look, Goto, MovedInv, LegacyIsMoved, store
  <2>2. CASE legacy # NoTable
        BY <1>5, <2>2 DEF Look, Goto, MovedInv, LegacyIsMoved, store
  <2> QED BY <2>1, <2>2
<1>6. CASE Migrate(p)
      BY <1>6 DEF Migrate, Goto, MovedInv, LegacyIsMoved
<1>7. CASE MigrateFails(p)
      BY <1>7, RaiseMoves DEF MigrateFails
<1>8. CASE Check(p)
      BY <1>8, ElsewhereMoves DEF Check, Connect, Goto, MovedInv, store, history
<1>9. CASE Touch(p)
      BY <1>9, ElsewhereMoves DEF Touch, Connect, Goto, MovedInv, history
<1>10. CASE Fuzzy(p)
  <2>1. \/ End(p)
        \/ \E l \in {"ask", "execute"} : Goto(p, l)
        BY <1>10 DEF Fuzzy
  <2>2. DOMAIN pc' = Proc /\ \A q \in Proc \ {p} : pc'[q] = pc[q]
        BY <2>1 DEF End, Goto, MovedInv
  <2>3. UNCHANGED <<legacy, schema, stranded, crowded>> /\ pc[p] = "fuzzy"
        BY <1>10 DEF Fuzzy, store, history
  <2> QED BY <2>2, <2>3, ElsewhereMoves
<1>11. CASE Ask(p)
      BY <1>11, ElsewhereMoves DEF Ask, Connect, End, Goto, MovedInv, store, history
<1>12. CASE AskFails(p)
      BY <1>12, RaiseMoves DEF AskFails
<1>13. CASE Save(p)
      BY <1>13, ElsewhereMoves DEF Save, Goto, MovedInv, store
<1>14. CASE Put(p)
      BY <1>14, ElsewhereMoves DEF Put, Goto, MovedInv, history
<1>15. CASE Stop(p)
      BY <1>15, ElsewhereMoves DEF Stop, End, Goto, MovedInv, store, history
<1>16. CASE Execute(p)
      BY <1>16, ElsewhereMoves DEF Execute, Connect, Goto, MovedInv, store
<1>17. CASE Note(p)
      BY <1>17, ElsewhereMoves DEF Note, Connect, Goto, MovedInv, store
<1>18. CASE Reread(p)
      BY <1>18, ElsewhereMoves DEF Reread, End, Goto, MovedInv, store
<1>19. CASE Count(p)
      BY <1>19, ElsewhereMoves DEF Count, End, Goto, MovedInv, history
<1>20. CASE TableGone(p)
      BY <1>20, RaiseMoves DEF TableGone
<1>21. CASE DatabaseFails(p)
      BY <1>21, RaiseMoves DEF DatabaseFails
<1>22. CASE Kill(p)
      BY <1>22 DEF Kill, End, Goto, MovedInv, LegacyIsMoved, store
<1> QED BY <1>1, <1>2, <1>3, <1>4, <1>5, <1>6, <1>7, <1>8, <1>9, <1>10, <1>11, <1>12,
           <1>13, <1>14, <1>15, <1>16, <1>17, <1>18, <1>19, <1>20, <1>21, <1>22 DEF Step

\* An earlier table that was renamed waits for the next run or is being moved,
\* unless a run was cut off in the middle or runs overlapped in the migration.
THEOREM LegacyMoved == Spec => []LegacyIsMoved
<1>1. Init => MovedInv
      BY DEF Init, MovedInv, LegacyIsMoved
<1>2. MovedInv /\ [Next]_vars => MovedInv'
  <2> SUFFICES ASSUME MovedInv, [Next]_vars PROVE MovedInv'
      OBVIOUS
  <2>1. CASE \E p \in Proc : Step(p)
        BY <2>1, StepMoves
  <2>2. ASSUME NEW p \in Proc, NEW j \in Asked, Begin(p, j)
        PROVE  MovedInv'
        BY <2>2, ElsewhereMoves DEF Begin, Connect, Goto, MovedInv, store
  <2>3. ASSUME NEW route \in Route, ChangeTools(route)
        PROVE  MovedInv'
        BY <2>3 DEF ChangeTools, MovedInv, LegacyIsMoved, store
  <2>4. CASE UNCHANGED vars
        BY <2>4 DEF vars, store, history, MovedInv, LegacyIsMoved
  <2> QED BY <2>1, <2>2, <2>3, <2>4 DEF Next
<1>3. MovedInv => LegacyIsMoved
      BY DEF MovedInv
<1> QED BY <1>1, <1>2, <1>3, PTL DEF Spec

---------------------------------------------------------------------------
(* The counts.                                                             *)

\* What a run in progress knows of the answer and of the row it works on.
Knows(p) ==
    pc[p] # "idle" =>
      /\ run[p] \in Run
      /\ run[p].snap # NoRow => Adds(run[p].snap)
      /\ pc[p] \in {"check", "fuzzy", "save", "keep", "note"} => run[p].op = pc[p]
      /\ run[p].op \in {"save", "keep", "note"} \/ pc[p] \in {"touch", "execute"} =>
            run[p].got \in Route
      /\ pc[p] \in {"put", "reread", "count"} => run[p].op \in {"save", "keep", "note"}
      /\ pc[p] \in {"put", "reread"} => run[p].key \in Key
      /\ pc[p] = "count" => run[p].snap # NoRow
      /\ pc[p] = "migrate" => run[p].rows \in Rows

CountsInv == TypeOK /\ CountsAddUp /\ \A p \in Proc : Knows(p)

\* A step of p changes what p knows, and of no other run.
LEMMA OthersKnow ==
    ASSUME CountsInv, NEW p \in Proc, TypeOK', CountsAddUp', Knows(p)',
           \A q \in Proc \ {p} : pc'[q] = pc[q] /\ run'[q] = run[q]
    PROVE  CountsInv'
<1>1. ASSUME NEW q \in Proc \ {p} PROVE Knows(q)'
      BY <1>1 DEF CountsInv, Knows
<1> QED BY <1>1 DEF CountsInv

\* Goto moves one process.
LEMMA GotoTyped ==
    ASSUME TypeOK, NEW p \in Proc, NEW l \in Labels, Goto(p, l)
    PROVE  /\ pc' \in [Proc -> Labels]
           /\ pc'[p] = l
           /\ \A q \in Proc \ {p} : pc'[q] = pc[q]
BY DEF TypeOK, Goto

\* A new connection forgets the row, and a search for near rows the answer.
LEMMA ConnectKnows ==
    ASSUME TypeOK, NEW p \in Proc, NEW r \in Run,
           NEW op \in {"fuzzy", "save", "keep", "note"},
           op # "fuzzy" => r.got \in Route,
           Connect(p, op, r)
    PROVE  /\ pc' \in [Proc -> Labels]
           /\ run' \in [Proc -> Run \cup {NoRow}]
           /\ Knows(p)'
           /\ \A q \in Proc \ {p} : pc'[q] = pc[q] /\ run'[q] = run[q]
<1> DEFINE s == [r EXCEPT !.op = op, !.key = NoRow, !.snap = NoRow, !.rows = NoTable,
                          !.got = IF op = "fuzzy" THEN NoRow ELSE @]
<1>1. s \in Run /\ s.op = op /\ s.snap = NoRow /\ (op # "fuzzy" => s.got \in Route)
      BY DEF Run
<1>2. /\ pc' \in [Proc -> Labels] /\ pc'[p] = "open"
      /\ \A q \in Proc \ {p} : pc'[q] = pc[q]
      BY GotoTyped DEF Connect, Labels
<1>3. run' = [run EXCEPT ![p] = s]
      BY DEF Connect
<1>4. /\ run' \in [Proc -> Run \cup {NoRow}] /\ run'[p] = s
      /\ \A q \in Proc \ {p} : run'[q] = run[q]
      BY <1>1, <1>3 DEF TypeOK
<1>5. Knows(p)'
      BY <1>1, <1>2, <1>4 DEF Knows
<1> QED BY <1>2, <1>4, <1>5

LEMMA EndKnows ==
    ASSUME TypeOK, NEW p \in Proc, End(p)
    PROVE  /\ pc' \in [Proc -> Labels]
           /\ run' \in [Proc -> Run \cup {NoRow}]
           /\ Knows(p)'
           /\ \A q \in Proc \ {p} : pc'[q] = pc[q] /\ run'[q] = run[q]
BY DEF TypeOK, End, Goto, Knows, Labels

\* A step that leaves the record of the run alone and goes where it may.
LEMMA GotoKnows ==
    ASSUME TypeOK, NEW p \in Proc, Knows(p), pc[p] # "idle",
           NEW l \in Labels, Goto(p, l), UNCHANGED run,
           l \in {"check", "fuzzy", "save", "keep", "note"} => l = run[p].op,
           l = "execute" => run[p].got \in Route,
           l \notin {"touch", "put", "reread", "count", "migrate"}
    PROVE  /\ pc' \in [Proc -> Labels]
           /\ run' \in [Proc -> Run \cup {NoRow}]
           /\ Knows(p)'
           /\ \A q \in Proc \ {p} : pc'[q] = pc[q] /\ run'[q] = run[q]
<1>1. /\ pc' \in [Proc -> Labels] /\ pc'[p] = l
      /\ \A q \in Proc \ {p} : pc'[q] = pc[q]
      BY GotoTyped
<1> QED BY <1>1 DEF Knows, TypeOK

\* A step of p that changes neither rows nor what is assumed of the rest.
LEMMA QuietStep ==
    ASSUME CountsInv, NEW p \in Proc,
           pc' \in [Proc -> Labels],
           run' \in [Proc -> Run \cup {NoRow}],
           Knows(p)',
           \A q \in Proc \ {p} : pc'[q] = pc[q] /\ run'[q] = run[q],
           patterns' \in Rows, CountsAddUp',
           schema' \in {"none", "old", "new"},
           legacy' \in Rows \cup {NoTable},
           told' \in [Intent -> [successes : Nat, failures : Nat]],
           disturbed' \subseteq Intent,
           {crowded', stranded'} \subseteq BOOLEAN,
           faults' \in 0 .. MaxFault,
           UNCHANGED <<supported, shared, swapped, runs>>
    PROVE  CountsInv'
<1>1. TypeOK'
      BY DEF CountsInv, TypeOK
<1> QED BY <1>1, OthersKnow

\* The request of a run is one of those that are made.
LEMMA JobKnown ==
    ASSUME CountsInv, NEW p \in Proc, pc[p] # "idle"
    PROVE  run[p] \in Run /\ run[p].job.intent \in Intent /\ MyKey(run[p].job) \in Key
<1>1. run[p] \in Run /\ run[p].job \in Job
      BY RouteCacheAssumption DEF CountsInv, Knows, Run
<1> QED BY <1>1 DEF Job, MyKey, Key

LEMMA RaiseCounts ==
    ASSUME CountsInv, NEW p \in Proc, pc[p] # "idle", Raise(p), faults' \in 0 .. MaxFault
    PROVE  CountsInv'
<1>1. /\ pc' \in [Proc -> Labels]
      /\ run' \in [Proc -> Run \cup {NoRow}]
      /\ Knows(p)'
      /\ \A q \in Proc \ {p} : pc'[q] = pc[q] /\ run'[q] = run[q]
  <2>1. CASE run[p].fell
        BY <2>1, EndKnows DEF Raise, CountsInv
  <2>2. CASE ~run[p].fell
    <3>1. [run[p] EXCEPT !.fell = TRUE] \in Run
          BY JobKnown DEF Run
    <3> QED BY <2>2, <3>1, ConnectKnows DEF Raise, CountsInv
  <2> QED BY <2>1, <2>2
<1>2. disturbed' \subseteq Intent
      BY JobKnown DEF Raise, CountsInv, TypeOK
<1>3. {crowded', stranded'} \subseteq BOOLEAN
      BY DEF Raise, CountsInv, TypeOK
<1>4. /\ UNCHANGED <<patterns, schema, legacy, supported, told, shared, swapped, runs>>
      /\ CountsAddUp'
      BY DEF Raise, store, CountsInv, CountsAddUp
<1> QED BY <1>1, <1>2, <1>3, <1>4, QuietStep DEF CountsInv, TypeOK

\* A step that reads: it moves p and changes nothing else that is typed.
LEMMA ReadStep ==
    ASSUME CountsInv, NEW p \in Proc,
           pc' \in [Proc -> Labels],
           run' \in [Proc -> Run \cup {NoRow}],
           Knows(p)',
           \A q \in Proc \ {p} : pc'[q] = pc[q] /\ run'[q] = run[q],
           disturbed' \subseteq Intent,
           crowded' \in BOOLEAN,
           UNCHANGED <<store, supported, told, shared, swapped, stranded, runs, faults>>
    PROVE  CountsInv'
<1>1. UNCHANGED <<patterns, schema, legacy>> /\ CountsAddUp'
      BY DEF store, CountsInv, CountsAddUp
<1> QED BY <1>1, QuietStep DEF CountsInv, TypeOK

\* The migration of the earlier table.
LEMMA OpenCounts ==
    ASSUME CountsInv, NEW p \in Proc, Open(p)
    PROVE  CountsInv'
<1>1. PICK l \in {"rename", "create", run[p].op} : Goto(p, l)
      BY DEF Open, CountsInv, TypeOK
<1>2. run[p] \in Run /\ pc[p] # "idle" /\ UNCHANGED run
      BY JobKnown DEF Open
<1>3. l \in Labels /\ l \in {"rename", "create", "check", "fuzzy", "save", "keep", "note"}
      BY <1>1, <1>2 DEF Run, Labels, Statements
<1>4. /\ pc' \in [Proc -> Labels]
      /\ run' \in [Proc -> Run \cup {NoRow}]
      /\ Knows(p)'
      /\ \A q \in Proc \ {p} : pc'[q] = pc[q] /\ run'[q] = run[q]
      BY <1>1, <1>2, <1>3, GotoKnows DEF CountsInv
<1>5. crowded' \in BOOLEAN /\ disturbed' \subseteq Intent
      BY DEF Open, CountsInv, TypeOK
<1> QED BY <1>4, <1>5, ReadStep DEF Open

LEMMA RenameCounts ==
    ASSUME CountsInv, NEW p \in Proc, Rename(p)
    PROVE  CountsInv'
<1>1. pc[p] # "idle" /\ UNCHANGED run /\ Goto(p, "create")
      BY DEF Rename
<1>2. /\ pc' \in [Proc -> Labels]
      /\ run' \in [Proc -> Run \cup {NoRow}]
      /\ Knows(p)'
      /\ \A q \in Proc \ {p} : pc'[q] = pc[q] /\ run'[q] = run[q]
      BY <1>1, GotoKnows DEF CountsInv, Labels
<1>3. patterns' \in Rows /\ CountsAddUp'
      BY DEF Rename, Empty, Rows, CountsAddUp
<1> QED BY <1>2, <1>3, QuietStep DEF Rename, CountsInv, TypeOK, history

LEMMA CreateCounts ==
    ASSUME CountsInv, NEW p \in Proc, Create(p)
    PROVE  CountsInv'
<1>1. pc[p] # "idle" /\ UNCHANGED run /\ Goto(p, "look")
      BY DEF Create
<1>2. /\ pc' \in [Proc -> Labels]
      /\ run' \in [Proc -> Run \cup {NoRow}]
      /\ Knows(p)'
      /\ \A q \in Proc \ {p} : pc'[q] = pc[q] /\ run'[q] = run[q]
      BY <1>1, GotoKnows DEF CountsInv, Labels
<1>3. UNCHANGED patterns /\ CountsAddUp'
      BY DEF Create, CountsInv, CountsAddUp
<1> QED BY <1>2, <1>3, QuietStep DEF Create, CountsInv, TypeOK, history

LEMMA LookCounts ==
    ASSUME CountsInv, NEW p \in Proc, Look(p)
    PROVE  CountsInv'
<1>0. run[p] \in Run /\ pc[p] # "idle"
      BY JobKnown DEF Look
<1>1. /\ pc' \in [Proc -> Labels]
      /\ run' \in [Proc -> Run \cup {NoRow}]
      /\ Knows(p)'
      /\ \A q \in Proc \ {p} : pc'[q] = pc[q] /\ run'[q] = run[q]
  <2>1. CASE legacy = NoTable
    <3>1. run[p].op \in Labels /\ run[p].op \in {"check", "fuzzy", "save", "keep", "note"}
          BY <1>0 DEF Run, Labels, Statements
    <3> QED BY <1>0, <2>1, <3>1, GotoKnows DEF Look, CountsInv
  <2>2. CASE legacy # NoTable
    <3>1. [run[p] EXCEPT !.rows = legacy] \in Run /\ legacy \in Rows
          BY <1>0, <2>2 DEF Run, CountsInv, TypeOK
    <3>2. /\ pc' \in [Proc -> Labels] /\ pc'[p] = "migrate"
          /\ \A q \in Proc \ {p} : pc'[q] = pc[q]
          BY <2>2, GotoTyped DEF Look, Labels, CountsInv
    <3>3. /\ run' \in [Proc -> Run \cup {NoRow}]
          /\ run'[p] = [run[p] EXCEPT !.rows = legacy]
          /\ \A q \in Proc \ {p} : run'[q] = run[q]
          BY <2>2, <3>1 DEF Look, CountsInv, TypeOK
    <3>4. /\ run'[p].op = run[p].op /\ run'[p].got = run[p].got
          /\ run'[p].snap = run[p].snap /\ run'[p].rows = legacy
          BY <1>0, <3>3 DEF Run
    <3>5. Knows(p)'
          BY <1>0, <3>1, <3>2, <3>3, <3>4 DEF Knows, CountsInv
    <3> QED BY <3>2, <3>3, <3>5
  <2> QED BY <2>1, <2>2
<1> QED BY <1>1, ReadStep DEF Look, CountsInv, TypeOK, history

LEMMA MigrateCounts ==
    ASSUME CountsInv, NEW p \in Proc, Migrate(p)
    PROVE  CountsInv'
<1> DEFINE r == [run[p] EXCEPT !.rows = NoTable]
<1>0. /\ run[p] \in Run /\ pc[p] = "migrate" /\ run[p].rows \in Rows
      BY JobKnown DEF Migrate, CountsInv, Knows
<1>1. /\ pc' \in [Proc -> Labels]
      /\ run' \in [Proc -> Run \cup {NoRow}]
      /\ Knows(p)'
      /\ \A q \in Proc \ {p} : pc'[q] = pc[q] /\ run'[q] = run[q]
  <2>1. r \in Run /\ r.op = run[p].op /\ r.got = run[p].got /\ r.snap = run[p].snap
        BY <1>0 DEF Run
  <2>2. run[p].op \in Labels /\ run[p].op \in {"check", "fuzzy", "save", "keep", "note"}
        BY <1>0 DEF Run, Labels, Statements
  <2>3. /\ pc' \in [Proc -> Labels] /\ pc'[p] = run[p].op
        /\ \A q \in Proc \ {p} : pc'[q] = pc[q]
        BY <2>2, GotoTyped DEF Migrate, CountsInv
  <2>4. /\ run' \in [Proc -> Run \cup {NoRow}]
        /\ run'[p] = r
        /\ \A q \in Proc \ {p} : run'[q] = run[q]
        BY <2>1 DEF Migrate, CountsInv, TypeOK
  <2>5. Knows(p)'
        BY <1>0, <2>1, <2>2, <2>3, <2>4 DEF Knows, CountsInv
  <2> QED BY <2>3, <2>4, <2>5
<1>2. PICK from \in [Intent -> Scope] :
          LET rows    == run[p].rows
              Source(i) == [scope |-> from[i], intent |-> i]
              held    == {i \in Intent : \E k \in Key : k.intent = i /\ rows[k] # NoRow}
          IN  /\ \A i \in held : rows[Source(i)] # NoRow
              /\ \A i \in Intent \ held : from[i] = Anywhere
              /\ patterns' = [k \in Key |->
                    IF k.scope = Anywhere /\ k.intent \in held
                    THEN Migrated(rows[Source(k.intent)]) ELSE patterns[k]]
      BY DEF Migrate
<1> DEFINE moved(k) == run[p].rows[[scope |-> from[k.intent], intent |-> k.intent]]
<1>3. ASSUME NEW k \in Key
      PROVE  \/ patterns'[k] = patterns[k]
             \/ moved(k) \in Row /\ patterns'[k] = Migrated(moved(k))
  <2>1. k.intent \in Intent /\ [scope |-> from[k.intent], intent |-> k.intent] \in Key
        BY DEF Key
  <2> QED BY <1>0, <1>2, <2>1 DEF Rows
<1>4. ASSUME NEW row \in Row
      PROVE  Migrated(row) \in Row /\ Adds(Migrated(row))
  <2>1. row.hits \in Nat /\ row.result \in Route
        BY <1>4 DEF Row
  <2>2. Migrated(row) \in Row
        BY <1>4, <2>1 DEF Migrated, Row
  <2>3. /\ Migrated(row).executions = row.hits /\ Migrated(row).successes = row.hits
        /\ Migrated(row).failures = 0
        BY <1>4 DEF Migrated, Row
  <2> QED BY <2>1, <2>2, <2>3 DEF Adds
<1>5. patterns' \in Rows
  <2>1. patterns' = [k \in Key |-> patterns'[k]]
        BY <1>2
  <2> QED BY <1>3, <1>4, <2>1 DEF Rows, CountsInv, TypeOK
<1>6. CountsAddUp'
      BY <1>3, <1>4 DEF CountsAddUp, CountsInv
<1> HIDE DEF r, moved
<1> QED BY <1>1, <1>5, <1>6, QuietStep DEF Migrate, CountsInv, TypeOK, history

---------------------------------------------------------------------------
(* The routing and the counting.                                           *)

\* A step that sets fields of the run and goes on.
LEMMA NextKnows ==
    ASSUME CountsInv, NEW p \in Proc, NEW r \in Run, NEW l \in Labels \ {"idle"},
           Goto(p, l), run' = [run EXCEPT ![p] = r],
           r.snap # NoRow => Adds(r.snap),
           l \in {"check", "fuzzy", "save", "keep", "note"} => r.op = l,
           r.op \in {"save", "keep", "note"} \/ l \in {"touch", "execute"} => r.got \in Route,
           l \in {"put", "reread", "count"} => r.op \in {"save", "keep", "note"},
           l \in {"put", "reread"} => r.key \in Key,
           l = "count" => r.snap # NoRow,
           l # "migrate"
    PROVE  /\ pc' \in [Proc -> Labels]
           /\ run' \in [Proc -> Run \cup {NoRow}]
           /\ Knows(p)'
           /\ \A q \in Proc \ {p} : pc'[q] = pc[q] /\ run'[q] = run[q]
<1>1. /\ pc' \in [Proc -> Labels] /\ pc'[p] = l
      /\ \A q \in Proc \ {p} : pc'[q] = pc[q]
      BY GotoTyped DEF CountsInv
<1>2. /\ run' \in [Proc -> Run \cup {NoRow}] /\ run'[p] = r
      /\ \A q \in Proc \ {p} : run'[q] = run[q]
      BY DEF CountsInv, TypeOK
<1> QED BY <1>1, <1>2 DEF Knows

\* The row a request may use is in the table.
LEMMA VisibleRow ==
    ASSUME CountsInv, NEW j, NEW k \in Visible(j)
    PROVE  k \in Key /\ patterns[k] \in Row /\ Adds(patterns[k])
BY DEF Visible, CountsInv, TypeOK, Rows, CountsAddUp

LEMMA ExactRow ==
    ASSUME CountsInv, NEW j, NEW k \in Exact(j)
    PROVE  k \in Key /\ patterns[k] \in Row /\ Adds(patterns[k])
<1>1. k \in Visible(j)
      BY DEF Exact
<1> QED BY <1>1, VisibleRow

LEMMA BeginCounts ==
    ASSUME CountsInv, NEW p \in Proc, NEW j \in Asked, Begin(p, j)
    PROVE  CountsInv'
<1> DEFINE r == [Request(j) EXCEPT !.op = "check", !.key = NoRow, !.snap = NoRow, !.rows = NoTable,
                                   !.got = IF "check" = "fuzzy" THEN NoRow ELSE @]
<1>1. r \in Run /\ r.op = "check" /\ r.snap = NoRow
  <2>1. Request(j) \in Run
        BY DEF Request, Run
  <2> QED BY <2>1 DEF Run
<1>3. run' = [run EXCEPT ![p] = r] /\ Goto(p, "open")
      BY DEF Begin, Connect
<1> HIDE DEF r
<1>4. /\ pc' \in [Proc -> Labels]
      /\ run' \in [Proc -> Run \cup {NoRow}]
      /\ Knows(p)'
      /\ \A q \in Proc \ {p} : pc'[q] = pc[q] /\ run'[q] = run[q]
      BY <1>1, <1>3, NextKnows DEF Labels
<1>5. j.intent \in Intent
      BY RouteCacheAssumption DEF Job
<1>6. TypeOK' /\ CountsAddUp'
      BY <1>4, <1>5, RouteCacheAssumption DEF Begin, TypeOK, CountsInv, CountsAddUp, store
<1> QED BY <1>4, <1>6, OthersKnow

LEMMA CheckCounts ==
    ASSUME CountsInv, NEW p \in Proc, Check(p)
    PROVE  CountsInv'
<1>0. run[p] \in Run /\ pc[p] = "check" /\ run[p].op = "check" /\ Knows(p)
      BY JobKnown DEF Check, CountsInv, Knows
<1>1. /\ pc' \in [Proc -> Labels]
      /\ run' \in [Proc -> Run \cup {NoRow}]
      /\ Knows(p)'
      /\ \A q \in Proc \ {p} : pc'[q] = pc[q] /\ run'[q] = run[q]
  <2>0. \/ Connect(p, "fuzzy", run[p])
        \/ \E k \in Exact(run[p].job) :
              /\ Goto(p, "touch")
              /\ run' = [run EXCEPT ![p].got = patterns[k].result, ![p].key = k]
        BY DEF Check
  <2>1. CASE Connect(p, "fuzzy", run[p])
        BY <1>0, <2>1, ConnectKnows DEF CountsInv
  <2>2. CASE \E k \in Exact(run[p].job) :
                /\ Goto(p, "touch")
                /\ run' = [run EXCEPT ![p].got = patterns[k].result, ![p].key = k]
    <3>0. PICK k \in Exact(run[p].job) :
             /\ Goto(p, "touch")
             /\ run' = [run EXCEPT ![p].got = patterns[k].result, ![p].key = k]
          BY <2>2
    <3> DEFINE r == [run[p] EXCEPT !.got = patterns[k].result, !.key = k]
    <3>1. k \in Key /\ patterns[k].result \in Route
          BY ExactRow DEF Row
    <3>2. /\ r \in Run /\ r.op = "check" /\ r.got \in Route /\ r.snap = run[p].snap
          BY <1>0, <3>1 DEF Run
    <3>3. run' = [run EXCEPT ![p] = r]
          BY <3>0 DEF CountsInv, TypeOK
    <3>4. r.snap # NoRow => Adds(r.snap)
          BY <1>0, <3>2 DEF Knows
    <3> HIDE DEF r
    <3> QED BY <3>0, <3>2, <3>3, <3>4, NextKnows DEF Labels, Statements
  <2> QED BY <2>0, <2>1, <2>2
<1> QED BY <1>1, ReadStep DEF Check, CountsInv, TypeOK, history

LEMMA TouchCounts ==
    ASSUME CountsInv, NEW p \in Proc, Touch(p)
    PROVE  CountsInv'
<1>0. run[p] \in Run /\ pc[p] = "touch" /\ run[p].got \in Route /\ Knows(p)
      BY JobKnown DEF Touch, CountsInv, Knows
<1>1. /\ pc' \in [Proc -> Labels]
      /\ run' \in [Proc -> Run \cup {NoRow}]
      /\ Knows(p)'
      /\ \A q \in Proc \ {p} : pc'[q] = pc[q] /\ run'[q] = run[q]
  <2>1. CASE Connect(p, "fuzzy", run[p])
        BY <1>0, <2>1, ConnectKnows DEF CountsInv
  <2>2. CASE Goto(p, "execute") /\ UNCHANGED run
        BY <1>0, <2>2, GotoKnows DEF CountsInv, Labels
  <2> QED BY <2>1, <2>2 DEF Touch
<1>2. ASSUME NEW row \in Row, Adds(row)
      PROVE  [row EXCEPT !.hits = @ + 1] \in Row /\ Adds([row EXCEPT !.hits = @ + 1])
      BY <1>2 DEF Row, Adds
<1>3. patterns' \in Rows /\ CountsAddUp'
  <2>1. patterns \in Rows /\ CountsAddUp
        BY DEF CountsInv, TypeOK
  <2>2. /\ patterns' = [k \in Key |-> patterns'[k]]
        /\ \A k \in Key : \/ patterns'[k] = patterns[k]
                          \/ /\ patterns[k] # NoRow
                             /\ patterns'[k] = [patterns[k] EXCEPT !.hits = @ + 1]
        BY <2>1 DEF Touch, Rows, Touched
  <2>3. \A k \in Key : patterns[k] # NoRow => patterns[k] \in Row /\ Adds(patterns[k])
        BY <2>1 DEF Rows, CountsAddUp
  <2>4. \A k \in Key : \/ patterns'[k] = NoRow
                       \/ patterns'[k] \in Row /\ Adds(patterns'[k])
        BY <1>2, <2>2, <2>3
  <2> QED BY <2>2, <2>4 DEF Rows, CountsAddUp
<1> QED BY <1>1, <1>3, QuietStep DEF Touch, CountsInv, TypeOK, history

LEMMA FuzzyCounts ==
    ASSUME CountsInv, NEW p \in Proc, Fuzzy(p)
    PROVE  CountsInv'
<1>0. run[p] \in Run /\ pc[p] = "fuzzy" /\ run[p].op = "fuzzy" /\ Knows(p)
      BY JobKnown DEF Fuzzy, CountsInv, Knows
<1> DEFINE near == {k \in Visible(run[p].job) : <<run[p].job.intent, k.intent>> \in Near}
<1>1. \/ End(p)
      \/ Goto(p, "ask") /\ UNCHANGED run
      \/ \E k \in near :
            /\ Goto(p, "execute")
            /\ run' = [run EXCEPT ![p].got = patterns[k].result]
  <2> HIDE DEF near
  <2> QED BY DEF Fuzzy, near
<1>2. /\ pc' \in [Proc -> Labels]
      /\ run' \in [Proc -> Run \cup {NoRow}]
      /\ Knows(p)'
      /\ \A q \in Proc \ {p} : pc'[q] = pc[q] /\ run'[q] = run[q]
  <2>1. CASE End(p)
        BY <2>1, EndKnows DEF CountsInv
  <2>2. CASE Goto(p, "ask") /\ UNCHANGED run
        BY <1>0, <2>2, GotoKnows DEF CountsInv, Labels
  <2>3. ASSUME NEW k \in Visible(run[p].job), Goto(p, "execute"),
               run' = [run EXCEPT ![p].got = patterns[k].result]
        PROVE  /\ pc' \in [Proc -> Labels]
               /\ run' \in [Proc -> Run \cup {NoRow}]
               /\ Knows(p)'
               /\ \A q \in Proc \ {p} : pc'[q] = pc[q] /\ run'[q] = run[q]
    <3> DEFINE r == [run[p] EXCEPT !.got = patterns[k].result]
    <3>1. patterns[k].result \in Route
          BY VisibleRow DEF Row
    <3>2. /\ r \in Run /\ r.op = "fuzzy" /\ r.got \in Route /\ r.snap = run[p].snap
          BY <1>0, <3>1 DEF Run
    <3>3. run' = [run EXCEPT ![p] = r]
          BY <2>3 DEF CountsInv, TypeOK
    <3>4. r.snap # NoRow => Adds(r.snap)
          BY <1>0, <3>2 DEF Knows
    <3> HIDE DEF r
    <3> QED BY <2>3, <3>2, <3>3, <3>4, NextKnows DEF Labels
  <2> QED BY <1>1, <2>1, <2>2, <2>3
<1> QED BY <1>2, ReadStep DEF Fuzzy, CountsInv, TypeOK, history

LEMMA AskCounts ==
    ASSUME CountsInv, NEW p \in Proc, Ask(p)
    PROVE  CountsInv'
<1>1. /\ pc' \in [Proc -> Labels]
      /\ run' \in [Proc -> Run \cup {NoRow}]
      /\ Knows(p)'
      /\ \A q \in Proc \ {p} : pc'[q] = pc[q] /\ run'[q] = run[q]
  <2>1. CASE End(p)
        BY <2>1, EndKnows DEF CountsInv
  <2>2. ASSUME NEW route \in Route, Connect(p, "save", [run[p] EXCEPT !.got = route])
        PROVE  /\ pc' \in [Proc -> Labels]
               /\ run' \in [Proc -> Run \cup {NoRow}]
               /\ Knows(p)'
               /\ \A q \in Proc \ {p} : pc'[q] = pc[q] /\ run'[q] = run[q]
    <3>1. run[p] \in Run
          BY JobKnown DEF Ask
    <3>2. [run[p] EXCEPT !.got = route] \in Run /\ [run[p] EXCEPT !.got = route].got = route
          BY <3>1 DEF Run
    <3> QED BY <2>2, <3>2, ConnectKnows DEF CountsInv
  <2> QED BY <2>1, <2>2 DEF Ask
<1> QED BY <1>1, ReadStep DEF Ask, CountsInv, TypeOK, history

\* A row read to be written adds up, as the table does.
LEMMA SnapshotReads ==
    ASSUME CountsInv, NEW p \in Proc, pc[p] # "idle", NEW k \in Key, Snapshot(p, k)
    PROVE  \E r \in Run : /\ run' = [run EXCEPT ![p] = r]
                          /\ r.op = run[p].op /\ r.got = run[p].got
                          /\ r.key = k /\ r.snap = patterns[k]
                          /\ r.snap # NoRow => Adds(r.snap)
                          /\ disturbed' \subseteq Intent
<1> DEFINE r == [run[p] EXCEPT !.key = k, !.snap = patterns[k]]
<1>1. run[p] \in Run /\ patterns[k] \in Row \cup {NoRow}
      /\ (patterns[k] # NoRow => Adds(patterns[k]))
      BY JobKnown DEF CountsInv, TypeOK, Rows, CountsAddUp
<1>2. /\ r \in Run /\ r.op = run[p].op /\ r.got = run[p].got
      /\ r.key = k /\ r.snap = patterns[k]
      BY <1>1 DEF Run
<1>3. run' = [run EXCEPT ![p] = r]
      BY DEF Snapshot, CountsInv, TypeOK
<1>4. disturbed' \subseteq Intent
      BY DEF Snapshot, CountsInv, TypeOK, Key
<1> HIDE DEF r
<1> QED BY <1>1, <1>2, <1>3, <1>4

\* What a run that is to count an outcome, or to save an answer, knows.
LEMMA Recording ==
    ASSUME CountsInv, NEW p \in Proc,
           pc[p] \in {"save", "keep", "note", "put", "reread", "count"}
    PROVE  /\ run[p] \in Run /\ run[p].got \in Route
           /\ run[p].op \in {"save", "keep", "note"}
           /\ run[p].snap # NoRow => Adds(run[p].snap)
<1>1. run[p] \in Run /\ Knows(p)
      BY JobKnown DEF CountsInv
<1> QED BY <1>1 DEF Knows

LEMMA SaveCounts ==
    ASSUME CountsInv, NEW p \in Proc, Save(p)
    PROVE  CountsInv'
<1> DEFINE k == MyKey(run[p].job)
<1>1. k \in Key /\ Snapshot(p, k) /\ Goto(p, "put")
      BY JobKnown DEF Save
<1> HIDE DEF k
<1>2. PICK r \in Run : /\ run' = [run EXCEPT ![p] = r]
                       /\ r.op = run[p].op /\ r.got = run[p].got
                       /\ r.key = k /\ r.snap = patterns[k]
                       /\ r.snap # NoRow => Adds(r.snap)
                       /\ disturbed' \subseteq Intent
      BY <1>1, SnapshotReads DEF Save
<1>3. r.op \in {"save", "keep", "note"} /\ r.got \in Route
      BY <1>2, Recording DEF Save
<1>4. /\ pc' \in [Proc -> Labels]
      /\ run' \in [Proc -> Run \cup {NoRow}]
      /\ Knows(p)'
      /\ \A q \in Proc \ {p} : pc'[q] = pc[q] /\ run'[q] = run[q]
      BY <1>1, <1>2, <1>3, NextKnows DEF Labels, Statements
<1> QED BY <1>2, <1>4, ReadStep DEF Save, CountsInv, TypeOK

LEMMA NoteCounts ==
    ASSUME CountsInv, NEW p \in Proc, Note(p)
    PROVE  CountsInv'
<1>0. /\ pc[p] = "note" /\ run[p] \in Run /\ run[p].got \in Route
      /\ run[p].op \in {"save", "keep", "note"}
      BY Recording DEF Note
<1>1. CASE Connect(p, "keep", run[p]) /\ UNCHANGED disturbed
      BY <1>0, <1>1, ConnectKnows, ReadStep DEF Note, CountsInv, TypeOK
<1>2. CASE \E k \in Exact(run[p].job) : Snapshot(p, k) /\ Goto(p, "count")
  <2>1. PICK k \in Exact(run[p].job) : Snapshot(p, k) /\ Goto(p, "count")
        BY <1>2
  <2>2. k \in Key /\ patterns[k] # NoRow
        BY <2>1 DEF Exact, Visible
  <2>3. PICK r \in Run : /\ run' = [run EXCEPT ![p] = r]
                         /\ r.op = run[p].op /\ r.got = run[p].got
                         /\ r.key = k /\ r.snap = patterns[k]
                         /\ r.snap # NoRow => Adds(r.snap)
                         /\ disturbed' \subseteq Intent
        BY <1>0, <2>1, <2>2, SnapshotReads
  <2>4. /\ pc' \in [Proc -> Labels]
        /\ run' \in [Proc -> Run \cup {NoRow}]
        /\ Knows(p)'
        /\ \A q \in Proc \ {p} : pc'[q] = pc[q] /\ run'[q] = run[q]
        BY <1>0, <2>1, <2>2, <2>3, NextKnows DEF Labels, Statements
  <2> QED BY <2>3, <2>4, ReadStep DEF Note, CountsInv, TypeOK
<1> QED BY <1>1, <1>2 DEF Note

LEMMA RereadCounts ==
    ASSUME CountsInv, NEW p \in Proc, Reread(p)
    PROVE  CountsInv'
<1>0. /\ pc[p] = "reread" /\ run[p] \in Run /\ run[p].got \in Route
      /\ run[p].op \in {"save", "keep", "note"} /\ run[p].key \in Key
      BY Recording DEF Reread, CountsInv, Knows
<1>1. CASE patterns[run[p].key] = NoRow
      BY <1>0, <1>1, EndKnows, ReadStep DEF Reread, CountsInv, TypeOK
<1>2. CASE patterns[run[p].key] # NoRow
  <2> DEFINE k == run[p].key
  <2>1. k \in Key /\ Snapshot(p, k) /\ Goto(p, "count") /\ patterns[k] # NoRow
        BY <1>0, <1>2 DEF Reread
  <2> HIDE DEF k
  <2>3. PICK r \in Run : /\ run' = [run EXCEPT ![p] = r]
                         /\ r.op = run[p].op /\ r.got = run[p].got
                         /\ r.key = k /\ r.snap = patterns[k]
                         /\ r.snap # NoRow => Adds(r.snap)
                         /\ disturbed' \subseteq Intent
        BY <1>0, <2>1, SnapshotReads
  <2>4. /\ pc' \in [Proc -> Labels]
        /\ run' \in [Proc -> Run \cup {NoRow}]
        /\ Knows(p)'
        /\ \A q \in Proc \ {p} : pc'[q] = pc[q] /\ run'[q] = run[q]
        BY <1>0, <2>1, <2>3, NextKnows DEF Labels, Statements
  <2> QED BY <2>3, <2>4, ReadStep DEF Reread, CountsInv, TypeOK
<1> QED BY <1>1, <1>2

\* One row is replaced by one that adds up.
LEMMA RowReplaced ==
    ASSUME CountsInv, NEW k, NEW row \in Row \cup {NoRow}, row # NoRow => Adds(row),
           patterns' = [patterns EXCEPT ![k] = row]
    PROVE  patterns' \in Rows /\ CountsAddUp'
BY DEF CountsInv, TypeOK, Rows, CountsAddUp

\* Counts that were read, or none, add up.
LEMMA CountsRow ==
    ASSUME NEW snap \in Row \cup {NoRow}, NEW route \in Route,
           snap # NoRow => Adds(snap)
    PROVE  Counts(snap, route) \in Row /\ Adds(Counts(snap, route))
<1>1. CASE snap = NoRow
      BY <1>1 DEF Counts, Row, Adds
<1>2. CASE snap # NoRow
      BY <1>2 DEF Counts, Row, Adds
<1> QED BY <1>1, <1>2

LEMMA PutCounts ==
    ASSUME CountsInv, NEW p \in Proc, Put(p)
    PROVE  CountsInv'
<1>0. /\ pc[p] = "put" /\ run[p] \in Run /\ run[p].got \in Route
      /\ run[p].op \in {"save", "keep", "note"} /\ run[p].key \in Key
      /\ run[p].snap # NoRow => Adds(run[p].snap)
      BY Recording DEF Put, CountsInv, Knows
<1> DEFINE r == [run[p] EXCEPT !.snap = NoRow]
           l == IF run[p].op = "save" THEN "execute" ELSE "reread"
<1>1. /\ r \in Run /\ r.op = run[p].op /\ r.got = run[p].got /\ r.key = run[p].key
      /\ r.snap = NoRow
      BY <1>0 DEF Run
<1>2. run' = [run EXCEPT ![p] = r] /\ Goto(p, l)
      BY DEF Put, CountsInv, TypeOK
<1>3. l \in {"execute", "reread"}
      OBVIOUS
<1> HIDE DEF r, l
<1>4. /\ pc' \in [Proc -> Labels]
      /\ run' \in [Proc -> Run \cup {NoRow}]
      /\ Knows(p)'
      /\ \A q \in Proc \ {p} : pc'[q] = pc[q] /\ run'[q] = run[q]
      BY <1>0, <1>1, <1>2, <1>3, NextKnows DEF Labels, Statements
<1>5. /\ Counts(run[p].snap, run[p].got) \in Row
      /\ Adds(Counts(run[p].snap, run[p].got))
      BY <1>0, CountsRow DEF Run
<1>6. patterns' \in Rows /\ CountsAddUp'
      BY <1>5, RowReplaced DEF Put
<1> QED BY <1>4, <1>6, QuietStep DEF Put, CountsInv, TypeOK, history

LEMMA StopCounts ==
    ASSUME CountsInv, NEW p \in Proc, Stop(p)
    PROVE  CountsInv'
BY EndKnows, ReadStep DEF Stop, CountsInv, TypeOK, history

LEMMA ExecuteCounts ==
    ASSUME CountsInv, NEW p \in Proc, Execute(p)
    PROVE  CountsInv'
<1>0. /\ run[p] \in Run /\ run[p].got \in Route /\ run[p].job.intent \in Intent
      BY JobKnown DEF Execute, CountsInv, Knows
<1>1. PICK ok \in BOOLEAN :
          /\ told' = [told EXCEPT ![run[p].job.intent] = Met(@, ok)]
          /\ Connect(p, "note", [run[p] EXCEPT !.won = ok])
      BY DEF Execute
<1>2. told' \in [Intent -> [successes : Nat, failures : Nat]]
  <2>1. told \in [Intent -> [successes : Nat, failures : Nat]]
        BY DEF CountsInv, TypeOK
  <2>2. \A tally \in [successes : Nat, failures : Nat] :
           Met(tally, ok) \in [successes : Nat, failures : Nat]
        BY DEF Met
  <2>3. told' = [told EXCEPT ![run[p].job.intent] = Met(told[run[p].job.intent], ok)]
        BY <1>1
  <2> QED BY <1>0, <2>1, <2>2, <2>3
<1>3. [run[p] EXCEPT !.won = ok] \in Run /\ [run[p] EXCEPT !.won = ok].got = run[p].got
      BY <1>0 DEF Run
<1>4. /\ pc' \in [Proc -> Labels]
      /\ run' \in [Proc -> Run \cup {NoRow}]
      /\ Knows(p)'
      /\ \A q \in Proc \ {p} : pc'[q] = pc[q] /\ run'[q] = run[q]
      BY <1>0, <1>1, <1>3, ConnectKnows DEF CountsInv
<1>5. UNCHANGED <<patterns, schema, legacy>> /\ CountsAddUp'
      BY DEF Execute, store, CountsInv, CountsAddUp
<1> QED BY <1>2, <1>4, <1>5, QuietStep DEF Execute, CountsInv, TypeOK

\* One more outcome, in a row that held any counts.
LEMMA CountedRow ==
    ASSUME NEW row \in Row, NEW r \in Run, r.got \in Route, r.snap \in Row, Adds(r.snap)
    PROVE  /\ Counted(row, r) \in Row \cup {NoRow}
           /\ Counted(row, r) # NoRow => Adds(Counted(row, r))
<1> DEFINE new(e, s, f, of) ==
        [row EXCEPT !.executions = e, !.successes = s, !.failures = f, !.of = of]
<1>1. ASSUME NEW e \in Nat, NEW s \in Nat, NEW f \in Nat, NEW of \in SUBSET Route
      PROVE  /\ new(e, s, f, of) \in Row
             /\ new(e, s, f, of).executions = e
             /\ new(e, s, f, of).successes = s
             /\ new(e, s, f, of).failures = f
      BY DEF Row
<1> HIDE DEF new
<1>2. /\ r.snap.executions \in Nat /\ r.snap.successes \in Nat
      /\ r.snap.failures \in Nat /\ r.snap.of \cup {r.got} \in SUBSET Route
      /\ r.snap.executions = r.snap.successes + r.snap.failures
      BY DEF Row, Adds
<1>3. CASE row = NoRow
      BY <1>3 DEF Counted
<1>4. CASE row # NoRow /\ r.won
  <2>1. Counted(row, r) = new(r.snap.executions + 1, r.snap.successes + 1,
                              r.snap.failures + 0, r.snap.of \cup {r.got})
        BY <1>4 DEF Counted, new
  <2> QED BY <1>1, <1>2, <2>1 DEF Adds
<1>5. CASE row # NoRow /\ ~r.won
  <2>1. Counted(row, r) = new(r.snap.executions + 1, r.snap.successes + 0,
                              r.snap.failures + 1, r.snap.of \cup {r.got})
        BY <1>5 DEF Counted, new
  <2> QED BY <1>1, <1>2, <2>1 DEF Adds
<1> QED BY <1>3, <1>4, <1>5

LEMMA CountCounts ==
    ASSUME CountsInv, NEW p \in Proc, Count(p)
    PROVE  CountsInv'
<1>0. /\ pc[p] = "count" /\ run[p] \in Run /\ run[p].got \in Route
      /\ run[p].snap \in Row /\ Adds(run[p].snap)
      BY Recording DEF Count, CountsInv, Knows, Run
<1> DEFINE k == run[p].key
           row == Counted(patterns[k], run[p])
<1>1. CASE k \notin Key
      BY <1>1, EndKnows, QuietStep DEF Count, CountsInv, TypeOK, Rows, CountsAddUp, history
<1>2. CASE k \in Key
  <2>1. row \in Row \cup {NoRow} /\ (row # NoRow => Adds(row))
    <3>1. CASE patterns[k] = NoRow
          BY <3>1 DEF Counted
    <3>2. CASE patterns[k] # NoRow
      <4>1. patterns[k] \in Row
            BY <1>2, <3>2 DEF CountsInv, TypeOK, Rows
      <4> QED BY <1>0, <4>1, CountedRow
    <3> QED BY <3>1, <3>2
  <2>2. patterns' = [patterns EXCEPT ![k] = row]
        BY DEF Count
  <2> HIDE DEF row, k
  <2>3. patterns' \in Rows /\ CountsAddUp'
        BY <2>1, <2>2, RowReplaced
  <2> QED BY <2>3, EndKnows, QuietStep DEF Count, CountsInv, TypeOK, history
<1> QED BY <1>1, <1>2

LEMMA KillCounts ==
    ASSUME CountsInv, NEW p \in Proc, Kill(p)
    PROVE  CountsInv'
<1>1. /\ disturbed' \subseteq Intent
      /\ {crowded', stranded'} \subseteq BOOLEAN
      /\ faults' \in 0 .. MaxFault
      BY JobKnown, RouteCacheAssumption DEF Kill, CountsInv, TypeOK
<1>2. UNCHANGED <<patterns, schema, legacy>> /\ CountsAddUp'
      BY DEF Kill, store, CountsInv, CountsAddUp
<1> QED BY <1>1, <1>2, EndKnows, QuietStep DEF Kill, CountsInv, TypeOK

LEMMA StepCounts ==
    ASSUME CountsInv, NEW p \in Proc, Step(p)
    PROVE  CountsInv'
<1>1. CASE Open(p) \/ Rename(p) \/ Create(p) \/ Look(p) \/ Migrate(p)
      BY <1>1, OpenCounts, RenameCounts, CreateCounts, LookCounts, MigrateCounts
<1>2. CASE Check(p) \/ Touch(p) \/ Fuzzy(p) \/ Ask(p) \/ Stop(p) \/ Execute(p)
      BY <1>2, CheckCounts, TouchCounts, FuzzyCounts, AskCounts, StopCounts, ExecuteCounts
<1>3. CASE Save(p) \/ Put(p) \/ Note(p) \/ Reread(p) \/ Count(p)
      BY <1>3, SaveCounts, PutCounts, NoteCounts, RereadCounts, CountCounts
<1>4. CASE RenameRefused(p) \/ MigrateFails(p) \/ AskFails(p) \/ TableGone(p)
      BY <1>4, RaiseCounts
         DEF RenameRefused, MigrateFails, AskFails, TableGone, Statements, CountsInv, TypeOK
<1>5. CASE DatabaseFails(p)
  <2>1. pc[p] # "idle" /\ faults' \in 0 .. MaxFault
        BY <1>5, RouteCacheAssumption DEF DatabaseFails, Statements, CountsInv, TypeOK
  <2> QED BY <1>5, <2>1, RaiseCounts DEF DatabaseFails
<1>6. CASE Kill(p)
      BY <1>6, KillCounts
<1> QED BY <1>1, <1>2, <1>3, <1>4, <1>5, <1>6 DEF Step

LEMMA InitCounts ==
    ASSUME Init
    PROVE  CountsInv
<1>1. ASSUME NEW route \in Route
      PROVE  OldRow(route) \in Row /\ Adds(OldRow(route)) /\ OldRow(route).hits = 1
      BY DEF OldRow, Counts, Row, Adds
<1>2. /\ patterns \in Rows /\ CountsAddUp
      /\ \A k \in Key : patterns[k] # NoRow => patterns[k].hits \in Nat
  <2>1. CASE patterns = Empty
        BY <2>1 DEF Empty, Rows, CountsAddUp
  <2>2. CASE patterns \in [Key -> {NoRow} \cup {OldRow(route) : route \in Route}]
    <3>1. \A k \in Key : patterns[k] = NoRow \/ \E route \in Route : patterns[k] = OldRow(route)
          BY <2>2
    <3>2. \A k \in Key : \/ patterns[k] = NoRow
                         \/ patterns[k] \in Row /\ Adds(patterns[k]) /\ patterns[k].hits = 1
          BY <1>1, <3>1
    <3> QED BY <2>2, <3>2 DEF Rows, CountsAddUp
  <2> QED BY <2>1, <2>2 DEF Init
<1>3. told \in [Intent -> [successes : Nat, failures : Nat]]
  <2>1. \A i \in Intent : Global(i) \in Key
        BY DEF Global, Key, Scope
  <2> QED BY <1>2, <2>1 DEF Init
<1>4. schema \in {"none", "old", "new"}
      BY DEF Init
<1>5. pc \in [Proc -> Labels] /\ \A p \in Proc : Knows(p)
      BY DEF Init, Labels, Knows
<1>6. {swapped, crowded, stranded} \subseteq BOOLEAN
      BY DEF Init
<1> QED BY <1>2, <1>3, <1>4, <1>5, <1>6, RouteCacheAssumption DEF Init, CountsInv, TypeOK

LEMMA ToolsCount ==
    ASSUME CountsInv, NEW route \in Route, ChangeTools(route)
    PROVE  CountsInv'
<1>1. TypeOK'
      BY RouteCacheAssumption DEF CountsInv, TypeOK, ChangeTools, store
<1> QED BY <1>1 DEF CountsInv, ChangeTools, store, CountsAddUp, Knows

LEMMA CountsInvariant == Spec => []CountsInv
<1>1. CountsInv /\ [Next]_vars => CountsInv'
  <2> SUFFICES ASSUME CountsInv, [Next]_vars PROVE CountsInv'
      OBVIOUS
  <2>1. CASE UNCHANGED vars
    <3>1. TypeOK'
          BY <2>1 DEF vars, store, history, CountsInv, TypeOK
    <3> QED BY <2>1, <3>1 DEF vars, store, history, CountsInv, CountsAddUp, Knows
  <2> QED BY <2>1, StepCounts, BeginCounts, ToolsCount DEF Next
<1> QED BY <1>1, InitCounts, PTL DEF Spec

\* Every variable keeps its type.
THEOREM TypeCorrect == Spec => []TypeOK
BY CountsInvariant, PTL DEF CountsInv

\* The outcomes a row counts always add up to its executions, though they are
\* read in one statement, written in another, and carried over by a save.
THEOREM CountsAlwaysAddUp == Spec => []CountsAddUp
BY CountsInvariant, PTL DEF CountsInv


---------------------------------------------------------------------------
(* The credit of a route.                                                  *)

\* Nothing happened but runs that come and go, and none met a migration.
Calm == ~swapped /\ ~crowded /\ faults = 0

\* Of two runs for an intent at once it is known that they shared it.
Alone == \A p, q \in Proc :
    (p # q /\ pc[p] # "idle" /\ pc[q] # "idle" /\ run[p].job.intent = run[q].job.intent)
        => run[p].job.intent \in shared

\* The row a run works on is one of its intent.
Placed(p) ==
    /\ pc[p] \in {"touch", "put", "reread", "count"} =>
          run[p].key \in Key /\ run[p].key.intent = run[p].job.intent
    /\ pc[p] \in {"put", "reread"} => run[p].key = MyKey(run[p].job)

\* A run that migrates is alone but for runs that have yet to open the table.
Fresh(p) == pc[p] = "open" /\ run[p].op = "check"
Migrating ==
    /\ \A p, q \in Proc : Moving(p) /\ pc[q] # "idle" /\ p # q => Fresh(q)
    /\ \A p \in Proc : Moving(p) => run[p].op = "check"
    /\ schema # "new" => \A p \in Proc : pc[p] # "idle" => Moving(p) \/ Fresh(p)
    /\ \A p \in Proc : /\ pc[p] = "rename" => schema = "old"
                       /\ pc[p] = "create" => schema = "none"
                       /\ pc[p] \in {"look", "migrate"} => schema = "new"
                       /\ pc[p] = "migrate" => legacy # NoTable
    /\ schema = "old" => legacy = NoTable

\* Every route can be executed, and nobody asked for an explanation.
Installed == supported = Route /\ \A p \in Proc : pc[p] # "idle" => run[p].job.mode # "how"

OwnRows == \A k \in Key : k.intent \notin shared /\ patterns[k] # NoRow =>
              patterns[k].of \subseteq {patterns[k].result}

\* A run whose intent is its own has seen that there is no row for its request, or
\* executes the route the row holds.
Phase(p) == IF pc[p] = "open" \/ Moving(p) THEN run[p].op ELSE pc[p]
Agrees(p) == \A k \in Exact(run[p].job) : patterns[k].result = run[p].got
Follows(p) == pc[p] # "idle" /\ run[p].job.intent \notin shared =>
    /\ Phase(p) \in {"touch", "execute", "note", "reread"} => Agrees(p)
    /\ Phase(p) \in {"fuzzy", "ask", "save", "keep", "put"} => Exact(run[p].job) = {}
    /\ Phase(p) = "put" => run[p].snap = NoRow
    /\ Phase(p) = "count" =>
          /\ run[p].snap.of \subseteq {run[p].got}
          /\ patterns[run[p].key] # NoRow => patterns[run[p].key].result = run[p].got

CreditInv ==
    /\ CountsInv /\ Alone /\ \A p \in Proc : Placed(p)
    /\ Calm => Migrating /\ Installed /\ OwnRows /\ \A p \in Proc : Follows(p)

LEMMA ExactIsOne ==
    ASSUME NEW j \in Job, NEW k \in Exact(j), NEW l \in Exact(j)
    PROVE  /\ k = l /\ k \in Key /\ k.intent = j.intent /\ patterns[k] # NoRow
           /\ MyKey(j) \in Key
<1>1. /\ k \in Key /\ l \in Key /\ k.intent = j.intent /\ l.intent = j.intent
      /\ k.scope \in {j.scope, Anywhere} /\ l.scope \in {j.scope, Anywhere}
      /\ patterns[k] # NoRow /\ patterns[l] # NoRow
      /\ MyKey(j) \in Key
      BY DEF Exact, Visible, MyKey, Key, Job
<1>2. k = [scope |-> k.scope, intent |-> j.intent] /\ l = [scope |-> l.scope, intent |-> j.intent]
      BY <1>1 DEF Key
<1>3. k.scope = j.scope => k = MyKey(j)
      BY <1>2 DEF MyKey
<1>4. l.scope = j.scope => l = MyKey(j)
      BY <1>2 DEF MyKey
<1>5. (k = MyKey(j) \/ l = MyKey(j)) => k = l
      BY <1>1 DEF Exact, Visible, MyKey
<1> QED BY <1>1, <1>2, <1>3, <1>4, <1>5

LEMMA MyRowIsExact ==
    ASSUME NEW j \in Job, patterns[MyKey(j)] # NoRow
    PROVE  Exact(j) = {MyKey(j)}
BY DEF Exact, Visible, MyKey, Key, Job

\* What a row shows to a run that looks for one.
Alike(k) == /\ patterns'[k] = NoRow <=> patterns[k] = NoRow
            /\ patterns[k] # NoRow => patterns'[k].result = patterns[k].result

LEMMA ExactStays ==
    ASSUME NEW j \in Job, \A k \in Key : k.intent = j.intent => Alike(k)
    PROVE  /\ Exact(j)' = Exact(j)
           /\ \A k \in Exact(j) : patterns'[k].result = patterns[k].result
<1>1. \A k \in Key : k.intent = j.intent =>
          (k \in Visible(j)' <=> k \in Visible(j))
      BY DEF Visible, Alike
<1>2. MyKey(j) \in Key /\ MyKey(j).intent = j.intent
      BY DEF MyKey, Key, Job
<1>3. Exact(j) = {k \in Key : k.intent = j.intent /\ k \in Visible(j)
                               /\ (MyKey(j) \in Visible(j) => k = MyKey(j))}
      BY <1>2 DEF Exact, Visible
<1>4. Exact(j)' = {k \in Key : k.intent = j.intent /\ k \in Visible(j)'
                               /\ (MyKey(j) \in Visible(j)' => k = MyKey(j))}
      BY <1>2 DEF Exact, Visible
<1>5. Exact(j)' = Exact(j)
      BY <1>1, <1>2, <1>3, <1>4
<1> QED BY <1>3, <1>5 DEF Alike, Visible

\* A step of another run leaves what a run follows alone.
LEMMA OthersFollow ==
    ASSUME NEW q \in Proc, Follows(q), pc'[q] = pc[q], run'[q] = run[q], shared \subseteq shared',
           pc[q] # "idle" => run[q].job \in Job /\ run[q].op # "count",
           pc[q] = "count" => run[q].key \in Key /\ run[q].key.intent = run[q].job.intent,
           \/ pc[q] = "idle" \/ Fresh(q)
           \/ \A k \in Key : k.intent = run[q].job.intent => Alike(k)
    PROVE  Follows(q)'
<1>1. Moving(q)' = Moving(q) /\ Phase(q)' = Phase(q)
      BY DEF Moving, Phase
<1>2. CASE pc[q] = "idle" \/ Fresh(q)
      BY <1>1, <1>2 DEF Follows, Fresh, Phase
<1>3. CASE pc[q] # "idle" /\ \A k \in Key : k.intent = run[q].job.intent => Alike(k)
  <2>1. /\ Exact(run[q].job)' = Exact(run[q].job)
        /\ \A k \in Exact(run[q].job) : patterns'[k].result = patterns[k].result
    <3> PICK j \in Job : j = run[q].job
        BY <1>3
    <3>1. /\ Exact(j)' = Exact(j)
          /\ \A k \in Exact(j) : patterns'[k].result = patterns[k].result
          BY <1>3, ExactStays
    <3> QED BY <3>1 DEF Exact, Visible, MyKey
  <2>2. Agrees(q) => Agrees(q)'
        BY <2>1 DEF Agrees
  <2>3. Phase(q) = "count" => pc[q] = "count"
        BY <1>3 DEF Phase
  <2>4. pc[q] = "count" => Alike(run[q].key)
        BY <1>3
  <2>5. ASSUME run[q].job.intent \notin shared', Phase(q)' = "count"
        PROVE  /\ run'[q].snap.of \subseteq {run'[q].got}
               /\ patterns'[run'[q].key] # NoRow => patterns'[run'[q].key].result = run'[q].got
    <3>1. run[q].job.intent \notin shared /\ pc[q] = "count"
          BY <1>1, <2>3, <2>5
    <3> QED BY <1>1, <1>3, <2>4, <2>5, <3>1 DEF Follows, Alike
  <2> QED BY <1>1, <1>3, <2>1, <2>2, <2>5 DEF Follows
<1> QED BY <1>2, <1>3

\* A run at its own statements: the table is there, and nobody migrates.
LEMMA AtWork ==
    ASSUME Migrating, NEW p \in Proc, pc[p] # "idle", ~Moving(p), pc[p] # "open"
    PROVE  schema = "new" /\ \A q \in Proc : ~Moving(q)
BY DEF Migrating, Fresh

\* It goes on to another statement, to a new connection, or ends.
LEMMA MigratingStays ==
    ASSUME Migrating, NEW p \in Proc, pc[p] # "idle", ~Moving(p), pc[p] # "open",
           pc'[p] \notin {"rename", "create", "look", "migrate"},
           \A q \in Proc \ {p} : pc'[q] = pc[q] /\ run'[q] = run[q],
           UNCHANGED <<schema, legacy>>
    PROVE  Migrating'
<1>1. schema' = "new" /\ \A q \in Proc : ~Moving(q)
      BY AtWork
<1>2. \A q \in Proc : ~Moving(q)'
      BY <1>1 DEF Moving
<1>3. \A q \in Proc : pc'[q] \notin {"rename", "create", "look", "migrate"}
      BY <1>1 DEF Moving
<1> QED BY <1>1, <1>2, <1>3 DEF Migrating

\* One step of a run, from what it changes.
LEMMA CreditStep ==
    ASSUME CreditInv, CountsInv', NEW p \in Proc, pc[p] # "idle",
           \A q \in Proc \ {p} : pc'[q] = pc[q] /\ run'[q] = run[q],
           pc'[p] # "idle" => run'[p].job = run[p].job,
           UNCHANGED <<shared, supported>>, Placed(p)',
           Calm' => Calm /\ Migrating' /\ OwnRows' /\ Follows(p)',
           Calm' => \A q \in Proc \ {p} :
              \/ pc[q] = "idle" \/ Fresh(q)
              \/ run[q].job.intent = run[p].job.intent
              \/ \A k \in Key : k.intent = run[q].job.intent => Alike(k)
    PROVE  CreditInv'
<1>1. Alone'
      BY DEF CreditInv, Alone
<1>2. \A q \in Proc \ {p} : Placed(q)'
      BY DEF CreditInv, Placed
<1>3. ASSUME Calm', NEW q \in Proc \ {p} PROVE Follows(q)'
  <2>1. pc[q] # "idle" => run[q].job \in Job /\ run[q].op # "count"
        BY RouteCacheAssumption DEF CreditInv, CountsInv, Knows, Run
  <2>2. Follows(q) /\ (pc[q] = "count" => run[q].key \in Key /\ run[q].key.intent = run[q].job.intent)
        BY <1>3 DEF CreditInv, Placed
  <2>3. CASE pc[q] # "idle" /\ run[q].job.intent = run[p].job.intent
        BY <2>3 DEF CreditInv, Alone, Follows
  <2>4. CASE \/ pc[q] = "idle" \/ Fresh(q)
             \/ \A k \in Key : k.intent = run[q].job.intent => Alike(k)
        BY <2>1, <2>2, <2>4, OthersFollow
  <2> QED BY <1>3, <2>3, <2>4
<1>4. ASSUME Calm' PROVE Installed'
      BY <1>4 DEF CreditInv, Installed
<1> QED BY <1>1, <1>2, <1>3, <1>4 DEF CreditInv

LEMMA CalmBefore ==
    ASSUME CountsInv, [Next]_vars, Calm'
    PROVE  Calm
<1>1. faults \in Nat
      BY RouteCacheAssumption DEF CountsInv, TypeOK
<1>5. swapped \in BOOLEAN /\ crowded \in BOOLEAN
      BY DEF CountsInv, TypeOK
<1>2. /\ (swapped => swapped') /\ (crowded => crowded')
      /\ faults' = faults \/ faults' = faults + 1
  <2>1. CASE \E p \in Proc : Step(p)
    <3>1. PICK p \in Proc : Step(p)
          BY <2>1
    <3>2. ASSUME Raise(p), faults' = faults \/ faults' = faults + 1
          PROVE  /\ (swapped => swapped') /\ (crowded => crowded')
                 /\ faults' = faults \/ faults' = faults + 1
          BY <3>2 DEF Raise
    <3>3. CASE RenameRefused(p) \/ MigrateFails(p) \/ AskFails(p) \/ TableGone(p) \/ DatabaseFails(p)
          BY <3>2, <3>3 DEF RenameRefused, MigrateFails, AskFails, TableGone, DatabaseFails
    <3>4. CASE Open(p) \/ Rename(p) \/ Create(p) \/ Look(p) \/ Migrate(p)
          BY <1>5, <3>4 DEF Open, Rename, Create, Look, Migrate, history
    <3>5. CASE Check(p) \/ Touch(p) \/ Fuzzy(p) \/ Ask(p) \/ Stop(p) \/ Execute(p)
          BY <3>5 DEF Check, Touch, Fuzzy, Ask, Stop, Execute, history
    <3>6. CASE Save(p) \/ Put(p) \/ Note(p) \/ Reread(p) \/ Count(p)
          BY <3>6 DEF Save, Put, Note, Reread, Count, history
    <3>7. CASE Kill(p)
          BY <3>7 DEF Kill
    <3> QED BY <3>1, <3>3, <3>4, <3>5, <3>6, <3>7 DEF Step
  <2>2. CASE \E p \in Proc, j \in Asked : Begin(p, j)
        BY <1>5, <2>2 DEF Begin
  <2>3. CASE \E route \in Route : ChangeTools(route)
        BY <2>3 DEF ChangeTools
  <2>4. CASE UNCHANGED vars
        BY <2>4 DEF vars, history
  <2> QED BY <2>1, <2>2, <2>3, <2>4 DEF Next
<1>3. faults' = 0 /\ ~swapped' /\ ~crowded'
      BY DEF Calm
<1>4. faults = 0
      BY <1>1, <1>2, <1>3
<1> QED BY <1>2, <1>3, <1>4 DEF Calm

\* What a step of p that only reads, and sends it on, has to show.
LEMMA ReadCredits ==
    ASSUME CreditInv, CountsInv', NEW p \in Proc, pc[p] # "idle", ~Moving(p), pc[p] # "open",
           \A q \in Proc \ {p} : pc'[q] = pc[q] /\ run'[q] = run[q],
           pc'[p] # "idle" => run'[p].job = run[p].job,
           pc'[p] \notin {"rename", "create", "look", "migrate"},
           UNCHANGED <<patterns, schema, legacy, shared, supported>>,
           Placed(p)',
           Calm' => Calm /\ Follows(p)'
    PROVE  CreditInv'
<1>1. ASSUME Calm' PROVE Migrating' /\ OwnRows'
  <2>1. Migrating /\ OwnRows
        BY <1>1 DEF CreditInv
  <2>2. Migrating'
        BY <2>1, MigratingStays
  <2> QED BY <2>1, <2>2 DEF OwnRows
<1>2. \A k \in Key : Alike(k)
      BY DEF Alike
<1> QED BY <1>1, <1>2, CreditStep

LEMMA EndCredits ==
    ASSUME CreditInv, CountsInv', NEW p \in Proc, pc[p] # "idle", ~Moving(p), pc[p] # "open", End(p),
           UNCHANGED <<patterns, schema, legacy, shared, supported>>,
           Calm' => Calm
    PROVE  CreditInv'
<1>1. /\ pc'[p] = "idle" /\ \A q \in Proc \ {p} : pc'[q] = pc[q] /\ run'[q] = run[q]
      BY EndKnows DEF CreditInv, CountsInv, End, Goto, TypeOK
<1>2. Placed(p)' /\ Follows(p)'
      BY <1>1 DEF Placed, Follows
<1> QED BY <1>1, <1>2, ReadCredits

\* What a connection carries over.
LEMMA ConnectTo ==
    ASSUME CountsInv, NEW p \in Proc, NEW r \in Run, NEW op, Connect(p, op, r)
    PROVE  /\ pc'[p] = "open" /\ run'[p].op = op /\ run'[p].job = r.job
           /\ op # "fuzzy" => run'[p].got = r.got
           /\ \A q \in Proc \ {p} : pc'[q] = pc[q] /\ run'[q] = run[q]
<1> DEFINE s == [r EXCEPT !.op = op, !.key = NoRow, !.snap = NoRow, !.rows = NoTable,
                          !.got = IF op = "fuzzy" THEN NoRow ELSE @]
<1>1. /\ s.op = op /\ s.job = r.job /\ (op # "fuzzy" => s.got = r.got)
      BY DEF Run
<1>2. run' = [run EXCEPT ![p] = s]
      BY DEF Connect
<1> HIDE DEF s
<1> QED BY <1>1, <1>2 DEF Connect, Goto, CountsInv, TypeOK

\* A new connection to count an outcome, or one with no row for the request.
LEMMA ConnectCredits ==
    ASSUME CreditInv, CountsInv', NEW p \in Proc, pc[p] # "idle", ~Moving(p), pc[p] # "open",
           NEW r \in Run, r.job = run[p].job, NEW op \in {"fuzzy", "save", "keep", "note"},
           Connect(p, op, r),
           UNCHANGED <<patterns, schema, legacy, shared, supported>>,
           Calm' => Calm,
           Calm /\ run[p].job.intent \notin shared =>
               IF op = "note" THEN \A k \in Exact(run[p].job) : patterns[k].result = r.got
                              ELSE Exact(run[p].job) = {}
    PROVE  CreditInv'
<1>1. /\ pc'[p] = "open" /\ run'[p].op = op /\ run'[p].job = run[p].job
      /\ (op # "fuzzy" => run'[p].got = r.got)
      /\ \A q \in Proc \ {p} : pc'[q] = pc[q] /\ run'[q] = run[q]
      BY ConnectTo DEF CreditInv
<1>2. Placed(p)'
      BY <1>1 DEF Placed
<1>3. Phase(p)' = op /\ Exact(run[p].job)' = Exact(run'[p].job) /\ Exact(run'[p].job) = Exact(run[p].job)
      BY <1>1 DEF Phase, Exact, Visible, MyKey
<1>4. ASSUME Calm' PROVE Follows(p)'
      BY <1>1, <1>3, <1>4 DEF Follows, Agrees
<1> QED BY <1>1, <1>2, <1>4, ReadCredits

\* What a run at its statements knows of its request and of the routes.
LEMMA RunKnows ==
    ASSUME CreditInv, NEW p \in Proc, pc[p] # "idle"
    PROVE  /\ run[p] \in Run /\ run[p].job \in Job /\ Placed(p)
           /\ Calm => /\ Migrating /\ OwnRows /\ Follows(p)
                      /\ \A route \in Route : Usable(p, route)
BY RouteCacheAssumption DEF CreditInv, CountsInv, Knows, Run, Installed, Usable

\* A row in the table is well typed.
LEMMA RowTyped ==
    ASSUME CountsInv, NEW k \in Key, patterns[k] # NoRow
    PROVE  patterns[k] \in Row /\ patterns[k].result \in Route
BY DEF CountsInv, TypeOK, Rows, Row

\* A request sees the same row while the table stays as it is.
LEMMA SameExact ==
    ASSUME NEW p \in Proc, run'[p].job = run[p].job, UNCHANGED patterns
    PROVE  Exact(run[p].job)' = Exact(run[p].job)
BY DEF Exact, Visible, MyKey

LEMMA CheckCredits ==
    ASSUME CreditInv, CountsInv', Calm' => Calm, NEW p \in Proc, Check(p)
    PROVE  CreditInv'
<1>0. /\ pc[p] = "check" /\ UNCHANGED <<patterns, schema, legacy, shared, supported>>
      /\ ~Moving(p) /\ run[p] \in Run /\ run[p].job \in Job
      BY RunKnows DEF Check, store, history, Moving
<1>1. CASE Exact(run[p].job) = {}
      BY <1>0, <1>1, ConnectCredits DEF Check
<1>2. CASE Exact(run[p].job) # {}
  <2>1. PICK k \in Exact(run[p].job) :
            /\ Goto(p, "touch")
            /\ run' = [run EXCEPT ![p].got = patterns[k].result, ![p].key = k]
        BY <1>2 DEF Check
  <2>2. /\ k \in Key /\ k.intent = run[p].job.intent /\ patterns[k] # NoRow
        /\ \A l \in Exact(run[p].job) : l = k
        BY <1>0, ExactIsOne
  <2>3. /\ pc'[p] = "touch" /\ run'[p].job = run[p].job /\ run'[p].key = k
        /\ run'[p].got = patterns[k].result
        /\ \A q \in Proc \ {p} : pc'[q] = pc[q] /\ run'[q] = run[q]
        BY <1>0, <2>1 DEF Goto, CreditInv, CountsInv, TypeOK, Run
  <2>4. Placed(p)'
        BY <2>2, <2>3 DEF Placed
  <2>5. Exact(run[p].job)' = Exact(run[p].job) /\ Phase(p)' = "touch"
        BY <1>0, <2>3, SameExact DEF Phase, Moving
  <2>6. Follows(p)'
    <3>1. \A l \in Exact(run[p].job) : patterns'[l].result = run'[p].got
          BY <1>0, <2>2, <2>3
    <3>2. Agrees(p)'
          BY <2>5, <3>1 DEF Agrees
    <3> QED BY <2>5, <3>2 DEF Follows
  <2> QED BY <1>0, <2>3, <2>4, <2>6, ReadCredits
<1> QED BY <1>1, <1>2

LEMMA TouchCredits ==
    ASSUME CreditInv, CountsInv', Calm' => Calm, NEW p \in Proc, Touch(p)
    PROVE  CreditInv'
<1>0. /\ pc[p] = "touch" /\ UNCHANGED <<schema, legacy, shared, supported>>
      /\ ~Moving(p) /\ run[p] \in Run /\ run[p].job \in Job /\ Placed(p) /\ run[p].got \in Route
      BY RunKnows DEF Touch, history, Moving, CreditInv, CountsInv, Knows
<1> PICK k \in Key : k = run[p].key
    BY <1>0 DEF Placed
<1>1. patterns' = [patterns EXCEPT ![k] = Touched(patterns[k])] /\ patterns \in Rows
      BY DEF Touch, CreditInv, CountsInv, TypeOK
<1>2. /\ \A l \in Key : Alike(l)
      /\ \A l \in Key : patterns[l] # NoRow => patterns'[l].of = patterns[l].of
  <2>1. patterns[k] # NoRow => /\ Touched(patterns[k]) \in Row
                               /\ Touched(patterns[k]).result = patterns[k].result
                               /\ Touched(patterns[k]).of = patterns[k].of
    <3>1. CASE patterns[k] # NoRow
      <4>1. patterns[k] \in Row
            BY <3>1, RowTyped DEF CreditInv
      <4> QED BY <3>1, <4>1 DEF Touched, Row
    <3> QED BY <3>1
  <2>2. patterns[k] = NoRow => Touched(patterns[k]) = NoRow
        BY DEF Touched
  <2>3. \A l \in Key \ {k} : patterns'[l] = patterns[l]
        BY <1>1 DEF Rows
  <2>4. patterns'[k] = Touched(patterns[k])
        BY <1>1 DEF Rows
  <2> QED BY <2>1, <2>2, <2>3, <2>4, RouteCacheAssumption DEF Alike
<1>3. OwnRows => OwnRows'
      BY <1>0, <1>2 DEF OwnRows, Alike
<1>4. ASSUME NEW j \in Job PROVE Exact(j)' = Exact(j)
      BY <1>2, ExactStays
<1>5. CASE Goto(p, "execute") /\ UNCHANGED run
  <2>1. pc'[p] = "execute" /\ \A q \in Proc \ {p} : pc'[q] = pc[q]
        BY <1>5 DEF Goto, CreditInv, CountsInv, TypeOK
  <2>2. ASSUME Calm' PROVE Follows(p)'
    <3>1. Follows(p)
          BY <2>2, <1>0, RunKnows
    <3>2. Phase(p)' = "execute" /\ Phase(p) = "touch"
          BY <1>0, <2>1 DEF Phase, Moving
    <3>3. run[p].job.intent \notin shared => Agrees(p)
          BY <1>0, <3>1, <3>2 DEF Follows
    <3>4. \A l \in Exact(run[p].job) : patterns'[l].result = patterns[l].result
          BY <1>0, <1>2, ExactStays
    <3>5. Exact(run[p].job)' = Exact(run[p].job)
      <4> PICK j \in Job : j = run[p].job
          BY <1>0
      <4>1. Exact(j)' = Exact(j)
            BY <1>4
      <4> QED BY <1>5, <4>1 DEF Exact, Visible, MyKey
    <3>6. Agrees(p) => Agrees(p)'
          BY <1>5, <3>4, <3>5 DEF Agrees
    <3> QED BY <1>0, <1>5, <3>2, <3>3, <3>6 DEF Follows
  <2>3. Placed(p)'
        BY <2>1 DEF Placed
  <2>4. ASSUME Calm' PROVE Migrating'
        BY <1>0, <1>5, <2>1, <2>4, MigratingStays, RunKnows
  <2>5. ASSUME Calm' PROVE OwnRows'
        BY <1>0, <1>3, <2>5, RunKnows
  <2> QED BY <1>0, <1>2, <1>5, <2>1, <2>2, <2>3, <2>4, <2>5, CreditStep
<1>6. CASE ~ (Goto(p, "execute") /\ UNCHANGED run)
  <2>1. ~Calm /\ Connect(p, "fuzzy", run[p])
        BY <1>0, <1>6, RunKnows DEF Touch
  <2>2. /\ pc'[p] = "open" /\ run'[p].job = run[p].job
        /\ \A q \in Proc \ {p} : pc'[q] = pc[q] /\ run'[q] = run[q]
        BY <1>0, <2>1, ConnectTo DEF CreditInv
  <2>3. Placed(p)'
        BY <2>2 DEF Placed
  <2> QED BY <1>0, <2>1, <2>2, <2>3, CreditStep
<1> QED BY <1>5, <1>6

LEMMA FuzzyCredits ==
    ASSUME CreditInv, CountsInv', Calm' => Calm, NEW p \in Proc, Fuzzy(p)
    PROVE  CreditInv'
<1>0. /\ pc[p] = "fuzzy" /\ UNCHANGED <<patterns, schema, legacy, shared, supported>>
      /\ ~Moving(p) /\ run[p] \in Run /\ run[p].job \in Job
      BY RunKnows DEF Fuzzy, store, history, Moving
<1>1. ASSUME Calm, run[p].job.intent \notin shared PROVE Exact(run[p].job) = {}
  <2>1. Phase(p) = "fuzzy" /\ Follows(p)
        BY <1>0, <1>1, RunKnows DEF Phase
  <2> QED BY <1>0, <1>1, <2>1 DEF Follows
<1>2. \/ End(p)
      \/ Goto(p, "ask") /\ UNCHANGED run
      \/ /\ Goto(p, "execute")
         /\ \E route : run' = [run EXCEPT ![p].got = route]
      BY DEF Fuzzy
<1>3. CASE End(p)
      BY <1>0, <1>3, EndCredits
<1>4. ASSUME NEW l \in {"ask", "execute"}, Goto(p, l),
             \A q \in Proc \ {p} : run'[q] = run[q], run'[p].job = run[p].job
      PROVE  CreditInv'
  <2>1. pc'[p] = l /\ \A q \in Proc \ {p} : pc'[q] = pc[q]
        BY <1>4 DEF Goto, CreditInv, CountsInv, TypeOK
  <2>2. Placed(p)'
        BY <2>1 DEF Placed
  <2>3. Exact(run[p].job)' = Exact(run[p].job) /\ Phase(p)' = l
        BY <1>0, <1>4, <2>1, SameExact DEF Phase, Moving
  <2>4. ASSUME Calm' PROVE Follows(p)'
        BY <1>0, <1>1, <1>4, <2>3, <2>4 DEF Follows, Agrees
  <2> QED BY <1>0, <1>4, <2>1, <2>2, <2>4, ReadCredits
<1>5. run \in [Proc -> Run \cup {NoRow}]
      BY DEF CreditInv, CountsInv, TypeOK
<1>6. CASE Goto(p, "ask") /\ UNCHANGED run
      BY <1>4, <1>6
<1>7. CASE Goto(p, "execute") /\ \E route : run' = [run EXCEPT ![p].got = route]
  <2>1. PICK route : run' = [run EXCEPT ![p].got = route]
        BY <1>7
  <2>2. run'[p].job = run[p].job /\ \A q \in Proc \ {p} : run'[q] = run[q]
        BY <1>0, <1>5, <2>1 DEF Run
  <2> QED BY <1>4, <1>7, <2>2
<1> QED BY <1>2, <1>3, <1>6, <1>7

\* What a run that follows knows at a label of its own statements.
LEMMA AtLabel ==
    ASSUME CreditInv, Calm, NEW p \in Proc, pc[p] # "idle", ~Moving(p), pc[p] # "open",
           run[p].job.intent \notin shared
    PROVE  /\ pc[p] \in {"touch", "execute", "note", "reread"} => Agrees(p)
           /\ pc[p] \in {"fuzzy", "ask", "save", "keep", "put"} => Exact(run[p].job) = {}
           /\ pc[p] = "put" => run[p].snap = NoRow
           /\ pc[p] = "count" =>
                 /\ run[p].snap.of \subseteq {run[p].got}
                 /\ patterns[run[p].key] # NoRow => patterns[run[p].key].result = run[p].got
<1>1. Follows(p) /\ Phase(p) = pc[p]
      BY RunKnows DEF Phase
<1> QED BY <1>1 DEF Follows

LEMMA AskCredits ==
    ASSUME CreditInv, CountsInv', Calm' => Calm, NEW p \in Proc, Ask(p) \/ AskFails(p)
    PROVE  CreditInv'
<1>0. /\ pc[p] = "ask" /\ UNCHANGED <<patterns, schema, legacy, shared, supported>>
      /\ ~Moving(p) /\ run[p] \in Run
      BY RunKnows DEF Ask, AskFails, Raise, store, history, Moving
<1>1. Calm /\ run[p].job.intent \notin shared => Exact(run[p].job) = {}
      BY <1>0, AtLabel
<1>2. CASE End(p)
      BY <1>0, <1>2, EndCredits
<1>3. ASSUME NEW route \in Route, Connect(p, "save", [run[p] EXCEPT !.got = route])
      PROVE  CreditInv'
  <2>1. /\ [run[p] EXCEPT !.got = route] \in Run
        /\ [run[p] EXCEPT !.got = route].job = run[p].job
        BY <1>0 DEF Run
  <2> QED BY <1>0, <1>1, <1>3, <2>1, ConnectCredits
<1>4. CASE Connect(p, "fuzzy", [run[p] EXCEPT !.fell = TRUE])
  <2>1. /\ [run[p] EXCEPT !.fell = TRUE] \in Run
        /\ [run[p] EXCEPT !.fell = TRUE].job = run[p].job
        BY <1>0 DEF Run
  <2> QED BY <1>0, <1>1, <1>4, <2>1, ConnectCredits
<1> QED BY <1>2, <1>3, <1>4 DEF Ask, AskFails, Raise

\* A row is read to be written.
LEMMA Read ==
    ASSUME CreditInv, NEW p \in Proc, pc[p] # "idle", NEW k, NEW l, Snapshot(p, k), Goto(p, l)
    PROVE  /\ pc'[p] = l /\ run'[p].job = run[p].job /\ run'[p].key = k
           /\ run'[p].snap = patterns[k] /\ run'[p].got = run[p].got
           /\ \A q \in Proc \ {p} : pc'[q] = pc[q] /\ run'[q] = run[q]
BY RunKnows DEF Snapshot, Goto, CreditInv, CountsInv, TypeOK, Run

LEMMA SaveCredits ==
    ASSUME CreditInv, CountsInv', Calm' => Calm, NEW p \in Proc, Save(p)
    PROVE  CreditInv'
<1>0. /\ pc[p] \in {"save", "keep"} /\ UNCHANGED <<patterns, schema, legacy, shared, supported>>
      /\ ~Moving(p) /\ run[p] \in Run /\ run[p].job \in Job
      BY RunKnows DEF Save, store, Moving
<1>7. MyKey(run[p].job) \in Key /\ MyKey(run[p].job).intent = run[p].job.intent
      BY <1>0, JobKnown DEF MyKey, CreditInv
<1> PICK k \in Key : k = MyKey(run[p].job) /\ k.intent = run[p].job.intent
    BY <1>7
<1>1. /\ pc'[p] = "put" /\ run'[p].job = run[p].job /\ run'[p].key = k
      /\ run'[p].snap = patterns[k]
      /\ \A q \in Proc \ {p} : pc'[q] = pc[q] /\ run'[q] = run[q]
      BY <1>0, Read DEF Save
<1>2. Placed(p)'
      BY <1>1 DEF Placed, MyKey
<1>3. Calm /\ run[p].job.intent \notin shared => Exact(run[p].job) = {}
      BY <1>0, AtLabel
<1>4. Exact(run[p].job) = {} => patterns[k] = NoRow
      BY <1>0, MyRowIsExact
<1>5. Exact(run[p].job)' = Exact(run[p].job) /\ Phase(p)' = "put"
      BY <1>0, <1>1, SameExact DEF Phase, Moving
<1>6. ASSUME Calm' PROVE Follows(p)'
      BY <1>0, <1>1, <1>3, <1>4, <1>5, <1>6 DEF Follows
<1> QED BY <1>0, <1>1, <1>2, <1>6, ReadCredits

LEMMA NoteCredits ==
    ASSUME CreditInv, CountsInv', Calm' => Calm, NEW p \in Proc, Note(p)
    PROVE  CreditInv'
<1>0. /\ pc[p] = "note" /\ UNCHANGED <<patterns, schema, legacy, shared, supported>>
      /\ ~Moving(p) /\ run[p] \in Run /\ run[p].job \in Job
      BY RunKnows DEF Note, store, Moving
<1>1. CASE Exact(run[p].job) = {}
      BY <1>0, <1>1, ConnectCredits DEF Note
<1>2. CASE Exact(run[p].job) # {}
  <2>1. PICK k \in Exact(run[p].job) : Snapshot(p, k) /\ Goto(p, "count")
        BY <1>2 DEF Note
  <2>2. k \in Key /\ k.intent = run[p].job.intent /\ patterns[k] # NoRow
        BY <1>0, ExactIsOne
  <2>3. /\ pc'[p] = "count" /\ run'[p].job = run[p].job /\ run'[p].key = k
        /\ run'[p].snap = patterns[k] /\ run'[p].got = run[p].got
        /\ \A q \in Proc \ {p} : pc'[q] = pc[q] /\ run'[q] = run[q]
        BY <1>0, <2>1, Read
  <2>4. Placed(p)'
        BY <2>2, <2>3 DEF Placed
  <2>5. Calm /\ run[p].job.intent \notin shared =>
            patterns[k].result = run[p].got /\ patterns[k].of \subseteq {run[p].got}
    <3>1. Calm /\ run[p].job.intent \notin shared => patterns[k].result = run[p].got
          BY <1>0, AtLabel DEF Agrees
    <3>2. Calm => OwnRows
          BY <1>0, RunKnows
    <3> QED BY <2>2, <3>1, <3>2 DEF OwnRows
  <2>6. Phase(p)' = "count"
        BY <2>3 DEF Phase, Moving
  <2>7. ASSUME Calm' PROVE Follows(p)'
        BY <1>0, <2>3, <2>5, <2>6, <2>7 DEF Follows
  <2> QED BY <1>0, <2>3, <2>4, <2>7, ReadCredits
<1> QED BY <1>1, <1>2

LEMMA RereadCredits ==
    ASSUME CreditInv, CountsInv', Calm' => Calm, NEW p \in Proc, Reread(p)
    PROVE  CreditInv'
<1>0. /\ pc[p] = "reread" /\ UNCHANGED <<patterns, schema, legacy, shared, supported>>
      /\ ~Moving(p) /\ run[p] \in Run /\ run[p].job \in Job /\ Placed(p)
      BY RunKnows DEF Reread, store, Moving
<1> PICK k \in Key : k = run[p].key /\ k = MyKey(run[p].job) /\ k.intent = run[p].job.intent
    BY <1>0 DEF Placed
<1>1. CASE patterns[k] = NoRow
      BY <1>0, <1>1, EndCredits DEF Reread
<1>2. CASE patterns[k] # NoRow
  <2>3. /\ pc'[p] = "count" /\ run'[p].job = run[p].job /\ run'[p].key = k
        /\ run'[p].snap = patterns[k] /\ run'[p].got = run[p].got
        /\ \A q \in Proc \ {p} : pc'[q] = pc[q] /\ run'[q] = run[q]
        BY <1>0, <1>2, Read DEF Reread
  <2>4. Placed(p)'
        BY <2>3 DEF Placed
  <2>5. Calm /\ run[p].job.intent \notin shared =>
            patterns[k].result = run[p].got /\ patterns[k].of \subseteq {run[p].got}
    <3>0. k \in Exact(run[p].job)
          BY <1>0, <1>2, MyRowIsExact
    <3>1. Calm /\ run[p].job.intent \notin shared => patterns[k].result = run[p].got
          BY <1>0, <3>0, AtLabel DEF Agrees
    <3>2. Calm => OwnRows
          BY <1>0, RunKnows
    <3> QED BY <1>2, <3>1, <3>2 DEF OwnRows
  <2>6. Phase(p)' = "count"
        BY <2>3 DEF Phase, Moving
  <2>7. ASSUME Calm' PROVE Follows(p)'
        BY <1>0, <2>3, <2>5, <2>6, <2>7 DEF Follows
  <2> QED BY <1>0, <2>3, <2>4, <2>7, ReadCredits
<1> QED BY <1>1, <1>2

LEMMA ExecuteCredits ==
    ASSUME CreditInv, CountsInv', Calm' => Calm, NEW p \in Proc, Stop(p) \/ Execute(p)
    PROVE  CreditInv'
<1>0. /\ pc[p] = "execute" /\ UNCHANGED <<patterns, schema, legacy, shared, supported>>
      /\ ~Moving(p) /\ run[p] \in Run
      BY RunKnows DEF Stop, Execute, store, history, Moving
<1>1. CASE Stop(p)
      BY <1>0, <1>1, EndCredits DEF Stop
<1>2. CASE Execute(p)
  <2>1. PICK ok \in BOOLEAN : Connect(p, "note", [run[p] EXCEPT !.won = ok])
        BY <1>2 DEF Execute
  <2>2. /\ [run[p] EXCEPT !.won = ok] \in Run /\ [run[p] EXCEPT !.won = ok].job = run[p].job
        /\ [run[p] EXCEPT !.won = ok].got = run[p].got
        BY <1>0 DEF Run
  <2>3. Calm /\ run[p].job.intent \notin shared =>
            \A k \in Exact(run[p].job) : patterns[k].result = run[p].got
        BY <1>0, AtLabel DEF Agrees
  <2> QED BY <1>0, <2>1, <2>2, <2>3, ConnectCredits
<1> QED BY <1>1, <1>2

\* A row of an intent that is its own is replaced by one that counts its route only.
LEMMA WriteCredits ==
    ASSUME CreditInv, CountsInv', Calm' => Calm, NEW p \in Proc, pc[p] # "idle",
           ~Moving(p), pc[p] # "open",
           NEW k \in Key, k.intent = run[p].job.intent, NEW row,
           patterns' = [patterns EXCEPT ![k] = row],
           UNCHANGED <<schema, legacy, shared, supported>>,
           Calm /\ k.intent \notin shared /\ row # NoRow => row.of \subseteq {row.result},
           \A q \in Proc \ {p} : pc'[q] = pc[q] /\ run'[q] = run[q],
           pc'[p] # "idle" => run'[p].job = run[p].job,
           pc'[p] \notin {"rename", "create", "look", "migrate"},
           Placed(p)', Calm' => Follows(p)'
    PROVE  CreditInv'
<1>1. \A l \in Key \ {k} : patterns'[l] = patterns[l]
      BY DEF CreditInv, CountsInv, TypeOK, Rows
<1>2. patterns'[k] = row
      BY DEF CreditInv, CountsInv, TypeOK, Rows
<1>3. ASSUME Calm' PROVE OwnRows'
  <2>1. OwnRows /\ Calm
        BY <1>3, RunKnows
  <2> QED BY <1>1, <1>2, <2>1 DEF OwnRows
<1>4. ASSUME Calm' PROVE Migrating'
      BY <1>4, RunKnows, MigratingStays
<1>5. ASSUME NEW q \in Proc \ {p}, run[q].job.intent # run[p].job.intent, NEW l \in Key,
             l.intent = run[q].job.intent
      PROVE  Alike(l)
      BY <1>1, <1>5 DEF Alike
<1> QED BY <1>3, <1>4, <1>5, CreditStep

LEMMA PutCredits ==
    ASSUME CreditInv, CountsInv', Calm' => Calm, NEW p \in Proc, Put(p)
    PROVE  CreditInv'
<1>0. /\ pc[p] = "put" /\ UNCHANGED <<schema, legacy, shared, supported>>
      /\ ~Moving(p) /\ run[p] \in Run /\ run[p].job \in Job /\ Placed(p) /\ run[p].got \in Route
      /\ run[p].snap # NoRow => Adds(run[p].snap)
      BY RunKnows, Recording DEF Put, history, Moving, CreditInv
<1> PICK k \in Key : k = run[p].key /\ k = MyKey(run[p].job) /\ k.intent = run[p].job.intent
    BY <1>0 DEF Placed
<1> PICK row \in Row : row = Counts(run[p].snap, run[p].got)
    BY <1>0, CountsRow DEF Run
<1>1. row.result = run[p].got /\ (run[p].snap = NoRow => row.of = {})
      BY <1>0 DEF Counts, Run, Row
<1>2. Calm /\ k.intent \notin shared => row.of = {}
      BY <1>0, <1>1, AtLabel
<1>3. patterns' = [patterns EXCEPT ![k] = row]
      BY DEF Put
<1> PICK l \in {"execute", "reread"} : Goto(p, l)
    BY DEF Put
<1>4. /\ pc'[p] = l /\ run'[p].job = run[p].job /\ run'[p].got = run[p].got
      /\ run'[p].key = run[p].key
      /\ \A q \in Proc \ {p} : pc'[q] = pc[q] /\ run'[q] = run[q]
      BY <1>0 DEF Put, Goto, CreditInv, CountsInv, TypeOK, Run
<1>5. Placed(p)'
  <2>1. MyKey(run[p].job)' = MyKey(run[p].job)
        BY <1>4 DEF MyKey
  <2> QED BY <1>4, <2>1 DEF Placed
<1>6. Follows(p)'
  <2>1. patterns'[k] = row /\ row # NoRow
        BY <1>3, RouteCacheAssumption DEF CreditInv, CountsInv, TypeOK, Rows
  <2>2. Exact(run[p].job)' = {k}
    <3> PICK j \in Job : j = run[p].job
        BY <1>0
    <3>1. k = MyKey(j) /\ k \in Key /\ j.scope \in {k.scope}
          BY DEF MyKey
    <3>2. k \in Visible(j)' /\ MyKey(j) \in Visible(j)'
          BY <2>1, <3>1 DEF Visible
    <3>3. Exact(j)' = {k}
          BY <3>1, <3>2 DEF Exact
    <3>4. Exact(run[p].job)' = Exact(j)'
          BY <1>4 DEF Exact, Visible, MyKey
    <3> QED BY <3>3, <3>4
  <2>3. Agrees(p)' /\ Phase(p)' = l
        BY <1>1, <1>4, <2>1, <2>2 DEF Agrees, Phase, Moving
  <2> QED BY <2>3 DEF Follows
<1>7. pc'[p] \notin {"rename", "create", "look", "migrate"}
      BY <1>4
<1> QED BY <1>0, <1>2, <1>3, <1>4, <1>5, <1>6, <1>7, WriteCredits

LEMMA CountCredits ==
    ASSUME CreditInv, CountsInv', Calm' => Calm, NEW p \in Proc, Count(p)
    PROVE  CreditInv'
<1>0. /\ pc[p] = "count" /\ UNCHANGED <<schema, legacy, shared, supported>>
      /\ ~Moving(p) /\ run[p] \in Run /\ run[p].job \in Job /\ Placed(p)
      BY RunKnows DEF Count, history, Moving
<1> PICK k \in Key : k = run[p].key /\ k.intent = run[p].job.intent
    BY <1>0 DEF Placed
<1> PICK row : row = Counted(patterns[k], run[p])
    OBVIOUS
<1>1. Calm /\ k.intent \notin shared /\ row # NoRow => row.of \subseteq {row.result}
  <2> SUFFICES ASSUME Calm, k.intent \notin shared, row # NoRow
               PROVE  row.of \subseteq {row.result}
      OBVIOUS
  <2>1. patterns[k] # NoRow
        BY DEF Counted
  <2>2. patterns[k] \in Row
        BY <2>1, RowTyped DEF CreditInv
  <2>3. run[p].snap.of \subseteq {run[p].got} /\ patterns[k].result = run[p].got
        BY <1>0, <2>1, AtLabel
  <2>4. row.of = run[p].snap.of \cup {run[p].got} /\ row.result = patterns[k].result
        BY <2>1, <2>2 DEF Counted, Row
  <2> QED BY <2>3, <2>4
<1>2. patterns' = [patterns EXCEPT ![k] = row]
      BY DEF Count
<1>3. pc'[p] = "idle" /\ \A q \in Proc \ {p} : pc'[q] = pc[q] /\ run'[q] = run[q]
      BY DEF Count, End, Goto, CreditInv, CountsInv, TypeOK
<1>4. Placed(p)' /\ Follows(p)'
      BY <1>3 DEF Placed, Follows
<1> QED BY <1>0, <1>1, <1>2, <1>3, <1>4, WriteCredits

\* An error ends what is known of the run only where something failed.
LEMMA RaiseCredits ==
    ASSUME CreditInv, CountsInv', Calm' => Calm, NEW p \in Proc, pc[p] # "idle", Raise(p), ~Calm'
    PROVE  CreditInv'
<1>1. UNCHANGED <<patterns, schema, legacy, shared, supported>>
      BY DEF Raise, store
<1>2. CASE End(p)
  <2>1. pc'[p] = "idle" /\ \A q \in Proc \ {p} : pc'[q] = pc[q] /\ run'[q] = run[q]
        BY <1>2 DEF End, Goto, CreditInv, CountsInv, TypeOK
  <2>2. Placed(p)'
        BY <2>1 DEF Placed
  <2> QED BY <1>1, <2>1, <2>2, CreditStep
<1>3. CASE Connect(p, "fuzzy", [run[p] EXCEPT !.fell = TRUE])
  <2>1. /\ [run[p] EXCEPT !.fell = TRUE] \in Run
        /\ [run[p] EXCEPT !.fell = TRUE].job = run[p].job
        BY RunKnows DEF Run
  <2>2. /\ pc'[p] = "open" /\ run'[p].job = run[p].job
        /\ \A q \in Proc \ {p} : pc'[q] = pc[q] /\ run'[q] = run[q]
        BY <1>3, <2>1, ConnectTo DEF CreditInv
  <2>3. Placed(p)'
        BY <2>2 DEF Placed
  <2> QED BY <1>1, <2>2, <2>3, CreditStep
<1> QED BY <1>2, <1>3 DEF Raise

\* A step inside init_db: the run keeps what it knows, for which it has its
\* operation, and others have yet to open the table if rows are moved.
LEMMA OpeningCredits ==
    ASSUME CreditInv, CountsInv', Calm' => Calm, NEW p \in Proc, pc[p] = "open" \/ Moving(p),
           NEW l, Goto(p, l), l # "idle",
           l \in {"rename", "create", "look", "migrate"} \/ l = run[p].op,
           \A q \in Proc \ {p} : run'[q] = run[q],
           run'[p].job = run[p].job, run'[p].op = run[p].op, run'[p].snap = run[p].snap,
           run'[p].got = run[p].got, run'[p].key = run[p].key,
           UNCHANGED <<shared, supported>>,
           Calm' => Migrating' /\ OwnRows',
           UNCHANGED patterns \/ Moving(p)
    PROVE  CreditInv'
<1>1. pc'[p] = l /\ \A q \in Proc \ {p} : pc'[q] = pc[q]
      BY DEF Goto, CreditInv, CountsInv, TypeOK
<1>2. /\ pc[p] # "idle" /\ run[p] \in Run
      /\ run[p].op \in {"check", "fuzzy", "save", "keep", "note"}
      BY RunKnows DEF Moving, Run
<1>3. Placed(p)'
      BY <1>1, <1>2 DEF Placed
<1>4. Phase(p)' = Phase(p) /\ Phase(p) = run[p].op
      BY <1>1, <1>2 DEF Phase, Moving
<1>5. ASSUME Calm', UNCHANGED patterns PROVE Follows(p)'
  <2>1. Follows(p)
        BY <1>2, <1>5, RunKnows
  <2>2. Exact(run[p].job)' = Exact(run[p].job)
        BY <1>5, SameExact
  <2>3. Agrees(p)' = Agrees(p)
        BY <1>5, <2>2 DEF Agrees
  <2> QED BY <1>2, <1>4, <2>1, <2>2, <2>3 DEF Follows
<1>6. ASSUME Calm', Moving(p)
      PROVE  Follows(p)' /\ \A q \in Proc \ {p} : pc[q] = "idle" \/ Fresh(q)
  <2>1. Migrating
        BY <1>2, <1>6, RunKnows
  <2>2. run[p].op = "check" /\ \A q \in Proc \ {p} : pc[q] = "idle" \/ Fresh(q)
        BY <1>6, <2>1 DEF Migrating
  <2> QED BY <1>4, <2>2 DEF Follows
<1>7. UNCHANGED patterns => \A k \in Key : Alike(k)
      BY DEF Alike
<1> QED BY <1>1, <1>2, <1>3, <1>5, <1>6, <1>7, CreditStep

LEMMA OpenCredits ==
    ASSUME CreditInv, CountsInv', Calm' => Calm, NEW p \in Proc, Open(p)
    PROVE  CreditInv'
<1>0. /\ pc[p] = "open" /\ UNCHANGED <<patterns, schema, legacy, shared, supported, run>>
      /\ run[p] \in Run /\ run[p].op \in {"check", "fuzzy", "save", "keep", "note"}
      BY RunKnows DEF Open, store, Run
<1> PICK l : l = CASE schema = "new"  -> run[p].op
                   [] schema = "old"  -> "rename"
                   [] schema = "none" -> "create"
    OBVIOUS
<1>1. /\ Goto(p, l) /\ schema \in {"none", "old", "new"}
      /\ schema = "new" => l = run[p].op
      /\ schema = "old" => l = "rename"
      /\ schema = "none" => l = "create"
      BY DEF Open, CreditInv, CountsInv, TypeOK
<1>2. pc'[p] = l /\ \A q \in Proc \ {p} : pc'[q] = pc[q]
      BY <1>1 DEF Goto, CreditInv, CountsInv, TypeOK
<1>3. ASSUME Calm' PROVE Migrating' /\ OwnRows'
  <2>1. Migrating /\ OwnRows
        BY <1>0, <1>3, RunKnows
  <2>2. \A q \in Proc : ~Moving(q)
        BY <1>3 DEF Open, Calm
  <2>3. \A q \in Proc \ {p} : ~Moving(q)' /\ Fresh(q)' = Fresh(q)
        BY <1>0, <1>2, <2>2 DEF Moving, Fresh
  <2>4. CASE schema = "new"
    <3>1. ~Moving(p)' /\ l \notin {"rename", "create", "look", "migrate"}
          BY <1>0, <1>1, <1>2, <2>4 DEF Moving
    <3>2. \A q \in Proc : pc'[q] \notin {"rename", "create", "look", "migrate"}
          BY <1>2, <2>3, <3>1 DEF Moving
    <3> QED BY <1>0, <2>1, <2>3, <2>4, <3>1, <3>2 DEF Migrating, OwnRows
  <2>5. CASE schema # "new"
    <3>1. /\ \A q \in Proc : pc[q] # "idle" => Fresh(q)
          /\ run[p].op = "check"
          BY <1>0, <2>1, <2>2, <2>5 DEF Migrating, Fresh
    <3>2. Moving(p)' /\ l \in {"rename", "create"}
          BY <1>1, <1>2, <2>5 DEF Moving
    <3>3. \A q \in Proc \ {p} : pc'[q] \notin {"rename", "create", "look", "migrate"}
          BY <2>3 DEF Moving
    <3> QED BY <1>0, <1>1, <1>2, <2>1, <2>3, <2>5, <3>1, <3>2, <3>3 DEF Migrating, OwnRows
  <2> QED BY <2>4, <2>5
<1>4. /\ l # "idle" /\ (l \in {"rename", "create", "look", "migrate"} \/ l = run[p].op)
      BY <1>0, <1>1
<1> QED BY <1>0, <1>1, <1>3, <1>4, OpeningCredits

\* The steps of a run that migrates, alone.
LEMMA MovingCredits ==
    ASSUME CreditInv, CountsInv', Calm' => Calm, NEW p \in Proc,
           Rename(p) \/ Create(p) \/ Look(p) \/ Migrate(p)
    PROVE  CreditInv'
<1>0. /\ pc[p] \in {"rename", "create", "look", "migrate"} /\ Moving(p) /\ pc[p] # "idle"
      /\ UNCHANGED <<shared, supported>> /\ run[p] \in Run
      /\ run[p].op \in {"check", "fuzzy", "save", "keep", "note"}
      BY RunKnows DEF Rename, Create, Look, Migrate, history, Moving, Run
<1>1. /\ \A q \in Proc \ {p} : run'[q] = run[q]
      /\ run'[p].job = run[p].job /\ run'[p].op = run[p].op /\ run'[p].snap = run[p].snap
      /\ run'[p].got = run[p].got /\ run'[p].key = run[p].key
      BY <1>0 DEF Rename, Create, Look, Migrate, CreditInv, CountsInv, TypeOK, Run
<1> PICK l \in {"create", "look", "migrate", run[p].op} :
        /\ Goto(p, l)
        /\ Rename(p) => l = "create" /\ schema' = "none"
        /\ Create(p) => l = "look" /\ schema' = "new"
        /\ Look(p) => /\ l \in {"migrate", run[p].op} /\ schema' = schema
                      /\ l = "migrate" => legacy # NoTable /\ legacy' = legacy
        /\ Migrate(p) => l = run[p].op /\ schema' = schema /\ schema = "new"
    BY <1>0 DEF Rename, Create, Look, Migrate, store
<1>2. pc'[p] = l /\ \A q \in Proc \ {p} : pc'[q] = pc[q]
      BY DEF Goto, CreditInv, CountsInv, TypeOK
<1>3. ASSUME Calm' PROVE Migrating'
  <2>1. Migrating
        BY <1>0, <1>3, RunKnows
  <2>2. /\ run[p].op = "check" /\ \A q \in Proc \ {p} : pc[q] # "idle" => Fresh(q)
        /\ Look(p) => schema = "new"
        BY <1>0, <2>1 DEF Migrating, Look
  <2>3. \A q \in Proc \ {p} : /\ pc'[q] # "idle" => Fresh(q)' /\ pc'[q] = "open"
                              /\ ~Moving(q)'
        BY <1>1, <1>2, <2>2 DEF Fresh, Moving
  <2>4. /\ l = "create" => schema' = "none"
        /\ l \in {"look", "migrate"} => schema' = "new"
        /\ l = "migrate" => legacy' # NoTable
        /\ schema' # "old" /\ l # "rename"
        /\ l = run[p].op => schema' = "new"
        BY <1>0, <2>2
  <2>5. \A q \in Proc \ {p} : pc'[q] \notin {"rename", "create", "look", "migrate"}
        BY <2>3
  <2>6. Moving(p)' => run'[p].op = "check"
        BY <1>1, <2>2
  <2>7. schema' # "new" => Moving(p)'
        BY <1>2, <2>4 DEF Moving
  <2> QED BY <1>2, <2>3, <2>4, <2>5, <2>6, <2>7 DEF Migrating
<1>4. ASSUME Calm' PROVE OwnRows'
  <2>1. OwnRows
        BY <1>0, <1>4, RunKnows
  <2>2. CASE UNCHANGED patterns
        BY <1>0, <2>1, <2>2 DEF OwnRows
  <2>3. CASE Rename(p)
        BY <2>3 DEF Rename, Empty, OwnRows
  <2>4. CASE Migrate(p)
    <3>1. run[p].rows \in Rows
          BY <2>4 DEF Migrate, CreditInv, CountsInv, Knows
    <3>2. \A row \in Row : Migrated(row).of = {row.result} /\ Migrated(row).result = row.result
          BY DEF Migrated, Row
    <3>3. \A k \in Key : \/ patterns'[k] = patterns[k]
                         \/ \E row \in Row : patterns'[k] = Migrated(row)
      <4>1. PICK from \in [Intent -> Scope] :
              LET Source(i) == [scope |-> from[i], intent |-> i]
                  held == {i \in Intent : \E k \in Key : k.intent = i /\ run[p].rows[k] # NoRow}
              IN  /\ \A i \in held : run[p].rows[Source(i)] # NoRow
                  /\ patterns' = [k \in Key |->
                       IF k.scope = Anywhere /\ k.intent \in held
                       THEN Migrated(run[p].rows[Source(k.intent)]) ELSE patterns[k]]
            BY <2>4 DEF Migrate
      <4> DEFINE Source(i) == [scope |-> from[i], intent |-> i]
      <4>2. \A i \in Intent : Source(i) \in Key
            BY DEF Key
      <4>3. \A i \in Intent : run[p].rows[Source(i)] # NoRow => run[p].rows[Source(i)] \in Row
            BY <3>1, <4>2 DEF Rows
      <4> QED BY <4>1, <4>3
    <3> QED BY <1>0, <2>1, <3>2, <3>3 DEF OwnRows
  <2>5. Rename(p) \/ Migrate(p) \/ UNCHANGED patterns
        BY DEF Create, Look, store
  <2> QED BY <2>2, <2>3, <2>4, <2>5
<1>5. l # "idle" /\ (l \in {"rename", "create", "look", "migrate"} \/ l = run[p].op)
      BY <1>0
<1> QED BY <1>0, <1>1, <1>3, <1>4, <1>5, OpeningCredits

\* While all is calm a migration is not refused and a table is not missed, so that
\* what raises there, is killed or fails, is known.
LEMMA FaultCredits ==
    ASSUME CreditInv, CountsInv', Calm' => Calm, NEW p \in Proc,
           \/ RenameRefused(p) \/ MigrateFails(p) \/ TableGone(p)
           \/ DatabaseFails(p) \/ Kill(p)
    PROVE  CreditInv'
<1>0. pc[p] # "idle"
      BY DEF RenameRefused, MigrateFails, TableGone, DatabaseFails, Kill, Statements
<1>1. faults \in Nat
      BY RouteCacheAssumption DEF CreditInv, CountsInv, TypeOK
<1>2. CASE RenameRefused(p) \/ MigrateFails(p) \/ TableGone(p)
  <2>1. Raise(p)
        BY <1>2 DEF RenameRefused, MigrateFails, TableGone
  <2>2. ~Calm
    <3> SUFFICES ASSUME Calm PROVE FALSE
        OBVIOUS
    <3>1. Migrating
          BY <1>0, RunKnows
    <3>2. CASE RenameRefused(p)
          BY <3>1, <3>2 DEF RenameRefused, Migrating
    <3>3. CASE MigrateFails(p)
          BY <3>1, <3>3 DEF MigrateFails, Migrating
    <3>4. CASE TableGone(p)
      <4>1. ~Moving(p) /\ pc[p] # "open"
            BY <3>4 DEF TableGone, Statements, Moving
      <4> QED BY <1>0, <3>1, <3>4, <4>1, AtWork DEF TableGone
    <3> QED BY <1>2, <3>2, <3>3, <3>4
  <2> QED BY <1>0, <2>1, <2>2, RaiseCredits
<1>3. CASE DatabaseFails(p)
  <2>1. Raise(p) /\ faults' = faults + 1
        BY <1>3 DEF DatabaseFails
  <2>2. ~Calm'
        BY <1>1, <2>1 DEF Calm
  <2> QED BY <1>0, <2>1, <2>2, RaiseCredits
<1>4. CASE Kill(p)
  <2>1. End(p) /\ faults' = faults + 1 /\ UNCHANGED <<shared, supported>>
        BY <1>4 DEF Kill
  <2>2. ~Calm'
        BY <1>1, <2>1 DEF Calm
  <2>3. pc'[p] = "idle" /\ \A q \in Proc \ {p} : pc'[q] = pc[q] /\ run'[q] = run[q]
        BY <2>1 DEF End, Goto, CreditInv, CountsInv, TypeOK
  <2>4. Placed(p)'
        BY <2>3 DEF Placed
  <2> QED BY <1>0, <2>1, <2>2, <2>3, <2>4, CreditStep
<1> QED BY <1>2, <1>3, <1>4

LEMMA StepCredits ==
    ASSUME CreditInv, CountsInv', Calm' => Calm, NEW p \in Proc, Step(p)
    PROVE  CreditInv'
BY OpenCredits, MovingCredits, FaultCredits, CheckCredits, TouchCredits, FuzzyCredits, AskCredits,
   SaveCredits, PutCredits, ExecuteCredits, NoteCredits, RereadCredits, CountCredits DEF Step

\* A run begins: if another one is at its intent, that is known of both.
LEMMA BeginCredits ==
    ASSUME CreditInv, CountsInv', Calm' => Calm, NEW p \in Proc, NEW j \in Asked, Begin(p, j)
    PROVE  CreditInv'
<1> DEFINE r == [Request(j) EXCEPT !.op = "check", !.key = NoRow, !.snap = NoRow, !.rows = NoTable,
                                   !.got = IF "check" = "fuzzy" THEN NoRow ELSE @]
<1>1. r.job = j /\ r.op = "check"
      BY DEF Request
<1>2. run' = [run EXCEPT ![p] = r] /\ pc' = [pc EXCEPT ![p] = "open"]
      BY DEF Begin, Connect, Goto
<1> HIDE DEF r
<1>3. /\ pc[p] = "idle" /\ pc'[p] = "open" /\ run'[p].job = j /\ run'[p].op = "check"
      /\ \A q \in Proc \ {p} : pc'[q] = pc[q] /\ run'[q] = run[q]
      BY <1>1, <1>2 DEF Begin, CreditInv, CountsInv, TypeOK
<1>4. /\ UNCHANGED <<patterns, schema, legacy, supported>> /\ shared \subseteq shared'
      /\ \A q \in Proc : pc[q] # "idle" /\ run[q].job.intent = j.intent => j.intent \in shared'
      /\ swapped' = (swapped \/ j.mode = "how")
      BY DEF Begin, store
<1>5. Alone'
      BY <1>3, <1>4 DEF CreditInv, Alone
<1>6. \A q \in Proc : Placed(q)'
  <2>1. ASSUME NEW q \in Proc \ {p} PROVE Placed(q)'
        BY <1>3, <2>1 DEF CreditInv, Placed
  <2>2. Placed(p)'
        BY <1>3 DEF Placed
  <2> QED BY <2>1, <2>2
<1>7. ASSUME Calm' PROVE Migrating' /\ Installed' /\ OwnRows'
  <2>1. Migrating /\ Installed /\ OwnRows
        BY <1>7 DEF CreditInv
  <2>2. \A q \in Proc \ {p} : Moving(q)' = Moving(q) /\ Fresh(q)' = Fresh(q)
        BY <1>3 DEF Moving, Fresh
  <2>3. ~Moving(p)' /\ Fresh(p)' /\ ~Moving(p)
        BY <1>3 DEF Moving, Fresh
  <2>4. Migrating'
        BY <1>3, <1>4, <2>1, <2>2, <2>3 DEF Migrating
  <2>5. j.mode # "how"
        BY <1>4, <1>7 DEF Calm
  <2> QED BY <1>3, <1>4, <2>1, <2>4, <2>5 DEF Installed, OwnRows
<1>8. ASSUME Calm', NEW q \in Proc PROVE Follows(q)'
  <2>1. CASE q = p
    <3>1. Phase(q)' = "check"
          BY <1>3, <2>1 DEF Phase
    <3> QED BY <3>1 DEF Follows
  <2>2. CASE q # p
    <3>1. /\ pc[q] # "idle" => run[q].job \in Job /\ run[q].op # "count"
          /\ Follows(q) /\ Placed(q)
          BY <1>8, RouteCacheAssumption DEF CreditInv, CountsInv, Knows, Run
    <3>2. \A k \in Key : Alike(k)
          BY <1>4 DEF Alike
    <3> QED BY <1>3, <1>4, <2>2, <3>1, <3>2, OthersFollow DEF Placed
  <2> QED BY <2>1, <2>2
<1> QED BY <1>5, <1>6, <1>7, <1>8 DEF CreditInv

LEMMA InitCredits ==
    ASSUME Init
    PROVE  CreditInv
<1>1. CountsInv
      BY InitCounts
<1>2. /\ \A p \in Proc : pc[p] = "idle" /\ Placed(p) /\ Follows(p)
      /\ Alone
      BY DEF Init, Placed, Follows, Alone
<1>3. Migrating /\ Installed
      BY <1>2 DEF Init, Migrating, Moving, Installed
<1>4. OwnRows
  <2>1. ASSUME NEW route \in Route PROVE OldRow(route).of = {}
        BY DEF OldRow, Counts
  <2> QED BY <2>1 DEF Init, OwnRows, Empty
<1> QED BY <1>1, <1>2, <1>3, <1>4 DEF CreditInv

\* Idle steps, and tools that come and go.
LEMMA ElsewhereCredits ==
    ASSUME CreditInv, CountsInv', Calm' => Calm,
           UNCHANGED vars \/ \E route \in Route : ChangeTools(route)
    PROVE  CreditInv'
<1>1. UNCHANGED <<patterns, schema, legacy, pc, run, shared>>
      BY DEF vars, store, history, ChangeTools
<1>2. Alone' /\ \A p \in Proc : Placed(p)'
      BY <1>1 DEF CreditInv, Alone, Placed
<1>3. CASE UNCHANGED vars
  <2>1. UNCHANGED <<supported, swapped, crowded, faults>>
        BY <1>3 DEF vars, history
  <2>2. Calm' = Calm
        BY <2>1 DEF Calm
  <2>3. Migrating' = Migrating /\ Installed' = Installed /\ OwnRows' = OwnRows
        BY <1>1, <2>1 DEF Migrating, Moving, Fresh, Installed, OwnRows
  <2>4. \A p \in Proc : Follows(p)' = Follows(p)
        BY <1>1 DEF Follows, Phase, Moving, Agrees, Exact, Visible, MyKey
  <2> QED BY <1>2, <2>2, <2>3, <2>4 DEF CreditInv
<1>4. CASE \E route \in Route : ChangeTools(route)
  <2>1. ~Calm'
        BY <1>4 DEF ChangeTools, Calm
  <2> QED BY <1>2, <2>1 DEF CreditInv
<1> QED BY <1>3, <1>4

LEMMA CreditInvariant == Spec => []CreditInv
<1>1. CreditInv /\ CountsInv' /\ [Next]_vars => CreditInv'
  <2> SUFFICES ASSUME CreditInv, CountsInv', [Next]_vars PROVE CreditInv'
      OBVIOUS
  <2>1. Calm' => Calm
        BY CalmBefore DEF CreditInv
  <2> QED BY <2>1, StepCredits, BeginCredits, ElsewhereCredits DEF Next
<1> QED BY <1>1, InitCredits, CountsInvariant, PTL DEF Spec

\* "The router learns which route actually works": the outcomes a row counts are
\* those of the route it holds, for any number of runs, requests and projects, as
\* long as no two runs asked for the intent at once, none met a migration, no tool
\* was missing, no explanation was asked for, and nothing failed.
THEOREM CreditIsEarned == Spec => []CreditIsOwn
<1>1. CreditInv => CreditIsOwn
      BY DEF CreditInv, Calm, OwnRows, CreditIsOwn
<1> QED BY <1>1, CreditInvariant, PTL

---------------------------------------------------------------------------
(* The outcomes a row counts are those that were met.                       *)

\* What a statement is for: an outcome is to be counted from its note on.
Aims(p) ==
    /\ pc[p] \in {"touch", "ask", "execute"} => run[p].op \notin {"note", "keep"}
    /\ pc[p] \in {"reread", "count"} => run[p].op \in {"note", "keep"}

\* A run that migrates is alone, but for runs that have yet to open the table and
\* have met no outcome; so is every run before there is a new table.
Waiting(p) == pc[p] = "idle" \/ (pc[p] = "open" /\ run[p].op \in {"check", "fuzzy"})
Turns ==
    /\ \A p, q \in Proc : Moving(p) /\ p # q => Waiting(q)
    /\ \A p \in Proc : Moving(p) => run[p].op \in {"check", "fuzzy"}
    /\ schema # "new" => \A p \in Proc : Moving(p) \/ Waiting(p)
    /\ \A p \in Proc : /\ pc[p] = "rename" => schema = "old"
                       /\ pc[p] = "create" => schema = "none"
                       /\ pc[p] \in {"look", "migrate"} => schema = "new"
                       /\ pc[p] = "migrate" => legacy # NoTable /\ run[p].rows = legacy
    /\ schema = "old" => legacy = NoTable

\* Until the rows are moved, the outcomes are the hits of the earlier table.
Unmoved == schema # "new" \/ \E p \in Proc : Moving(p)
Earlier == IF schema = "old" THEN patterns ELSE IF legacy = NoTable THEN Empty ELSE legacy
Hits(row) == IF row = NoRow THEN 0 ELSE row.hits
Kept == Unmoved =>
    /\ schema # "old" => patterns = Empty
    /\ \A k \in Key : Earlier[k] # NoRow =>
          k.scope = Anywhere /\ Earlier[k].successes = 0 /\ Earlier[k].failures = 0
    /\ \A i \in Intent : told[i] = [successes |-> Hits(Earlier[Global(i)]), failures |-> 0]

\* Of two runs that read a row to write it, it is known; one alone writes what is
\* still there.
ScoreAt(row, ok) == IF row = NoRow THEN 0 ELSE Score(row, ok)
Sole ==
    /\ \A p, q \in Proc : \A k \in Key : p # q /\ Reading(p, k) /\ Reading(q, k) =>
          k.intent \in disturbed
    /\ \A p \in Proc : \A k \in Key : Reading(p, k) /\ k.intent \notin disturbed =>
          \A ok \in BOOLEAN : ScoreAt(run[p].snap, ok) = ScoreAt(patterns[k], ok)

\* The row an outcome is counted in is there.
Held == \A p \in Proc : pc[p] \in {"reread", "count"} => patterns[run[p].key] # NoRow

\* The n-th success or failure of a row is in the table, or in what a run that will
\* write the row has read.
Known(k, n, ok) == \/ n <= ScoreAt(patterns[k], ok)
                   \/ \E p \in Proc : Reading(p, k) /\ n <= ScoreAt(run[p].snap, ok)
Seen(i, ok) == {x \in Key \X (Nat \ {0}) : x[1].intent = i /\ Known(x[1], x[2], ok)}
Owed(i, ok) == {p \in Proc : Counting(p) /\ run[p].job.intent = i /\ run[p].won = ok}

\* What rows know of and what runs will count was met; and all of it is there, once
\* the earlier table is moved and unless two runs read at once or one was cut off.
Tally(i, ok) ==
    /\ IsFiniteSet(Seen(i, ok)) /\ IsFiniteSet(Owed(i, ok))
    /\ Cardinality(Seen(i, ok)) + Cardinality(Owed(i, ok)) <= Score(told[i], ok)
    /\ schema = "new" /\ legacy = NoTable /\ i \notin disturbed =>
          Cardinality(Seen(i, ok)) + Cardinality(Owed(i, ok)) = Score(told[i], ok)

Earned == /\ Turns /\ Kept /\ Sole /\ Held
          /\ \A i \in Intent : \A ok \in BOOLEAN : Tally(i, ok)

EarnedInv == (\A p \in Proc : Aims(p)) /\ (~crowded => Earned)

LEMMA ScoresTyped ==
    ASSUME NEW row \in Row \cup {NoRow}, NEW ok \in BOOLEAN
    PROVE  ScoreAt(row, ok) \in Nat
BY DEF ScoreAt, Score, Row

\* The successes and failures of the table and of what was met are numbers.
LEMMA TallyTyped ==
    ASSUME CountsInv, NEW i \in Intent, NEW ok \in BOOLEAN
    PROVE  /\ Score(told[i], ok) \in Nat
           /\ \A k \in Key : ScoreAt(patterns[k], ok) \in Nat
<1>1. told[i].successes \in Nat /\ told[i].failures \in Nat
      BY DEF CountsInv, TypeOK
<1>2. \A k \in Key : patterns[k] \in Row \cup {NoRow}
      BY DEF CountsInv, TypeOK, Rows
<1> QED BY <1>1, <1>2, ScoresTyped DEF Score

\* A step that meets no outcome, and after which no more is known or to be counted.
LEMMA TallyStays ==
    ASSUME NEW i \in Intent, NEW ok \in BOOLEAN, Tally(i, ok), CountsInv,
           Seen(i, ok)' \subseteq Seen(i, ok), Owed(i, ok)' \subseteq Owed(i, ok), UNCHANGED told,
           schema' = "new" /\ legacy' = NoTable /\ i \notin disturbed' =>
              /\ schema = "new" /\ legacy = NoTable /\ i \notin disturbed
              /\ Seen(i, ok)' = Seen(i, ok) /\ Owed(i, ok)' = Owed(i, ok)
    PROVE  Tally(i, ok)'
<1>1. /\ IsFiniteSet(Seen(i, ok)') /\ Cardinality(Seen(i, ok)') <= Cardinality(Seen(i, ok))
      /\ IsFiniteSet(Owed(i, ok)') /\ Cardinality(Owed(i, ok)') <= Cardinality(Owed(i, ok))
      BY FS_Subset DEF Tally
<1>2. /\ Cardinality(Seen(i, ok)') \in Nat /\ Cardinality(Owed(i, ok)') \in Nat
      /\ Cardinality(Seen(i, ok)) \in Nat /\ Cardinality(Owed(i, ok)) \in Nat
      BY <1>1, FS_CardinalityType DEF Tally
<1>3. Score(told[i], ok)' = Score(told[i], ok) /\ Score(told[i], ok) \in Nat
      BY TallyTyped DEF Score
<1> QED BY <1>1, <1>2, <1>3 DEF Tally

\* A run at its statements, or one at all once the rows are moved: what a step of it
\* leaves to be shown of the others.
LEMMA WorkRest ==
    ASSUME CreditInv, Earned, ~Unmoved, NEW p \in Proc,
           \A q \in Proc \ {p} : pc'[q] = pc[q] /\ run'[q] = run[q],
           pc'[p] \notin {"rename", "create", "look", "migrate"},
           UNCHANGED <<schema, legacy>>, disturbed \subseteq disturbed',
           \A k \in Key : \/ \A ok \in BOOLEAN : ScoreAt(patterns'[k], ok) = ScoreAt(patterns[k], ok)
                          \/ Reading(p, k) /\ ~Reading(p, k)',
           \A k \in Key : Reading(p, k)' =>
              /\ patterns' = patterns /\ run'[p].snap = patterns[k]
              /\ \A q \in Proc \ {p} : Reading(q, k) => k.intent \in disturbed',
           pc'[p] \in {"reread", "count"} => patterns'[run'[p].key] # NoRow,
           \A k \in Key : patterns[k] # NoRow => patterns'[k] # NoRow
    PROVE  Turns' /\ Kept' /\ Sole' /\ Held'
<1>2. schema = "new" /\ \A q \in Proc : ~Moving(q)
      BY DEF Unmoved
<1>3. schema' = "new" /\ \A q \in Proc : ~Moving(q)'
                                         /\ pc'[q] \notin {"rename", "create", "look", "migrate"}
      BY <1>2 DEF Moving
<1>4. Turns'
      BY <1>3 DEF Turns
<1>5. Kept'
      BY <1>3 DEF Unmoved, Kept
<1>6. Sole'
  <2>1. Sole
        BY DEF Earned
  <2>2. \A q \in Proc \ {p} : \A k \in Key : Reading(q, k)' = Reading(q, k)
        BY DEF Reading
  <2>3. ASSUME NEW q \in Proc, NEW r \in Proc, NEW k \in Key, q # r, Reading(q, k)', Reading(r, k)'
        PROVE  k.intent \in disturbed'
        BY <2>1, <2>2, <2>3 DEF Sole
  <2>4. ASSUME NEW q \in Proc, NEW k \in Key, Reading(q, k)', k.intent \notin disturbed',
               NEW ok \in BOOLEAN
        PROVE  ScoreAt(run'[q].snap, ok) = ScoreAt(patterns'[k], ok)
    <3>1. CASE q = p
          BY <2>4, <3>1
    <3>2. CASE q # p
      <4>1. Reading(q, k) /\ run'[q] = run[q] /\ k.intent \notin disturbed
            BY <2>2, <2>4, <3>2
      <4>2. ScoreAt(run[q].snap, ok) = ScoreAt(patterns[k], ok)
            BY <2>1, <4>1 DEF Sole
      <4>3. ~(Reading(p, k) /\ ~Reading(p, k)')
            BY <2>1, <3>2, <4>1 DEF Sole
      <4> QED BY <4>1, <4>2, <4>3
    <3> QED BY <3>1, <3>2
  <2>5. (\A q \in Proc : \A k \in Key : Reading(q, k) /\ k.intent \notin disturbed =>
          \A ok \in BOOLEAN : ScoreAt(run[q].snap, ok) = ScoreAt(patterns[k], ok))'
        BY <2>4
  <2>6. (\A q, r \in Proc : \A k \in Key : q # r /\ Reading(q, k) /\ Reading(r, k) =>
          k.intent \in disturbed)'
        BY <2>3
  <2> QED BY <2>5, <2>6 DEF Sole
<1>7. Held'
  <2>1. Held /\ \A q \in Proc : Placed(q)
        BY DEF Earned, CreditInv
  <2> QED BY <2>1 DEF Held, Placed
<1> QED BY <1>4, <1>5, <1>6, <1>7

\* While nobody disturbs an intent, what is known of a row is what the table has.
LEMMA SeenIsWritten ==
    ASSUME CreditInv, Sole, NEW k \in Key, k.intent \notin disturbed, NEW n, NEW ok \in BOOLEAN
    PROVE  Known(k, n, ok) <=> n <= ScoreAt(patterns[k], ok)
BY DEF Known, Sole

\* A step after which nothing more is known of the rows.
LEMMA SeenStays ==
    ASSUME CreditInv, Earned, NEW p \in Proc,
           \A q \in Proc \ {p} : pc'[q] = pc[q] /\ run'[q] = run[q],
           disturbed \subseteq disturbed',
           \A k \in Key :
              \/ \A ok \in BOOLEAN : ScoreAt(patterns'[k], ok) = ScoreAt(patterns[k], ok)
              \/ /\ Reading(p, k)
                 /\ \A ok \in BOOLEAN : ScoreAt(patterns'[k], ok) = ScoreAt(run[p].snap, ok),
           \A k \in Key : Reading(p, k)' => run'[p].snap = patterns[k],
           NEW i \in Intent, NEW ok \in BOOLEAN
    PROVE  /\ Seen(i, ok)' \subseteq Seen(i, ok)
           /\ i \notin disturbed' => Seen(i, ok)' = Seen(i, ok)
<1>1. \A q \in Proc \ {p} : \A k \in Key : Reading(q, k)' = Reading(q, k)
      BY DEF Reading
<1>2. ASSUME NEW k \in Key, NEW n \in Nat, Known(k, n, ok)'
      PROVE  Known(k, n, ok)
  <2>1. CASE n <= ScoreAt(patterns'[k], ok)
        BY <2>1 DEF Known
  <2>2. ASSUME NEW q \in Proc, Reading(q, k)', n <= ScoreAt(run'[q].snap, ok)
        PROVE  Known(k, n, ok)
        BY <1>1, <2>2 DEF Known
  <2> QED BY <1>2, <2>1, <2>2 DEF Known
<1>3. ASSUME NEW k \in Key, k.intent \notin disturbed', NEW n \in Nat, Known(k, n, ok)
      PROVE  Known(k, n, ok)'
  <2>1. k.intent \notin disturbed /\ Sole
        BY <1>3 DEF Earned
  <2>2. n <= ScoreAt(patterns[k], ok)
        BY <1>3, <2>1, SeenIsWritten
  <2>3. ScoreAt(patterns'[k], ok) = ScoreAt(patterns[k], ok)
        BY <2>1 DEF Sole
  <2> QED BY <2>2, <2>3 DEF Known
<1> QED BY <1>2, <1>3 DEF Seen

\* A step of such a run that meets no outcome and counts none: an outcome that will
\* not be counted any more is known to be cut off.
LEMMA WorkStep ==
    ASSUME CreditInv, Earned, ~Unmoved, NEW p \in Proc,
           \A q \in Proc \ {p} : pc'[q] = pc[q] /\ run'[q] = run[q],
           pc'[p] \notin {"rename", "create", "look", "migrate"},
           UNCHANGED <<schema, legacy, told>>, disturbed \subseteq disturbed',
           \A k \in Key :
              \/ \A ok \in BOOLEAN : ScoreAt(patterns'[k], ok) = ScoreAt(patterns[k], ok)
              \/ /\ Reading(p, k) /\ ~Reading(p, k)'
                 /\ \A ok \in BOOLEAN : ScoreAt(patterns'[k], ok) = ScoreAt(run[p].snap, ok),
           \A k \in Key : Reading(p, k)' =>
              /\ patterns' = patterns /\ run'[p].snap = patterns[k]
              /\ \A q \in Proc \ {p} : Reading(q, k) => k.intent \in disturbed',
           pc'[p] \in {"reread", "count"} => patterns'[run'[p].key] # NoRow,
           \A k \in Key : patterns[k] # NoRow => patterns'[k] # NoRow,
           Counting(p)' => /\ Counting(p) /\ run'[p].job = run[p].job
                           /\ run'[p].won = run[p].won,
           Counting(p) => Counting(p)' \/ run[p].job.intent \in disturbed'
    PROVE  Earned'
<1>1. Turns' /\ Kept' /\ Sole' /\ Held'
  <2>1. \A k \in Key : \/ \A ok \in BOOLEAN : ScoreAt(patterns'[k], ok) = ScoreAt(patterns[k], ok)
                       \/ Reading(p, k) /\ ~Reading(p, k)'
        OBVIOUS
  <2> QED BY <2>1, WorkRest
<1>2. ASSUME NEW i \in Intent, NEW ok \in BOOLEAN
      PROVE  Tally(i, ok)'
  <2>1. Tally(i, ok) /\ CountsInv
        BY DEF Earned, CreditInv
  <2>2. /\ Seen(i, ok)' \subseteq Seen(i, ok)
        /\ i \notin disturbed' => Seen(i, ok)' = Seen(i, ok)
    <3>1. \A k \in Key :
              \/ \A o \in BOOLEAN : ScoreAt(patterns'[k], o) = ScoreAt(patterns[k], o)
              \/ /\ Reading(p, k)
                 /\ \A o \in BOOLEAN : ScoreAt(patterns'[k], o) = ScoreAt(run[p].snap, o)
          OBVIOUS
    <3>2. \A k \in Key : Reading(p, k)' => run'[p].snap = patterns[k]
          OBVIOUS
    <3> QED BY <3>1, <3>2, SeenStays
  <2>3. \A q \in Proc \ {p} : Counting(q)' = Counting(q)
        BY DEF Counting
  <2>4. /\ Owed(i, ok)' \subseteq Owed(i, ok)
        /\ i \notin disturbed' => Owed(i, ok)' = Owed(i, ok)
        BY <2>3 DEF Owed
  <2>5. i \notin disturbed' => i \notin disturbed
        OBVIOUS
  <2> QED BY <2>1, <2>2, <2>4, <2>5, TallyStays
<1> QED BY <1>1, <1>2 DEF Earned
\* A run that is neither idle nor about to open the table, nor migrates, is at work
\* when the rows are moved; so is one that is to count an outcome.
LEMMA Working ==
    ASSUME Turns, NEW p \in Proc, ~Waiting(p), ~Moving(p)
    PROVE  ~Unmoved
BY DEF Turns, Unmoved, Waiting, Moving

LEMMA ConnectWon ==
    ASSUME CountsInv, NEW p \in Proc, NEW r \in Run, NEW op, Connect(p, op, r)
    PROVE  run'[p].won = r.won
<1> DEFINE s == [r EXCEPT !.op = op, !.key = NoRow, !.snap = NoRow, !.rows = NoTable,
                          !.got = IF op = "fuzzy" THEN NoRow ELSE @]
<1>1. s.won = r.won
      BY DEF Run
<1>2. run' = [run EXCEPT ![p] = s]
      BY DEF Connect
<1> HIDE DEF s
<1> QED BY <1>1, <1>2 DEF CountsInv, TypeOK

\* An outcome is met, and to be counted.
LEMMA ExecuteEarns ==
    ASSUME CreditInv, Earned, NEW p \in Proc, Aims(p), Execute(p)
    PROVE  Earned'
<1>0. /\ pc[p] = "execute" /\ run[p] \in Run /\ run[p].job.intent \in Intent
      /\ CountsInv /\ ~Counting(p) /\ ~Waiting(p) /\ ~Moving(p)
      BY JobKnown DEF Execute, CreditInv, Aims, Counting, Waiting, Moving
<1>1. PICK met \in BOOLEAN :
         /\ told' = [told EXCEPT ![run[p].job.intent] = Met(@, met)]
         /\ Connect(p, "note", [run[p] EXCEPT !.won = met])
      BY DEF Execute
<1>2. UNCHANGED <<patterns, schema, legacy, disturbed>>
      BY DEF Execute, store
<1>3. /\ pc'[p] = "open" /\ run'[p].op = "note" /\ run'[p].job = run[p].job
      /\ run'[p].won = met
      /\ \A q \in Proc \ {p} : pc'[q] = pc[q] /\ run'[q] = run[q]
  <2> DEFINE r == [run[p] EXCEPT !.won = met]
  <2>1. r \in Run /\ r.job = run[p].job /\ r.won = met
        BY <1>0 DEF Run
  <2>2. Connect(p, "note", r)
        BY <1>1
  <2> HIDE DEF r
  <2> QED BY <1>0, <2>1, <2>2, ConnectTo, ConnectWon
<1>4. \A k \in Key : ~Reading(p, k)' /\ ~Reading(p, k)
      BY <1>0, <1>3 DEF Reading
<1>5. Turns' /\ Kept' /\ Sole' /\ Held'
  <2>1. ~Unmoved
        BY <1>0, Working DEF Earned
  <2> QED BY <1>2, <1>3, <1>4, <2>1, WorkRest
<1>6. ASSUME NEW i \in Intent, NEW ok \in BOOLEAN
      PROVE  Tally(i, ok)'
  <2>1. Tally(i, ok) /\ Score(told[i], ok) \in Nat
        BY <1>0, TallyTyped DEF Earned
  <2>2. Seen(i, ok)' = Seen(i, ok)
    <3>1. \A q \in Proc : \A k \in Key : Reading(q, k)' = Reading(q, k)
          BY <1>3, <1>4 DEF Reading
    <3>2. \A k \in Key : \A n : Known(k, n, ok)' = Known(k, n, ok)
          BY <1>2, <1>3, <1>4, <3>1 DEF Known
    <3> QED BY <3>2 DEF Seen
  <2>3. Counting(p)' /\ \A q \in Proc \ {p} : Counting(q)' = Counting(q)
        BY <1>3 DEF Counting
  <2>4. told \in [Intent -> [successes : Nat, failures : Nat]]
        BY <1>0 DEF CountsInv, TypeOK
  <2>5. CASE i = run[p].job.intent /\ ok = met
    <3>1. Score(told'[i], ok) = Score(told[i], ok) + 1
          BY <1>0, <1>1, <2>4, <2>5 DEF Met, Score
    <3>2. Owed(i, ok)' = Owed(i, ok) \cup {p} /\ p \notin Owed(i, ok)
          BY <1>0, <1>3, <2>3, <2>5 DEF Owed
    <3>3. /\ IsFiniteSet(Owed(i, ok)')
          /\ Cardinality(Owed(i, ok)') = Cardinality(Owed(i, ok)) + 1
          BY <2>1, <3>2, FS_AddElement DEF Tally
    <3>4. Cardinality(Seen(i, ok)) \in Nat /\ Cardinality(Owed(i, ok)) \in Nat
          BY <2>1, FS_CardinalityType DEF Tally
    <3> QED BY <1>2, <2>1, <2>2, <3>1, <3>3, <3>4 DEF Tally
  <2>6. CASE ~(i = run[p].job.intent /\ ok = met)
    <3>1. Score(told'[i], ok) = Score(told[i], ok)
          BY <1>0, <1>1, <2>4, <2>6 DEF Met, Score
    <3>2. Owed(i, ok)' = Owed(i, ok)
          BY <1>0, <1>3, <2>3, <2>6 DEF Owed
    <3> QED BY <1>2, <2>1, <2>2, <3>1, <3>2 DEF Tally
  <2> QED BY <2>5, <2>6
<1> QED BY <1>5, <1>6 DEF Earned

\* One outcome less to be counted, and at most one more that is.
LEMMA OneMore ==
    ASSUME NEW S, NEW T, NEW x, NEW O, NEW p \in O, IsFiniteSet(S), IsFiniteSet(O),
           T \subseteq S \cup {x}
    PROVE  /\ IsFiniteSet(T) /\ IsFiniteSet(O \ {p})
           /\ Cardinality(T) + Cardinality(O \ {p}) <= Cardinality(S) + Cardinality(O)
           /\ x \notin S /\ T = S \cup {x} =>
                 Cardinality(T) + Cardinality(O \ {p}) = Cardinality(S) + Cardinality(O)
<1>1. /\ IsFiniteSet(O \ {p}) /\ Cardinality(O \ {p}) = Cardinality(O) - 1
      BY FS_RemoveElement
<1>2. /\ IsFiniteSet(S \cup {x})
      /\ Cardinality(S \cup {x}) = IF x \in S THEN Cardinality(S) ELSE Cardinality(S) + 1
  <2>1. S \cup {x} = {x} \cup S
        OBVIOUS
  <2>2. x \in S => S \cup {x} = S
        OBVIOUS
  <2> QED BY <2>1, <2>2, FS_AddElement
<1>3. IsFiniteSet(T) /\ Cardinality(T) <= Cardinality(S \cup {x})
      BY <1>2, FS_Subset
<1>4. /\ Cardinality(S) \in Nat /\ Cardinality(O) \in Nat /\ Cardinality(T) \in Nat
      /\ Cardinality(O \ {p}) \in Nat /\ Cardinality(S \cup {x}) \in Nat
      BY <1>1, <1>2, <1>3, FS_CardinalityType
<1>5. Cardinality(S \cup {x}) <= Cardinality(S) + 1
      BY <1>2, <1>4
<1>6. Cardinality(T) + Cardinality(O \ {p}) <= Cardinality(S) + Cardinality(O)
      BY <1>1, <1>3, <1>4, <1>5
<1>7. ASSUME x \notin S, T = S \cup {x}
      PROVE  Cardinality(T) + Cardinality(O \ {p}) = Cardinality(S) + Cardinality(O)
  <2>1. Cardinality(T) = Cardinality(S) + 1
        BY <1>2, <1>7
  <2> QED BY <1>1, <1>4, <2>1
<1> QED BY <1>1, <1>3, <1>6, <1>7

\* A row that is counted has the scores that were read, and one more.
LEMMA CountedScores ==
    ASSUME NEW row \in Row, row # NoRow, NEW r \in Run, r.got \in Route, r.snap \in Row
    PROVE  /\ Counted(row, r) \in Row
           /\ Counted(row, r).successes = r.snap.successes + (IF r.won THEN 1 ELSE 0)
           /\ Counted(row, r).failures = r.snap.failures + (IF r.won THEN 0 ELSE 1)
<1> DEFINE new(e, s, f, of) ==
        [row EXCEPT !.executions = e, !.successes = s, !.failures = f, !.of = of]
<1>1. ASSUME NEW e \in Nat, NEW s \in Nat, NEW f \in Nat, NEW of \in SUBSET Route
      PROVE  /\ new(e, s, f, of) \in Row
             /\ new(e, s, f, of).successes = s
             /\ new(e, s, f, of).failures = f
      BY DEF Row
<1> HIDE DEF new
<1>2. /\ r.snap.executions + 1 \in Nat
      /\ r.snap.successes + (IF r.won THEN 1 ELSE 0) \in Nat
      /\ r.snap.failures + (IF r.won THEN 0 ELSE 1) \in Nat
      /\ r.snap.of \cup {r.got} \in SUBSET Route
      BY DEF Row
<1>3. Counted(row, r) = new(r.snap.executions + 1, r.snap.successes + (IF r.won THEN 1 ELSE 0),
                            r.snap.failures + (IF r.won THEN 0 ELSE 1), r.snap.of \cup {r.got})
      BY DEF Counted, new
<1> QED BY <1>1, <1>2, <1>3

\* An outcome is counted: in the row the run has read.
LEMMA CountEarns ==
    ASSUME CreditInv, Earned, NEW p \in Proc, Aims(p), Count(p)
    PROVE  Earned'
<1>0. /\ pc[p] = "count" /\ run[p] \in Run /\ CountsInv /\ Counting(p)
      /\ ~Waiting(p) /\ ~Moving(p)
      /\ run[p].key \in Key /\ run[p].key.intent = run[p].job.intent
      /\ run[p].snap \in Row /\ run[p].snap # NoRow /\ run[p].won \in BOOLEAN
      /\ run[p].got \in Route
  <2>1. pc[p] = "count" /\ CountsInv /\ Placed(p) /\ Knows(p)
        BY DEF Count, CreditInv, CountsInv
  <2>2. run[p] \in Run
        BY <2>1, JobKnown
  <2> QED BY <2>1, <2>2 DEF Aims, Counting, Waiting, Moving, Placed, Knows, Run
<1> PICK k \in Key : k = run[p].key
    BY <1>0
<1>1. /\ patterns[k] \in Row /\ patterns[k] # NoRow /\ k.intent = run[p].job.intent
      /\ patterns' = [patterns EXCEPT ![k] = Counted(patterns[k], run[p])]
      /\ End(p) /\ UNCHANGED <<schema, legacy, told, disturbed>>
      BY <1>0, RowTyped DEF Earned, Held, Count, history
<1>2. pc'[p] = "idle" /\ \A q \in Proc \ {p} : pc'[q] = pc[q] /\ run'[q] = run[q]
      BY <1>1 DEF End, Goto, CreditInv, CountsInv, TypeOK
<1>3. /\ patterns'[k] = Counted(patterns[k], run[p])
      /\ \A l \in Key \ {k} : patterns'[l] = patterns[l]
      BY <1>0, <1>1 DEF CountsInv, TypeOK, Rows
<1>4. /\ patterns'[k] # NoRow
      /\ \A ok \in BOOLEAN : ScoreAt(patterns'[k], ok) =
            ScoreAt(run[p].snap, ok) + (IF ok = run[p].won THEN 1 ELSE 0)
  <2>1. /\ patterns'[k] # NoRow
        /\ patterns'[k].successes = run[p].snap.successes + (IF run[p].won THEN 1 ELSE 0)
        /\ patterns'[k].failures = run[p].snap.failures + (IF run[p].won THEN 0 ELSE 1)
        BY <1>0, <1>1, <1>3, CountedScores, RouteCacheAssumption
  <2>2. \A ok \in BOOLEAN : ok = run[p].won <=> (IF run[p].won THEN ok ELSE ~ok)
        BY <1>0
  <2> QED BY <1>0, <2>1, <2>2 DEF ScoreAt, Score
<1>5. Reading(p, k) /\ (\A l \in Key : Reading(p, l) => l = k) /\ \A l \in Key : ~Reading(p, l)'
      BY <1>0, <1>2 DEF Reading
<1>6. Turns' /\ Kept' /\ Sole' /\ Held'
  <2>1. ~Unmoved
        BY <1>0, Working DEF Earned
  <2> QED BY <1>1, <1>2, <1>3, <1>4, <1>5, <2>1, WorkRest
<1>7. ASSUME NEW i \in Intent, NEW ok \in BOOLEAN
      PROVE  Tally(i, ok)'
  <2> PICK n \in Nat \ {0} : n = ScoreAt(run[p].snap, ok) + 1
      BY <1>0, ScoresTyped
  <2> DEFINE x == <<k, n>>
             S == Seen(i, ok)
             T == Seen(i, ok)'
             mine == i = k.intent /\ ok = run[p].won
  <2>1. Tally(i, ok)
        BY DEF Earned
  <2>2. \A q \in Proc \ {p} : \A l \in Key : Reading(q, l)' = Reading(q, l)
        BY <1>2 DEF Reading
  <2>3. ASSUME NEW l \in Key, NEW m \in Nat \ {0}, Known(l, m, ok)'
        PROVE  Known(l, m, ok) \/ (l = k /\ m = n /\ ok = run[p].won)
    <3>1. CASE m <= ScoreAt(patterns'[l], ok)
      <4>1. CASE l # k
            BY <1>3, <3>1, <4>1 DEF Known
      <4>2. CASE l = k
        <5>1. /\ ScoreAt(run[p].snap, ok) \in Nat
              /\ ScoreAt(patterns'[k], ok) = ScoreAt(run[p].snap, ok) + (IF ok = run[p].won THEN 1 ELSE 0)
              BY <1>0, <1>4, ScoresTyped
        <5>2. m <= ScoreAt(run[p].snap, ok) \/ (m = n /\ ok = run[p].won)
              BY <3>1, <4>2, <5>1
        <5> QED BY <1>5, <4>2, <5>2 DEF Known
      <4> QED BY <4>1, <4>2
    <3>2. ASSUME NEW q \in Proc, Reading(q, l)', m <= ScoreAt(run'[q].snap, ok)
          PROVE  Known(l, m, ok)
      <4>1. q # p
            BY <1>5, <3>2
      <4> QED BY <1>2, <2>2, <3>2, <4>1 DEF Known
    <3> QED BY <2>3, <3>1, <3>2 DEF Known
  <2>4. ASSUME NEW l \in Key, l.intent \notin disturbed, NEW m \in Nat \ {0}, Known(l, m, ok)
        PROVE  Known(l, m, ok)' /\ (l = k => m < n)
    <3>1. m <= ScoreAt(patterns[l], ok) /\ Sole
          BY <2>4, SeenIsWritten DEF Earned
    <3>2. CASE l # k
          BY <1>3, <3>1, <3>2 DEF Known
    <3>3. CASE l = k
      <4>1. ScoreAt(patterns[k], ok) = ScoreAt(run[p].snap, ok) /\ ScoreAt(run[p].snap, ok) \in Nat
            BY <1>0, <1>5, <2>4, <3>1, <3>3, ScoresTyped DEF Sole
      <4>2. m <= ScoreAt(patterns'[k], ok) /\ m < n
            BY <1>4, <3>1, <3>3, <4>1
      <4> QED BY <3>3, <4>2 DEF Known
    <3> QED BY <3>2, <3>3
  <2>5. mine => Known(k, n, ok)'
    <3>1. ok = run[p].won => n <= ScoreAt(patterns'[k], ok)
          BY <1>0, <1>4, ScoresTyped
    <3> QED BY <3>1 DEF Known
  <2>6. /\ mine => T \subseteq S \cup {x}
        /\ ~mine => T \subseteq S
        BY <2>3 DEF Seen
  <2>7. i \notin disturbed => /\ S \subseteq T
                              /\ mine => x \notin S
        BY <2>4 DEF Seen
  <2>8. mine => x \in T
        BY <2>5 DEF Seen
  <2>9. Counting(p)' = FALSE /\ \A q \in Proc \ {p} : Counting(q)' = Counting(q)
        BY <1>2 DEF Counting
  <2>10. CASE ~mine
    <3>1. Owed(i, ok)' = Owed(i, ok)
          BY <1>0, <1>1, <1>2, <2>9, <2>10 DEF Owed
    <3>2. T \subseteq S /\ (i \notin disturbed => T = S)
          BY <2>6, <2>7, <2>10
    <3> HIDE DEF mine, x
    <3> QED BY <1>0, <1>1, <2>1, <3>1, <3>2, TallyStays
  <2>11. CASE mine
    <3>1. Owed(i, ok)' = Owed(i, ok) \ {p} /\ p \in Owed(i, ok)
          BY <1>0, <1>1, <1>2, <2>9, <2>11 DEF Owed
    <3>2. T \subseteq S \cup {x} /\ (i \notin disturbed => x \notin S /\ T = S \cup {x})
          BY <2>6, <2>7, <2>8, <2>11
    <3> DEFINE O == Owed(i, ok)
               D == Owed(i, ok)'
    <3>3. /\ IsFiniteSet(S) /\ IsFiniteSet(O)
          /\ Cardinality(S) + Cardinality(O) <= Score(told[i], ok)
          /\ schema = "new" /\ legacy = NoTable /\ i \notin disturbed =>
                Cardinality(S) + Cardinality(O) = Score(told[i], ok)
          BY <2>1 DEF Tally
    <3>4. D = O \ {p} /\ p \in O
          BY <3>1
    <3>5. Cardinality(S) + Cardinality(O) \in Nat /\ Score(told[i], ok) \in Nat
          BY <1>0, <3>3, TallyTyped, FS_CardinalityType
    <3> SUFFICES /\ IsFiniteSet(T) /\ IsFiniteSet(D)
                 /\ Cardinality(T) + Cardinality(D) <= Score(told[i], ok)
                 /\ schema = "new" /\ legacy = NoTable /\ i \notin disturbed =>
                       Cardinality(T) + Cardinality(D) = Score(told[i], ok)
        BY <1>1 DEF Tally
    <3> HIDE DEF mine, x, S, T, O, D
    <3>6. /\ IsFiniteSet(T) /\ IsFiniteSet(O \ {p})
          /\ Cardinality(T) + Cardinality(O \ {p}) <= Cardinality(S) + Cardinality(O)
          /\ x \notin S /\ T = S \cup {x} =>
                Cardinality(T) + Cardinality(O \ {p}) = Cardinality(S) + Cardinality(O)
          BY <3>2, <3>3, <3>4, OneMore
    <3>7. Cardinality(T) + Cardinality(D) \in Nat
          BY <3>4, <3>6, FS_CardinalityType
    <3> QED BY <3>2, <3>3, <3>4, <3>5, <3>6, <3>7
  <2> QED BY <2>10, <2>11
<1> QED BY <1>6, <1>7 DEF Earned

\* A step that only reads: it may end a run that was to count an outcome only if that
\* is known.
LEMMA ReadEarns ==
    ASSUME CreditInv, Earned, ~Unmoved, NEW p \in Proc,
           \A q \in Proc \ {p} : pc'[q] = pc[q] /\ run'[q] = run[q],
           pc'[p] \notin {"rename", "create", "look", "migrate", "put", "reread", "count"},
           UNCHANGED <<patterns, schema, legacy, told>>, disturbed \subseteq disturbed',
           Counting(p)' => /\ Counting(p) /\ run'[p].job = run[p].job
                           /\ run'[p].won = run[p].won,
           Counting(p) => Counting(p)' \/ run[p].job.intent \in disturbed'
    PROVE  Earned'
<1>1. \A k \in Key : ~Reading(p, k)'
      BY DEF Reading
<1> QED BY <1>1, WorkStep

\* What a run at a statement is for.
LEMMA AtStatement ==
    ASSUME CreditInv, Earned, NEW p \in Proc, Aims(p),
           pc[p] \in Statements \cup {"ask", "execute"}
    PROVE  /\ ~Unmoved /\ CountsInv /\ run[p] \in Run /\ run[p].job \in Job
           /\ pc[p] \in {"check", "fuzzy", "save", "keep", "note"} => run[p].op = pc[p]
           /\ pc[p] \in {"check", "touch", "fuzzy", "save", "ask", "execute"} => ~Counting(p)
           /\ pc[p] \in {"keep", "note", "reread", "count"} => Counting(p)
           /\ pc[p] \in {"put", "reread", "count", "touch"} => run[p].key \in Key
           /\ Placed(p)
<1>1. ~Waiting(p) /\ ~Moving(p) /\ pc[p] # "idle" /\ Placed(p) /\ Knows(p) /\ CountsInv
      BY DEF Statements, Waiting, Moving, CreditInv, CountsInv
<1>2. ~Unmoved
      BY <1>1, Working DEF Earned
<1>3. run[p] \in Run /\ run[p].job \in Job
      BY <1>1, RunKnows
<1> QED BY <1>1, <1>2, <1>3 DEF Aims, Knows, Placed, Counting

LEMMA CheckEarns ==
    ASSUME CreditInv, Earned, NEW p \in Proc, Aims(p), Check(p)
    PROVE  Earned'
<1>0. /\ ~Unmoved /\ run[p] \in Run /\ ~Counting(p) /\ run[p].op = "check" /\ CountsInv
      /\ UNCHANGED <<patterns, schema, legacy, told, disturbed>>
      BY AtStatement DEF Check, Statements, store, history
<1>1. CASE Connect(p, "fuzzy", run[p])
  <2>1. /\ pc'[p] = "open" /\ ~Counting(p)'
        /\ \A q \in Proc \ {p} : pc'[q] = pc[q] /\ run'[q] = run[q]
        BY <1>0, <1>1, ConnectTo DEF Counting
  <2> QED BY <1>0, <2>1, ReadEarns
<1>2. ASSUME NEW k, Goto(p, "touch"),
             run' = [run EXCEPT ![p].got = patterns[k].result, ![p].key = k]
      PROVE  Earned'
  <2>1. /\ pc'[p] = "touch" /\ run'[p].op = "check"
        /\ \A q \in Proc \ {p} : pc'[q] = pc[q] /\ run'[q] = run[q]
        BY <1>0, <1>2 DEF Goto, CountsInv, TypeOK, Run
  <2>2. ~Counting(p)'
        BY <2>1 DEF Counting
  <2> QED BY <1>0, <2>1, <2>2, ReadEarns
<1> QED BY <1>1, <1>2 DEF Check

LEMMA TouchEarns ==
    ASSUME CreditInv, Earned, NEW p \in Proc, Aims(p), Touch(p)
    PROVE  Earned'
<1>0. /\ ~Unmoved /\ run[p] \in Run /\ ~Counting(p) /\ CountsInv /\ pc[p] = "touch"
      /\ UNCHANGED <<schema, legacy, told, disturbed>>
      BY AtStatement DEF Touch, Statements, history
<1>1. /\ pc'[p] \in {"execute", "open"} /\ ~Counting(p)'
      /\ \A q \in Proc \ {p} : pc'[q] = pc[q] /\ run'[q] = run[q]
  <2>1. CASE Connect(p, "fuzzy", run[p])
        BY <1>0, <2>1, ConnectTo DEF Counting
  <2>2. CASE Goto(p, "execute") /\ UNCHANGED run
        BY <1>0, <2>2 DEF Goto, CountsInv, TypeOK, Counting
  <2> QED BY <2>1, <2>2 DEF Touch
<1>2. ASSUME NEW k \in Key
      PROVE  /\ \A ok \in BOOLEAN : ScoreAt(patterns'[k], ok) = ScoreAt(patterns[k], ok)
             /\ patterns[k] # NoRow => patterns'[k] # NoRow
  <2>1. patterns'[k] = patterns[k] \/ patterns'[k] = Touched(patterns[k])
        BY <1>0 DEF Touch, CountsInv, TypeOK, Rows
  <2>2. ASSUME NEW row \in Row PROVE [row EXCEPT !.hits = @ + 1] \in Row
                                     /\ [row EXCEPT !.hits = @ + 1].successes = row.successes
                                     /\ [row EXCEPT !.hits = @ + 1].failures = row.failures
        BY DEF Row
  <2>3. patterns[k] # NoRow => patterns[k] \in Row
        BY <1>0, RowTyped
  <2> QED BY <2>1, <2>2, <2>3, RouteCacheAssumption DEF Touched, ScoreAt, Score
<1>3. \A k \in Key : ~Reading(p, k)'
      BY <1>1 DEF Reading
<1>4. pc'[p] \notin {"rename", "create", "look", "migrate", "reread", "count"}
      BY <1>1
<1> QED BY <1>0, <1>1, <1>2, <1>3, <1>4, WorkStep

LEMMA FuzzyEarns ==
    ASSUME CreditInv, Earned, NEW p \in Proc, Aims(p), Fuzzy(p)
    PROVE  Earned'
<1>0. /\ ~Unmoved /\ run[p] \in Run /\ ~Counting(p) /\ run[p].op = "fuzzy" /\ CountsInv
      /\ UNCHANGED <<patterns, schema, legacy, told, disturbed>>
      BY AtStatement DEF Fuzzy, Statements, store, history
<1>1. \/ End(p)
      \/ Goto(p, "ask") /\ UNCHANGED run
      \/ \E k \in Key : Goto(p, "execute") /\ run' = [run EXCEPT ![p].got = patterns[k].result]
      BY DEF Fuzzy, Visible
<1>2. /\ pc'[p] \in {"idle", "ask", "execute"} /\ (pc'[p] # "idle" => run'[p].op = "fuzzy")
      /\ \A q \in Proc \ {p} : pc'[q] = pc[q] /\ run'[q] = run[q]
  <2>1. CASE End(p)
        BY <1>0, <2>1 DEF End, Goto, CountsInv, TypeOK
  <2>2. CASE Goto(p, "ask") /\ UNCHANGED run
        BY <1>0, <2>2 DEF Goto, CountsInv, TypeOK
  <2>3. CASE \E k \in Key : Goto(p, "execute") /\ run' = [run EXCEPT ![p].got = patterns[k].result]
        BY <1>0, <2>3 DEF Goto, CountsInv, TypeOK, Run
  <2> QED BY <1>1, <2>1, <2>2, <2>3
<1>3. ~Counting(p)'
      BY <1>2 DEF Counting
<1>4. pc'[p] \notin {"rename", "create", "look", "migrate", "put", "reread", "count"}
      BY <1>2
<1> QED BY <1>0, <1>2, <1>3, <1>4, ReadEarns

LEMMA AskEarns ==
    ASSUME CreditInv, Earned, NEW p \in Proc, Aims(p), Ask(p) \/ Stop(p)
    PROVE  Earned'
<1>0. /\ ~Unmoved /\ run[p] \in Run /\ ~Counting(p) /\ CountsInv
      /\ UNCHANGED <<patterns, schema, legacy, told, disturbed>>
      BY AtStatement DEF Ask, Stop, store, history
<1>1. CASE End(p)
  <2>1. /\ pc'[p] = "idle" /\ ~Counting(p)'
        /\ \A q \in Proc \ {p} : pc'[q] = pc[q] /\ run'[q] = run[q]
        BY <1>0, <1>1 DEF End, Goto, CountsInv, TypeOK, Counting
  <2> QED BY <1>0, <2>1, ReadEarns
<1>2. ASSUME NEW route \in Route, Connect(p, "save", [run[p] EXCEPT !.got = route])
      PROVE  Earned'
  <2>0. [run[p] EXCEPT !.got = route] \in Run
        BY <1>0 DEF Run
  <2>1. /\ pc'[p] = "open" /\ ~Counting(p)'
        /\ \A q \in Proc \ {p} : pc'[q] = pc[q] /\ run'[q] = run[q]
        BY <1>0, <1>2, <2>0, ConnectTo DEF Counting
  <2> QED BY <1>0, <2>1, ReadEarns
<1> QED BY <1>1, <1>2 DEF Ask, Stop

\* A run raises or is killed: what it was to count is cut off.
LEMMA CutEarns ==
    ASSUME CreditInv, Earned, ~Unmoved, NEW p \in Proc, pc[p] # "idle", Raise(p) \/ Kill(p)
    PROVE  Earned'
<1>0. /\ run[p] \in Run /\ CountsInv /\ UNCHANGED <<patterns, schema, legacy, told>>
      /\ disturbed' = disturbed \cup (IF Counting(p) THEN {run[p].job.intent} ELSE {})
      BY RunKnows DEF CreditInv, Raise, Kill, store
<1>1. /\ pc'[p] \in {"idle", "open"} /\ (pc'[p] = "open" => run'[p].op = "fuzzy")
      /\ \A q \in Proc \ {p} : pc'[q] = pc[q] /\ run'[q] = run[q]
  <2>1. CASE End(p)
        BY <1>0, <2>1 DEF End, Goto, CountsInv, TypeOK
  <2>2. CASE Connect(p, "fuzzy", [run[p] EXCEPT !.fell = TRUE])
    <3>1. [run[p] EXCEPT !.fell = TRUE] \in Run
          BY <1>0 DEF Run
    <3> QED BY <1>0, <2>2, <3>1, ConnectTo
  <2> QED BY <2>1, <2>2 DEF Raise, Kill
<1>2. ~Counting(p)'
      BY <1>1 DEF Counting
<1>3. pc'[p] \notin {"rename", "create", "look", "migrate", "put", "reread", "count"}
      BY <1>1
<1> QED BY <1>0, <1>1, <1>2, <1>3, ReadEarns

\* A row is read to be written: whoever else does so is known.
LEMMA SnapshotEarns ==
    ASSUME CreditInv, Earned, ~Unmoved, NEW p \in Proc, pc[p] # "idle",
           NEW k \in Key, Snapshot(p, k), NEW l \in {"put", "count"}, Goto(p, l),
           l = "count" => patterns[k] # NoRow,
           UNCHANGED <<patterns, schema, legacy, told>>
    PROVE  Earned'
<1>1. /\ pc'[p] = l /\ run'[p].job = run[p].job /\ run'[p].key = k
      /\ run'[p].snap = patterns[k]
      /\ \A q \in Proc \ {p} : pc'[q] = pc[q] /\ run'[q] = run[q]
      BY Read
<1>2. run'[p].op = run[p].op /\ run'[p].won = run[p].won
      BY RunKnows DEF Snapshot, CreditInv, CountsInv, TypeOK, Run
<1>3. /\ disturbed \subseteq disturbed'
      /\ \A q \in Proc \ {p} : Reading(q, k) => k.intent \in disturbed'
      BY DEF Snapshot
<1>4. Counting(p)' = Counting(p)
      BY <1>1, <1>2 DEF Counting
<1>5. \A m \in Key : Reading(p, m)' => m = k
      BY <1>1 DEF Reading
<1>6. \A m \in Key : Reading(p, m)' =>
         /\ patterns' = patterns /\ run'[p].snap = patterns[m]
         /\ \A q \in Proc \ {p} : Reading(q, m) => m.intent \in disturbed'
      BY <1>1, <1>3, <1>5
<1>7. /\ pc'[p] \notin {"rename", "create", "look", "migrate"}
      /\ pc'[p] \in {"reread", "count"} => patterns'[run'[p].key] # NoRow
      BY <1>1
<1>8. \A m \in Key : patterns'[m] = patterns[m]
      OBVIOUS
<1> QED BY <1>1, <1>2, <1>3, <1>4, <1>6, <1>7, <1>8, WorkStep

LEMMA SaveEarns ==
    ASSUME CreditInv, Earned, NEW p \in Proc, Aims(p), Save(p)
    PROVE  Earned'
<1>0. /\ ~Unmoved /\ pc[p] # "idle" /\ MyKey(run[p].job) \in Key
      /\ UNCHANGED <<patterns, schema, legacy, told>>
      BY AtStatement, JobKnown DEF Save, Statements, store
<1> PICK k \in Key : k = MyKey(run[p].job)
    BY <1>0
<1>1. Snapshot(p, k) /\ Goto(p, "put")
      BY DEF Save
<1> QED BY <1>0, <1>1, SnapshotEarns

LEMMA NoteEarns ==
    ASSUME CreditInv, Earned, NEW p \in Proc, Aims(p), Note(p)
    PROVE  Earned'
<1>0. /\ ~Unmoved /\ pc[p] # "idle" /\ run[p] \in Run /\ Counting(p) /\ CountsInv
      /\ UNCHANGED <<patterns, schema, legacy, told>>
      BY AtStatement DEF Note, Statements, store
<1>1. CASE Connect(p, "keep", run[p]) /\ UNCHANGED disturbed
  <2>1. /\ pc'[p] = "open" /\ Counting(p)' /\ run'[p].job = run[p].job
        /\ \A q \in Proc \ {p} : pc'[q] = pc[q] /\ run'[q] = run[q]
        BY <1>0, <1>1, ConnectTo DEF Counting
  <2>2. run'[p].won = run[p].won
        BY <1>0, <1>1, ConnectWon
  <2> QED BY <1>0, <1>1, <2>1, <2>2, ReadEarns
<1>2. ASSUME NEW k \in Exact(run[p].job), Snapshot(p, k), Goto(p, "count")
      PROVE  Earned'
  <2>1. k \in Key /\ patterns[k] # NoRow
        BY DEF Exact, Visible
  <2> QED BY <1>0, <1>2, <2>1, SnapshotEarns
<1> QED BY <1>1, <1>2 DEF Note

LEMMA RereadEarns ==
    ASSUME CreditInv, Earned, NEW p \in Proc, Aims(p), Reread(p)
    PROVE  Earned'
<1>0. /\ ~Unmoved /\ pc[p] = "reread" /\ run[p].key \in Key
      /\ UNCHANGED <<patterns, schema, legacy, told>>
      BY AtStatement DEF Reread, Statements, store
<1> PICK k \in Key : k = run[p].key
    BY <1>0
<1>1. patterns[k] # NoRow
      BY <1>0 DEF Earned, Held
<1>2. Snapshot(p, k) /\ Goto(p, "count")
      BY <1>1 DEF Reread
<1> QED BY <1>0, <1>1, <1>2, SnapshotEarns

\* The row is replaced by one with the counts that were read.
LEMMA PutEarns ==
    ASSUME CreditInv, Earned, NEW p \in Proc, Aims(p), Put(p)
    PROVE  Earned'
<1>0. /\ ~Unmoved /\ pc[p] = "put" /\ run[p] \in Run /\ CountsInv /\ run[p].key \in Key
      /\ UNCHANGED <<schema, legacy, told, disturbed>>
      BY AtStatement DEF Put, Statements, history
<1>1. /\ run[p].got \in Route /\ run[p].op \in {"save", "keep", "note"}
      /\ run[p].snap \in Row \cup {NoRow}
      /\ run[p].snap # NoRow => Adds(run[p].snap)
      BY <1>0, Recording DEF Run
<1> PICK k \in Key : k = run[p].key
    BY <1>0
<1> PICK l \in {"execute", "reread"} : Goto(p, l)
    BY DEF Put
<1>2. /\ pc'[p] = l /\ run'[p].op = run[p].op /\ run'[p].job = run[p].job
      /\ run'[p].won = run[p].won /\ run'[p].key = k
      /\ \A q \in Proc \ {p} : pc'[q] = pc[q] /\ run'[q] = run[q]
      BY <1>0 DEF Put, Goto, CountsInv, TypeOK, Run
<1>3. /\ patterns'[k] = Counts(run[p].snap, run[p].got)
      /\ \A m \in Key \ {k} : patterns'[m] = patterns[m]
      BY <1>0 DEF Put, CountsInv, TypeOK, Rows
<1>4. Counts(run[p].snap, run[p].got) \in Row
      BY <1>1, CountsRow
<1>5. \A ok \in BOOLEAN : ScoreAt(patterns'[k], ok) = ScoreAt(run[p].snap, ok)
  <2>1. CASE run[p].snap = NoRow
        BY <1>3, <1>4, <2>1, RouteCacheAssumption DEF Counts, ScoreAt, Score
  <2>2. CASE run[p].snap # NoRow
    <3>1. run[p].snap \in Row
          BY <1>1, <2>2
    <3>2. /\ Counts(run[p].snap, run[p].got).successes = run[p].snap.successes
          /\ Counts(run[p].snap, run[p].got).failures = run[p].snap.failures
          BY <2>2, <3>1 DEF Counts, Row
    <3> QED BY <1>3, <1>4, <2>2, <3>2, RouteCacheAssumption DEF ScoreAt, Score
  <2> QED BY <2>1, <2>2
<1>6. Reading(p, k) /\ \A m \in Key : ~Reading(p, m)'
      BY <1>0, <1>2 DEF Reading
<1>7. Counting(p)' = Counting(p)
      BY <1>0, <1>2 DEF Counting
<1>8. /\ patterns'[k] # NoRow
      /\ \A m \in Key : patterns[m] # NoRow => patterns'[m] # NoRow
      BY <1>3, <1>4, RouteCacheAssumption
<1>9. \A m \in Key :
         \/ \A ok \in BOOLEAN : ScoreAt(patterns'[m], ok) = ScoreAt(patterns[m], ok)
         \/ /\ Reading(p, m) /\ ~Reading(p, m)'
            /\ \A ok \in BOOLEAN : ScoreAt(patterns'[m], ok) = ScoreAt(run[p].snap, ok)
      BY <1>3, <1>5, <1>6
<1>10. pc'[p] \notin {"rename", "create", "look", "migrate"}
       BY <1>2
<1> QED BY <1>0, <1>2, <1>6, <1>7, <1>8, <1>9, <1>10, WorkStep

---------------------------------------------------------------------------
(* The earlier table, its hits and the outcomes.                            *)

\* A run before the rows are moved, or just after.
Early(p) == pc[p] = "idle" \/ /\ run[p].op \in {"check", "fuzzy"}
                              /\ pc[p] \in {"open", "rename", "create", "look", "migrate",
                                            "check", "fuzzy"}

\* Before the rows are moved nothing is known of the rows but the hits.
LEMMA StillStep ==
    ASSUME CreditInv, Earned, Unmoved, NEW p \in Proc,
           \A q \in Proc \ {p} : pc'[q] = pc[q] /\ run'[q] = run[q],
           Early(p)', UNCHANGED told, patterns' = patterns \/ patterns' = Empty,
           Turns', Kept',
           schema' = "new" /\ legacy' = NoTable => schema # "old" /\ legacy = NoTable
    PROVE  Earned'
<1>1. \A q \in Proc : Early(q)'
  <2>1. ASSUME NEW q \in Proc \ {p}, Moving(q) \/ Waiting(q), Moving(q) => run[q].op \in {"check", "fuzzy"}
        PROVE  Early(q)'
        BY <2>1 DEF Moving, Waiting, Early
  <2>2. \A q \in Proc \ {p} : Moving(q) \/ Waiting(q)
    <3>1. Turns
          BY DEF Earned
    <3> QED BY <3>1 DEF Unmoved, Turns
  <2>3. \A q \in Proc : Moving(q) => run[q].op \in {"check", "fuzzy"}
        BY DEF Earned, Turns
  <2> QED BY <2>1, <2>2, <2>3
<1>2. \A q \in Proc : ~Counting(q)' /\ pc'[q] \notin {"reread", "count", "put"}
      BY <1>1 DEF Early, Counting
<1>3. \A q \in Proc : \A k \in Key : ~Reading(q, k)'
      BY <1>2 DEF Reading
<1>4. Sole' /\ Held'
      BY <1>2, <1>3 DEF Sole, Held
<1>5. Kept
      BY DEF Earned
<1>6. ASSUME NEW k \in Key, NEW ok \in BOOLEAN
      PROVE  ScoreAt(patterns'[k], ok) = 0
  <2>1. CASE patterns'[k] = NoRow
        BY <2>1 DEF ScoreAt
  <2>2. CASE patterns'[k] # NoRow
    <3>1. patterns' = patterns /\ schema = "old"
          BY <1>5, <2>2 DEF Kept, Empty
    <3>2. patterns[k].successes = 0 /\ patterns[k].failures = 0
          BY <1>5, <2>2, <3>1 DEF Kept, Earlier
    <3> QED BY <3>1, <3>2 DEF ScoreAt, Score
  <2> QED BY <2>1, <2>2
<1>7. ASSUME NEW i \in Intent, NEW ok \in BOOLEAN
      PROVE  Tally(i, ok)'
  <2>1. Seen(i, ok)' = {} /\ Owed(i, ok)' = {}
    <3>1. \A k \in Key : \A n \in Nat \ {0} : ~Known(k, n, ok)'
          BY <1>3, <1>6 DEF Known
    <3> QED BY <1>2, <3>1 DEF Seen, Owed
  <2>2. Score(told'[i], ok) \in Nat /\ Score(told'[i], ok) = Score(told[i], ok)
        BY TallyTyped DEF CreditInv
  <2>3. ASSUME schema' = "new", legacy' = NoTable
        PROVE  Score(told[i], ok) = 0
    <3>1. Earlier[Global(i)] = NoRow
          BY <2>3 DEF Earlier, Empty, Global, Key, Scope
    <3>2. told[i] = [successes |-> Hits(Earlier[Global(i)]), failures |-> 0]
          BY <1>5 DEF Kept
    <3>3. Hits(Earlier[Global(i)]) = 0
          BY <3>1 DEF Hits
    <3> QED BY <3>2, <3>3 DEF Score
  <2> QED BY <2>1, <2>2, <2>3, FS_EmptySet DEF Tally
<1> QED BY <1>4, <1>7 DEF Earned

\* A run opens the database: with a new table it goes on, else it migrates, alone.
LEMMA OpenEarns ==
    ASSUME CreditInv, Earned, NEW p \in Proc, Open(p), ~crowded'
    PROVE  Earned'
<1>0. /\ pc[p] = "open" /\ run[p] \in Run /\ CountsInv
      /\ UNCHANGED <<patterns, schema, legacy, run, told, disturbed>>
      /\ \A q \in Proc : ~Moving(q)
      BY RunKnows DEF Open, store, CreditInv
<1>1. CASE schema = "new"
  <2>1. /\ ~Unmoved /\ run[p].op \in {"check", "fuzzy", "save", "keep", "note"}
        BY <1>0, <1>1 DEF Unmoved, Run
  <2>2. /\ pc'[p] = run[p].op
        /\ \A q \in Proc \ {p} : pc'[q] = pc[q] /\ run'[q] = run[q]
        BY <1>0, <1>1 DEF Open, Goto, CountsInv, TypeOK
  <2>3. Counting(p)' = Counting(p)
        BY <1>0, <2>1, <2>2 DEF Counting
  <2>4. pc'[p] \notin {"rename", "create", "look", "migrate", "put", "reread", "count"}
        BY <2>1, <2>2
  <2> QED BY <1>0, <2>1, <2>2, <2>3, <2>4, ReadEarns
<1>2. CASE schema # "new"
  <2>1. /\ Unmoved /\ Turns /\ Kept /\ \A q \in Proc : Waiting(q)
        BY <1>0, <1>2 DEF Unmoved, Earned, Turns
  <2>2. /\ pc'[p] = IF schema = "old" THEN "rename" ELSE "create"
        /\ \A q \in Proc \ {p} : pc'[q] = pc[q] /\ run'[q] = run[q]
        BY <1>0, <1>2 DEF Open, Goto, CountsInv, TypeOK
  <2>3. Moving(p)' /\ \A q \in Proc \ {p} : ~Moving(q)' /\ Waiting(q)'
                                             /\ pc'[q] \notin {"rename", "create", "look", "migrate"}
        BY <1>0, <2>1, <2>2 DEF Moving, Waiting
  <2>4. run'[p].op \in {"check", "fuzzy"}
        BY <1>0, <2>1 DEF Waiting
  <2>5. schema \in {"none", "old", "new"}
        BY <1>0 DEF CountsInv, TypeOK
  <2>6. Turns'
        BY <1>0, <1>2, <2>1, <2>2, <2>3, <2>4, <2>5 DEF Turns
  <2>7. Kept'
        BY <1>0, <2>1 DEF Kept, Earlier
  <2>8. Early(p)'
        BY <2>2, <2>4 DEF Early
  <2> QED BY <1>0, <1>2, <2>1, <2>2, <2>6, <2>7, <2>8, StillStep
<1> QED BY <1>1, <1>2

\* A run begins, raises or is killed before the rows are moved: nothing is lost.
LEMMA StillEarns ==
    ASSUME CreditInv, Earned, Unmoved, NEW p \in Proc,
           \A q \in Proc \ {p} : pc'[q] = pc[q] /\ run'[q] = run[q],
           Waiting(p)', UNCHANGED <<patterns, schema, legacy, told>>
    PROVE  Earned'
<1>1. Turns /\ Kept
      BY DEF Earned
<1>2. /\ ~Moving(p)' /\ pc'[p] \notin {"rename", "create", "look", "migrate"}
      /\ \A q \in Proc \ {p} : Moving(q)' = Moving(q) /\ Waiting(q)' = Waiting(q)
      BY DEF Moving, Waiting
<1>3. Turns'
      BY <1>1, <1>2 DEF Turns
<1>4. Kept'
      BY <1>1 DEF Kept, Earlier
<1>5. Early(p)'
      BY DEF Early, Waiting
<1>6. schema' = "new" /\ legacy' = NoTable => schema # "old" /\ legacy = NoTable
      OBVIOUS
<1> QED BY <1>3, <1>4, <1>5, <1>6, StillStep

LEMMA BeginEarns ==
    ASSUME CreditInv, Earned, NEW p \in Proc, NEW j \in Asked, Begin(p, j)
    PROVE  Earned'
<1>0. /\ pc[p] = "idle" /\ ~Counting(p) /\ CountsInv
      /\ UNCHANGED <<patterns, schema, legacy, told, disturbed>>
      BY DEF Begin, store, Counting, CreditInv
<1>1. Request(j) \in Run
      BY DEF Request, Run
<1>2. /\ pc'[p] = "open" /\ run'[p].op = "check"
      /\ \A q \in Proc \ {p} : pc'[q] = pc[q] /\ run'[q] = run[q]
      BY <1>0, <1>1, ConnectTo DEF Begin
<1>3. ~Counting(p)' /\ Waiting(p)'
      BY <1>2 DEF Counting, Waiting
<1>4. CASE Unmoved
      BY <1>0, <1>2, <1>3, <1>4, StillEarns
<1>5. CASE ~Unmoved
  <2>1. pc'[p] \notin {"rename", "create", "look", "migrate", "put", "reread", "count"}
        BY <1>2
  <2> QED BY <1>0, <1>2, <1>3, <1>5, <2>1, ReadEarns
<1> QED BY <1>4, <1>5

LEMMA FaultEarns ==
    ASSUME CreditInv, Earned, NEW p \in Proc, pc[p] # "idle", Raise(p) \/ Kill(p)
    PROVE  Earned'
<1>0. /\ run[p] \in Run /\ CountsInv /\ UNCHANGED <<patterns, schema, legacy, told>>
      BY RunKnows DEF CreditInv, Raise, Kill, store
<1>1. CASE Unmoved
  <2>1. /\ pc'[p] \in {"idle", "open"} /\ (pc'[p] = "open" => run'[p].op = "fuzzy")
        /\ \A q \in Proc \ {p} : pc'[q] = pc[q] /\ run'[q] = run[q]
    <3>1. CASE End(p)
          BY <1>0, <3>1 DEF End, Goto, CountsInv, TypeOK
    <3>2. CASE Connect(p, "fuzzy", [run[p] EXCEPT !.fell = TRUE])
      <4>1. [run[p] EXCEPT !.fell = TRUE] \in Run
            BY <1>0 DEF Run
      <4> QED BY <1>0, <3>2, <4>1, ConnectTo
    <3> QED BY <3>1, <3>2 DEF Raise, Kill
  <2>2. Waiting(p)'
        BY <2>1 DEF Waiting
  <2> QED BY <1>0, <1>1, <2>1, <2>2, StillEarns
<1>2. CASE ~Unmoved
      BY <1>2, CutEarns
<1> QED BY <1>1, <1>2

\* The steps of the run that migrates, alone: the hits stay where they are.
LEMMA MovingEarns ==
    ASSUME CreditInv, Earned, NEW p \in Proc, Rename(p) \/ Create(p) \/ Look(p)
    PROVE  Earned'
<1>0. /\ pc[p] \in {"rename", "create", "look"} /\ Moving(p) /\ run[p] \in Run /\ CountsInv
      /\ Turns /\ Kept /\ Unmoved /\ UNCHANGED <<told, disturbed>>
      BY RunKnows DEF Rename, Create, Look, Moving, history, CreditInv, Earned, Unmoved
<1>1. /\ run[p].op \in {"check", "fuzzy"} /\ \A q \in Proc \ {p} : Waiting(q)
      BY <1>0 DEF Turns
<1>2. /\ \A q \in Proc \ {p} : pc'[q] = pc[q] /\ run'[q] = run[q]
      /\ run'[p].op = run[p].op
      BY <1>0 DEF Rename, Create, Look, Goto, CountsInv, TypeOK, Run
<1>3. \A q \in Proc \ {p} : ~Moving(q)' /\ Waiting(q)'
                            /\ pc'[q] \notin {"rename", "create", "look", "migrate"}
      BY <1>1, <1>2 DEF Moving, Waiting
<1>4. CASE Rename(p)
  <2>1. /\ pc'[p] = "create" /\ schema = "old" /\ schema' = "none" /\ legacy = NoTable
        /\ legacy' = patterns /\ patterns' = Empty
        BY <1>0, <1>4 DEF Rename, Goto, CountsInv, TypeOK, Turns
  <2>2. legacy' # NoTable
        BY <1>0, <2>1, RouteCacheAssumption DEF CountsInv, TypeOK
  <2>3. Turns'
        BY <1>1, <1>2, <1>3, <2>1 DEF Turns, Moving
  <2>4. Earlier' = Earlier
        BY <2>1, <2>2 DEF Earlier
  <2>5. Kept'
        BY <1>0, <2>1, <2>4 DEF Kept
  <2>6. Early(p)'
        BY <1>1, <1>2, <2>1 DEF Early
  <2> QED BY <1>0, <1>2, <2>1, <2>3, <2>5, <2>6, StillStep
<1>5. CASE Create(p)
  <2>1. /\ pc'[p] = "look" /\ schema = "none" /\ schema' = "new"
        /\ legacy' = legacy /\ patterns' = patterns
        BY <1>0, <1>5 DEF Create, Goto, CountsInv, TypeOK, Turns
  <2>2. Turns'
        BY <1>1, <1>2, <1>3, <2>1 DEF Turns, Moving
  <2>3. Earlier' = Earlier
        BY <2>1 DEF Earlier
  <2>4. Kept'
        BY <1>0, <2>1, <2>3 DEF Kept
  <2>5. Early(p)'
        BY <1>1, <1>2, <2>1 DEF Early
  <2>6. schema' = "new" /\ legacy' = NoTable => schema # "old" /\ legacy = NoTable
        BY <2>1
  <2> QED BY <1>0, <1>2, <2>1, <2>2, <2>4, <2>5, <2>6, StillStep
<1>6. CASE Look(p)
  <2>1. /\ schema = "new" /\ UNCHANGED <<schema, legacy, patterns>>
        /\ IF legacy = NoTable THEN pc'[p] = run[p].op
                               ELSE pc'[p] = "migrate" /\ run'[p].rows = legacy
        BY <1>0, <1>6 DEF Look, Goto, CountsInv, TypeOK, Turns, Run, store
  <2>2. Turns'
        BY <1>1, <1>2, <1>3, <2>1 DEF Turns, Moving
  <2>3. Earlier' = Earlier
        BY <2>1 DEF Earlier
  <2>4. Kept'
        BY <1>0, <2>1, <2>3 DEF Kept
  <2>5. Early(p)'
        BY <1>1, <1>2, <2>1 DEF Early
  <2>6. schema' = "new" /\ legacy' = NoTable => schema # "old" /\ legacy = NoTable
        BY <2>1
  <2> QED BY <1>0, <1>2, <2>1, <2>2, <2>4, <2>5, <2>6, StillStep
<1> QED BY <1>4, <1>5, <1>6

\* There are as many outcomes of one row as its score says.
LEMMA OneRow ==
    ASSUME NEW k, NEW m \in Nat
    PROVE  IsFiniteSet({k} \X (1 .. m)) /\ Cardinality({k} \X (1 .. m)) = m
<1> DEFINE T == {k} \X (1 .. m)
           f == [n \in 1 .. m |-> <<k, n>>]
<1>1. /\ IsFiniteSet(1 .. m) /\ Cardinality(1 .. m) = m
      BY FS_Interval
<1>2. f \in Bijection(1 .. m, T)
  <2>1. f \in [1 .. m -> T] /\ \A a, b \in 1 .. m : f[a] = f[b] => a = b
        OBVIOUS
  <2>2. \A t \in T : \E n \in 1 .. m : f[n] = t
        OBVIOUS
  <2> QED BY <2>1, <2>2 DEF Bijection, Injection, Surjection, IsInjective
<1>3. ExistsBijection(1 .. m, T)
      BY <1>2 DEF ExistsBijection
<1> QED BY <1>1, <1>3, FS_Bijection

\* The rows are moved, and their hits with them.
LEMMA MigrateEarns ==
    ASSUME CreditInv, Earned, NEW p \in Proc, Migrate(p)
    PROVE  Earned'
<1>0. /\ pc[p] = "migrate" /\ Moving(p) /\ run[p] \in Run /\ CountsInv /\ CountsInv'
      /\ Turns /\ Kept /\ Unmoved /\ UNCHANGED <<schema, told, disturbed>>
      /\ schema = "new" /\ legacy # NoTable /\ legacy' = NoTable
      BY RunKnows, MigrateCounts DEF Migrate, Moving, history, CreditInv, Earned, Unmoved
<1>1. /\ run[p].op \in {"check", "fuzzy"} /\ \A q \in Proc \ {p} : Waiting(q)
      /\ run[p].rows = legacy /\ legacy \in Rows
      BY <1>0 DEF Turns, CountsInv, TypeOK
<1>2. /\ \A q \in Proc \ {p} : pc'[q] = pc[q] /\ run'[q] = run[q]
      /\ pc'[p] = run[p].op /\ run'[p].op = run[p].op
      BY <1>0 DEF Migrate, Goto, CountsInv, TypeOK, Run
<1>3. \A q \in Proc : /\ ~Moving(q)' /\ ~Counting(q)'
                      /\ pc'[q] \notin {"rename", "create", "look", "migrate", "put", "reread", "count"}
      BY <1>1, <1>2 DEF Moving, Waiting, Counting
<1>4. Turns' /\ Kept' /\ Sole' /\ Held'
      BY <1>0, <1>3 DEF Turns, Kept, Unmoved, Sole, Held, Reading
<1>5. /\ patterns = Empty
      /\ \A k \in Key : legacy[k] # NoRow => k.scope = Anywhere
      /\ \A i \in Intent : told[i] = [successes |-> Hits(legacy[Global(i)]), failures |-> 0]
      BY <1>0 DEF Kept, Earlier
<1>6. \A k \in Key : patterns'[k] = IF k = Global(k.intent) /\ legacy[k] # NoRow
                                   THEN Migrated(legacy[k]) ELSE NoRow
  <2>1. PICK from \in [Intent -> Scope] :
          LET Source(i) == [scope |-> from[i], intent |-> i]
              held == {i \in Intent : \E k \in Key : k.intent = i /\ legacy[k] # NoRow}
          IN  /\ \A i \in held : legacy[Source(i)] # NoRow
              /\ patterns' = [k \in Key |->
                   IF k.scope = Anywhere /\ k.intent \in held
                   THEN Migrated(legacy[Source(k.intent)]) ELSE patterns[k]]
        BY <1>1 DEF Migrate
  <2> DEFINE Source(i) == [scope |-> from[i], intent |-> i]
             held == {i \in Intent : \E k \in Key : k.intent = i /\ legacy[k] # NoRow}
  <2>2. /\ \A i \in held : legacy[Source(i)] # NoRow
        /\ patterns' = [k \in Key |->
             IF k.scope = Anywhere /\ k.intent \in held
             THEN Migrated(legacy[Source(k.intent)]) ELSE patterns[k]]
        BY <2>1
  <2>3. ASSUME NEW i \in held PROVE Source(i) = Global(i) /\ legacy[Global(i)] # NoRow
    <3>1. Source(i) \in Key /\ Source(i).scope = from[i]
          BY DEF Key
    <3>2. from[i] = Anywhere
          BY <1>5, <2>2, <3>1
    <3> QED BY <2>2, <3>2 DEF Global
  <2>4. \A k \in Key : k.intent \in Intent /\ (k.scope = Anywhere <=> k = Global(k.intent))
        BY DEF Key, Global
  <2>5. \A k \in Key : legacy[k] # NoRow => k.intent \in held
        BY <2>4
  <2>6. \A k \in Key : patterns[k] = NoRow
        BY <1>5 DEF Empty
  <2> HIDE DEF Source, held
  <2> QED BY <2>2, <2>3, <2>4, <2>5, <2>6
<1>7. ASSUME NEW i \in Intent, NEW ok \in BOOLEAN
      PROVE  Tally(i, ok)'
  <2> PICK m \in Nat : m = Score(told[i], ok)
      BY <1>0, TallyTyped
  <2>1. Global(i) \in Key /\ Global(i).intent = i
        BY DEF Global, Key, Scope
  <2>2. ScoreAt(patterns'[Global(i)], ok) = m
    <3>1. m = IF ok THEN Hits(legacy[Global(i)]) ELSE 0
      <4>1. told[i] = [successes |-> Hits(legacy[Global(i)]), failures |-> 0]
            BY <1>5
      <4>2. told[i].successes = Hits(legacy[Global(i)]) /\ told[i].failures = 0
            BY <4>1
      <4> QED BY <4>2 DEF Score
    <3>2. CASE legacy[Global(i)] = NoRow
          BY <1>6, <2>1, <3>1, <3>2 DEF Hits, ScoreAt
    <3>3. CASE legacy[Global(i)] # NoRow
      <4>1. legacy[Global(i)] \in Row /\ patterns'[Global(i)] = Migrated(legacy[Global(i)])
            BY <1>1, <1>6, <2>1, <3>3 DEF Rows
      <4>2. /\ patterns'[Global(i)].successes = legacy[Global(i)].hits
            /\ patterns'[Global(i)].failures = 0 /\ patterns'[Global(i)] \in Row
        <5>1. \A row \in Row : row.hits \in Nat /\ row.result \in Route
              BY DEF Row
        <5>2. \A row \in Row : Migrated(row) \in Row /\ Migrated(row).successes = row.hits
                               /\ Migrated(row).failures = 0
              BY <5>1 DEF Migrated, Row
        <5> QED BY <4>1, <5>2
      <4> QED BY <3>1, <3>3, <4>2, RouteCacheAssumption DEF Hits, ScoreAt, Score
    <3> QED BY <3>2, <3>3
  <2>3. \A k \in Key : k.intent = i /\ k # Global(i) => ScoreAt(patterns'[k], ok) = 0
        BY <1>6 DEF ScoreAt
  <2>4. \A k \in Key : \A n : Known(k, n, ok)' <=> n <= ScoreAt(patterns'[k], ok)
        BY <1>3 DEF Known, Reading
  <2>5. Seen(i, ok)' = {Global(i)} \X (1 .. m)
    <3>1. ASSUME NEW k \in Key, NEW n \in Nat \ {0}, k.intent = i
          PROVE  Known(k, n, ok)' <=> k = Global(i) /\ n <= m
          BY <2>2, <2>3, <2>4, <3>1
    <3> QED BY <2>1, <3>1 DEF Seen
  <2>6. Owed(i, ok)' = {}
        BY <1>3 DEF Owed
  <2>7. Score(told'[i], ok) = m
        BY <1>0
  <2>8. /\ IsFiniteSet(Seen(i, ok)') /\ Cardinality(Seen(i, ok)') = m
        /\ IsFiniteSet(Owed(i, ok)') /\ Cardinality(Owed(i, ok)') = 0
    <3>1. /\ IsFiniteSet({Global(i)} \X (1 .. m))
          /\ Cardinality({Global(i)} \X (1 .. m)) = m
          BY OneRow
    <3> QED BY <2>5, <2>6, <3>1, FS_EmptySet
  <2> QED BY <2>7, <2>8 DEF Tally
<1> QED BY <1>4, <1>7 DEF Earned

---------------------------------------------------------------------------
(* Every step.                                                             *)

\* Of a run it is kept what its statement is for, also when runs overlapped.
LEMMA StepAims ==
    ASSUME CreditInv, \A q \in Proc : Aims(q), NEW p \in Proc, Step(p)
    PROVE  (\A q \in Proc : Aims(q))'
<1>0. /\ CountsInv /\ pc[p] # "idle" /\ run[p] \in Run /\ Knows(p) /\ Aims(p)
      /\ run[p].op \in {"check", "fuzzy", "save", "keep", "note"}
  <2>1. pc[p] # "idle"
        BY DEF Step, Open, Rename, RenameRefused, Create, Look, Migrate, MigrateFails, Check,
               Touch, Fuzzy, Ask, AskFails, Save, Put, Stop, Execute, Note, Reread, Count,
               TableGone, DatabaseFails, Kill, Statements
  <2> QED BY <2>1, RunKnows DEF CreditInv, CountsInv, Run
<1> SUFFICES Aims(p)' /\ \A q \in Proc \ {p} : pc'[q] = pc[q] /\ run'[q] = run[q]
    BY DEF Aims
<1>1. ASSUME NEW l, Goto(p, l)
      PROVE  pc'[p] = l /\ \A q \in Proc \ {p} : pc'[q] = pc[q]
      BY <1>0, <1>1 DEF Goto, CountsInv, TypeOK
<1>2. ASSUME End(p)
      PROVE  Aims(p)' /\ \A q \in Proc \ {p} : pc'[q] = pc[q] /\ run'[q] = run[q]
      BY <1>0, <1>2 DEF End, Goto, CountsInv, TypeOK, Aims
<1>3. ASSUME NEW r \in Run, NEW op, Connect(p, op, r)
      PROVE  Aims(p)' /\ \A q \in Proc \ {p} : pc'[q] = pc[q] /\ run'[q] = run[q]
  <2>1. pc'[p] = "open" /\ \A q \in Proc \ {p} : pc'[q] = pc[q] /\ run'[q] = run[q]
        BY <1>0, <1>3, ConnectTo
  <2> QED BY <2>1 DEF Aims
<1>4. /\ [run[p] EXCEPT !.fell = TRUE] \in Run
      /\ \A ok \in BOOLEAN : [run[p] EXCEPT !.won = ok] \in Run
      /\ \A route \in Route : [run[p] EXCEPT !.got = route] \in Run
      BY <1>0 DEF Run
<1>5. ASSUME Raise(p)
      PROVE  Aims(p)' /\ \A q \in Proc \ {p} : pc'[q] = pc[q] /\ run'[q] = run[q]
      BY <1>2, <1>3, <1>4, <1>5 DEF Raise
<1>6. CASE RenameRefused(p) \/ MigrateFails(p) \/ AskFails(p) \/ TableGone(p) \/ DatabaseFails(p)
      BY <1>5, <1>6 DEF RenameRefused, MigrateFails, AskFails, TableGone, DatabaseFails
<1>7. CASE Kill(p) \/ Stop(p) \/ Count(p)
      BY <1>2, <1>7 DEF Kill, Stop, Count
<1>8. CASE Open(p) \/ Rename(p) \/ Create(p) \/ Look(p) \/ Migrate(p)
  <2>1. PICK l \in {"rename", "create", "look", "migrate", run[p].op} : Goto(p, l)
        BY <1>8, <1>0 DEF Open, Rename, Create, Look, Migrate, CountsInv, TypeOK
  <2>2. \A q \in Proc \ {p} : run'[q] = run[q]
        BY <1>8, <1>0 DEF Open, Rename, Create, Look, Migrate, CountsInv, TypeOK
  <2>3. pc'[p] \notin {"touch", "ask", "execute", "reread", "count"}
        BY <1>0, <1>1, <2>1
  <2> QED BY <1>1, <2>1, <2>2, <2>3 DEF Aims
<1>9. CASE Check(p)
  <2>1. CASE Connect(p, "fuzzy", run[p])
        BY <1>0, <1>3, <2>1
  <2>2. ASSUME NEW k, Goto(p, "touch"),
               run' = [run EXCEPT ![p].got = patterns[k].result, ![p].key = k]
        PROVE  Aims(p)' /\ \A q \in Proc \ {p} : pc'[q] = pc[q] /\ run'[q] = run[q]
    <3>1. run'[p].op = "check" /\ \A q \in Proc \ {p} : run'[q] = run[q]
          BY <1>0, <1>9, <2>2 DEF Check, CountsInv, TypeOK, Run, Knows
    <3>2. pc'[p] = "touch" /\ \A q \in Proc \ {p} : pc'[q] = pc[q]
          BY <1>1, <2>2
    <3> QED BY <3>1, <3>2 DEF Aims
  <2> QED BY <1>9, <2>1, <2>2 DEF Check
<1>10. CASE Touch(p)
  <2>1. CASE Goto(p, "execute") /\ UNCHANGED run
    <3>1. run[p].op \notin {"note", "keep"}
          BY <1>0, <1>10 DEF Touch, Aims
    <3> QED BY <1>1, <2>1, <3>1 DEF Aims
  <2> QED BY <1>0, <1>3, <1>10, <2>1 DEF Touch
<1>11. CASE Fuzzy(p)
  <2>1. run[p].op = "fuzzy"
        BY <1>0, <1>11 DEF Fuzzy, Knows
  <2>2. CASE Goto(p, "ask") /\ UNCHANGED run
        BY <1>1, <2>1, <2>2 DEF Aims
  <2>3. CASE \E k \in Key : Goto(p, "execute") /\ run' = [run EXCEPT ![p].got = patterns[k].result]
    <3>1. run'[p].op = "fuzzy" /\ \A q \in Proc \ {p} : run'[q] = run[q]
          BY <1>0, <2>1, <2>3 DEF CountsInv, TypeOK, Run
    <3> QED BY <1>1, <2>3, <3>1 DEF Aims
  <2>4. \/ End(p)
        \/ Goto(p, "ask") /\ UNCHANGED run
        \/ \E k \in Key : Goto(p, "execute") /\ run' = [run EXCEPT ![p].got = patterns[k].result]
        BY <1>11 DEF Fuzzy, Visible
  <2> QED BY <1>2, <2>2, <2>3, <2>4
<1>12. CASE Ask(p) \/ Execute(p)
      BY <1>2, <1>3, <1>4, <1>12 DEF Ask, Execute
<1>13. ASSUME NEW k, NEW l, Snapshot(p, k), Goto(p, l), l = "count" \/ l = "put",
              l = "count" => run[p].op \in {"note", "keep"}
       PROVE  Aims(p)' /\ \A q \in Proc \ {p} : pc'[q] = pc[q] /\ run'[q] = run[q]
  <2>1. run'[p].op = run[p].op /\ \A q \in Proc \ {p} : run'[q] = run[q]
        BY <1>0, <1>13 DEF Snapshot, CountsInv, TypeOK, Run
  <2> QED BY <1>1, <1>13, <2>1 DEF Aims
<1>14. CASE Save(p)
       BY <1>13, <1>14 DEF Save
<1>15. CASE Note(p)
  <2>1. run[p].op = "note"
        BY <1>0, <1>15 DEF Note, Knows
  <2> QED BY <1>0, <1>3, <1>13, <1>15, <2>1 DEF Note
<1>16. CASE Reread(p)
  <2>1. run[p].op \in {"note", "keep"}
        BY <1>0, <1>16 DEF Reread, Aims
  <2> QED BY <1>2, <1>13, <1>16, <2>1 DEF Reread
<1>17. CASE Put(p)
  <2>1. run[p].op \in {"save", "keep", "note"}
        BY <1>0, <1>17 DEF Put, Knows
  <2>2. run'[p].op = run[p].op /\ \A q \in Proc \ {p} : run'[q] = run[q]
        BY <1>0, <1>17 DEF Put, CountsInv, TypeOK, Run
  <2>3. pc'[p] = (IF run[p].op = "save" THEN "execute" ELSE "reread")
        /\ \A q \in Proc \ {p} : pc'[q] = pc[q]
        BY <1>0, <1>17 DEF Put, Goto, CountsInv, TypeOK
  <2> QED BY <2>1, <2>2, <2>3 DEF Aims
<1> QED BY <1>6, <1>7, <1>8, <1>9, <1>10, <1>11, <1>12, <1>14, <1>15, <1>16, <1>17 DEF Step

LEMMA StepEarns ==
    ASSUME CreditInv, Earned, NEW p \in Proc, Aims(p), Step(p), ~crowded'
    PROVE  Earned'
<1>1. ASSUME Raise(p) \/ Kill(p), pc[p] # "idle"
      PROVE  Earned'
      BY <1>1, FaultEarns
<1>2. CASE RenameRefused(p) \/ MigrateFails(p) \/ AskFails(p) \/ TableGone(p)
           \/ DatabaseFails(p) \/ Kill(p)
      BY <1>1, <1>2 DEF RenameRefused, MigrateFails, AskFails, TableGone, DatabaseFails, Kill,
                        Statements
<1> QED BY <1>2, OpenEarns, MovingEarns, MigrateEarns, CheckEarns, TouchEarns, FuzzyEarns,
           AskEarns, SaveEarns, PutEarns, ExecuteEarns, NoteEarns, RereadEarns, CountEarns DEF Step

\* Idle steps, and tools that come and go.
LEMMA ElsewhereEarns ==
    ASSUME Earned, UNCHANGED <<patterns, schema, legacy, pc, run, told, disturbed>>
    PROVE  Earned'
<1>1. Turns' /\ Kept' /\ Sole' /\ Held'
      BY DEF Earned, Turns, Kept, Unmoved, Earlier, Sole, Held, Moving, Waiting, Reading
<1>2. ASSUME NEW i \in Intent, NEW ok \in BOOLEAN PROVE Tally(i, ok)'
  <2>1. Tally(i, ok)
        BY DEF Earned
  <2>2. \A k, n : Known(k, n, ok)' = Known(k, n, ok)
        BY DEF Known, Reading
  <2>3. Seen(i, ok)' = Seen(i, ok)
        BY <2>2 DEF Seen
  <2>4. Owed(i, ok)' = Owed(i, ok)
        BY DEF Owed, Counting
  <2> QED BY <2>1, <2>3, <2>4 DEF Tally
<1> QED BY <1>1, <1>2 DEF Earned

LEMMA InitEarns ==
    ASSUME Init
    PROVE  EarnedInv
<1>1. /\ \A p \in Proc : pc[p] = "idle" /\ Aims(p) /\ ~Moving(p) /\ Waiting(p) /\ ~Counting(p)
      /\ \A p \in Proc : \A k \in Key : ~Reading(p, k)
      BY DEF Init, Aims, Moving, Waiting, Counting, Reading
<1>2. Turns /\ Sole /\ Held
      BY <1>1 DEF Init, Turns, Sole, Held
<1>3. \A k \in Key : patterns[k] # NoRow =>
         schema = "old" /\ k.scope = Anywhere /\ patterns[k].successes = 0 /\ patterns[k].failures = 0
  <2>1. \A route \in Route : /\ OldRow(route).successes = 0
                             /\ OldRow(route).failures = 0
        BY DEF OldRow, Counts
  <2> QED BY <2>1 DEF Init, Empty
<1>4. \A i \in Intent : Global(i) \in Key
      BY DEF Global, Key, Scope
<1>5. Kept
  <2>1. schema # "old" => patterns = Empty
        BY DEF Init
  <2>2. \A k \in Key : Earlier[k] # NoRow =>
            k.scope = Anywhere /\ Earlier[k].successes = 0 /\ Earlier[k].failures = 0
        BY <1>3 DEF Init, Earlier, Empty
  <2>3. Earlier = patterns
        BY <2>1 DEF Init, Earlier
  <2>4. \A i \in Intent : told[i] = [successes |-> Hits(Earlier[Global(i)]), failures |-> 0]
        BY <2>3 DEF Init, Hits
  <2> QED BY <2>1, <2>2, <2>4 DEF Kept
<1>6. ASSUME NEW i \in Intent, NEW ok \in BOOLEAN PROVE Tally(i, ok)
  <2>1. \A k \in Key : ScoreAt(patterns[k], ok) = 0
        BY <1>3 DEF ScoreAt, Score
  <2>2. \A k \in Key : \A n \in Nat \ {0} : ~Known(k, n, ok)
        BY <1>1, <2>1 DEF Known
  <2>3. Seen(i, ok) = {} /\ Owed(i, ok) = {}
        BY <1>1, <2>2 DEF Seen, Owed
  <2>4. Score(told[i], ok) \in Nat
        BY TallyTyped, InitCounts
  <2>5. schema = "new" => Score(told[i], ok) = 0
        BY <1>4 DEF Init, Empty, Score
  <2> QED BY <2>3, <2>4, <2>5, FS_EmptySet DEF Tally
<1> QED BY <1>1, <1>2, <1>5, <1>6 DEF EarnedInv, Earned

\* Crowded runs stay crowded.
LEMMA CrowdedBefore ==
    ASSUME CountsInv, [Next]_vars, ~crowded'
    PROVE  ~crowded
<1>1. CASE \E p \in Proc : Step(p)
      BY <1>1 DEF Step, Open, Rename, RenameRefused, Create, Look, Migrate, MigrateFails, Check,
                  Touch, Fuzzy, Ask, AskFails, Save, Put, Stop, Execute, Note, Reread, Count,
                  TableGone, DatabaseFails, Kill, Raise, history
<1>2. CASE \E p \in Proc, j \in Asked : Begin(p, j)
      BY <1>2 DEF Begin
<1>3. CASE \E route \in Route : ChangeTools(route)
      BY <1>3 DEF ChangeTools
<1>4. CASE UNCHANGED vars
      BY <1>4 DEF vars, history
<1> QED BY <1>1, <1>2, <1>3, <1>4 DEF Next

LEMMA EarnedInvariant == Spec => []EarnedInv
<1>1. CreditInv /\ EarnedInv /\ [Next]_vars => EarnedInv'
  <2> SUFFICES ASSUME CreditInv, EarnedInv, [Next]_vars PROVE EarnedInv'
      OBVIOUS
  <2>1. \A p \in Proc : Aims(p)
        BY DEF EarnedInv
  <2>2. ~crowded' => Earned
        BY CrowdedBefore DEF EarnedInv, CreditInv
  <2>3. CASE \E p \in Proc : Step(p)
    <3>1. PICK p \in Proc : Step(p)
          BY <2>3
    <3>2. (\A q \in Proc : Aims(q))'
          BY <2>1, <3>1, StepAims
    <3>3. ~crowded' => Earned'
          BY <2>1, <2>2, <3>1, StepEarns
    <3> QED BY <3>2, <3>3 DEF EarnedInv
  <2>4. ASSUME NEW p \in Proc, NEW j \in Asked, Begin(p, j)
        PROVE  EarnedInv'
    <3>1. /\ pc'[p] = "open"
          /\ \A q \in Proc \ {p} : pc'[q] = pc[q] /\ run'[q] = run[q]
          BY <2>4 DEF Begin, Connect, Goto, CreditInv, CountsInv, TypeOK
    <3>2. (\A q \in Proc : Aims(q))'
          BY <2>1, <3>1 DEF Aims
    <3>3. ~crowded' => Earned'
          BY <2>2, <2>4, BeginEarns
    <3> QED BY <3>2, <3>3 DEF EarnedInv
  <2>5. CASE UNCHANGED vars \/ \E route \in Route : ChangeTools(route)
    <3>1. UNCHANGED <<patterns, schema, legacy, pc, run, told, disturbed>>
          BY <2>5 DEF vars, store, history, ChangeTools
    <3>2. (\A q \in Proc : Aims(q))'
          BY <2>1, <3>1 DEF Aims
    <3>3. ~crowded' => Earned'
          BY <2>2, <3>1, ElsewhereEarns
    <3> QED BY <3>2, <3>3 DEF EarnedInv
  <2> QED BY <2>3, <2>4, <2>5 DEF Next
<1> QED BY <1>1, InitEarns, CreditInvariant, PTL DEF Spec

\* What a row counts of an intent is among what is known of its rows; once nobody is
\* to count an outcome and the intent was not disturbed, it is all of it.
LEMMA TotalIsKnown ==
    ASSUME CreditInv, EarnedInv, schema = "new", ~crowded, NEW i \in Intent, NEW ok \in BOOLEAN
    PROVE  /\ Total(i, ok) <= Score(told[i], ok)
           /\ \/ legacy # NoTable \/ i \in disturbed
              \/ \E p \in Proc : Counting(p) /\ run[p].job.intent = i
              \/ Total(i, ok) = Score(told[i], ok)
<1>1. Tally(i, ok) /\ Sole /\ CountsInv
      BY DEF EarnedInv, Earned, CreditInv
<1>2. \A x : x \in Outcomes(i, ok) <=>
               \E k \in Key : \E n \in Nat \ {0} :
                  x = <<k, n>> /\ k.intent = i /\ n <= ScoreAt(patterns[k], ok)
  <2>1. ASSUME NEW k \in Key PROVE ScoreAt(patterns[k], ok) \in Nat
        BY <1>1, TallyTyped
  <2>2. ASSUME NEW k \in Key, patterns[k] # NoRow
        PROVE  Score(patterns[k], ok) = ScoreAt(patterns[k], ok)
        BY <2>2 DEF ScoreAt
  <2>3. ASSUME NEW k \in Key, patterns[k] = NoRow
        PROVE  ScoreAt(patterns[k], ok) = 0
        BY <2>3 DEF ScoreAt
  <2>4. ASSUME NEW x, NEW k \in RowsOf(i), x \in {k} \X (1 .. Score(patterns[k], ok))
        PROVE  \E l \in Key : \E n \in Nat \ {0} :
                  x = <<l, n>> /\ l.intent = i /\ n <= ScoreAt(patterns[l], ok)
    <3>1. k \in Key /\ k.intent = i /\ Score(patterns[k], ok) = ScoreAt(patterns[k], ok)
          BY <2>2 DEF RowsOf
    <3>2. PICK n \in 1 .. Score(patterns[k], ok) : x = <<k, n>>
          BY <2>4
    <3>3. n \in Nat \ {0} /\ n <= ScoreAt(patterns[k], ok)
          BY <2>1, <3>1, <3>2
    <3> QED BY <3>1, <3>2, <3>3
  <2>5. ASSUME NEW k \in Key, NEW n \in Nat \ {0}, k.intent = i, n <= ScoreAt(patterns[k], ok)
        PROVE  k \in RowsOf(i) /\ <<k, n>> \in {k} \X (1 .. Score(patterns[k], ok))
    <3>1. patterns[k] # NoRow
          BY <2>3, <2>5
    <3>2. n \in 1 .. Score(patterns[k], ok)
          BY <2>1, <2>2, <2>5, <3>1
    <3> QED BY <2>5, <3>1, <3>2 DEF RowsOf
  <2> QED BY <2>4, <2>5 DEF Outcomes
<1>3. Outcomes(i, ok) \subseteq Seen(i, ok)
      BY <1>2 DEF Seen, Known
<1>4. i \notin disturbed => Outcomes(i, ok) = Seen(i, ok)
  <2>1. ASSUME i \notin disturbed, NEW k \in Key, NEW n \in Nat \ {0}, k.intent = i, Known(k, n, ok)
        PROVE  n <= ScoreAt(patterns[k], ok)
        BY <1>1, <2>1, SeenIsWritten
  <2> QED BY <1>2, <1>3, <2>1 DEF Seen
<1>5. /\ IsFiniteSet(Outcomes(i, ok))
      /\ Cardinality(Outcomes(i, ok)) <= Cardinality(Seen(i, ok))
      BY <1>1, <1>3, FS_Subset DEF Tally
<1>6. /\ Cardinality(Outcomes(i, ok)) \in Nat /\ Cardinality(Seen(i, ok)) \in Nat
      /\ Cardinality(Owed(i, ok)) \in Nat /\ Score(told[i], ok) \in Nat
      BY <1>1, <1>5, FS_CardinalityType, TallyTyped DEF Tally
<1>7. Total(i, ok) <= Score(told[i], ok)
      BY <1>1, <1>5, <1>6 DEF Tally, Total
<1>8. ASSUME legacy = NoTable, i \notin disturbed,
             ~ \E p \in Proc : Counting(p) /\ run[p].job.intent = i
      PROVE  Total(i, ok) = Score(told[i], ok)
  <2>1. Owed(i, ok) = {}
        BY <1>8 DEF Owed
  <2>2. Cardinality(Seen(i, ok)) + Cardinality(Owed(i, ok)) = Score(told[i], ok)
        BY <1>1, <1>8 DEF Tally
  <2> QED BY <1>4, <1>6, <1>8, <2>1, <2>2, FS_EmptySet DEF Total
<1> QED BY <1>7, <1>8

\* note_route_outcome reads in one statement and writes in another.  Still, for any
\* number of runs and processes, whatever raises or is killed, and unless runs met a
\* migration: the rows of an intent count no outcome that was not met, and lose none
\* but where two runs read a row at once or one was cut off.
THEOREM CountsAlwaysEarned == Spec => []CountsAreEarned
<1>1. CreditInv /\ EarnedInv => CountsAreEarned
  <2> SUFFICES ASSUME CreditInv, EarnedInv PROVE CountsAreEarned
      OBVIOUS
  <2>1. CountsAddUp
        BY DEF CreditInv, CountsInv
  <2> QED BY <2>1, TotalIsKnown DEF CountsAreEarned
<1> QED BY <1>1, CreditInvariant, EarnedInvariant, PTL
===========================================================================
