------------------------------ MODULE AppleEvents ------------------------------
(***************************************************************************)
(* agent-appleevents (src/tools/agent-appleevents/appleevents_ops.py).     *)
(* Every command is a process.  It resolves an application to what its     *)
(* Info.plist says at that moment, then reads its scripting dictionary,    *)
(* from two cache files named by bundle and version or from the program    *)
(* sdef, or compiles a script and runs it.  Meanwhile applications are     *)
(* updated, started and quit, and commands share the cache.                *)
(***************************************************************************)
EXTENDS Integers, Sequences, SequencesExt

CONSTANTS
    Proc, App,
    Asked,          \* bound: [Proc -> the commands it may be given]
    MaxVersion,     \* bound: versions of an application
    MaxRuns,        \* bound: commands
    MaxMoves,       \* bound: what happens to applications by themselves
    None

VARIABLES
    version,    \* [App -> the version that is installed]; it only grows
    running,    \* the applications that run
    xml,        \* [Keys -> the dictionary in <id>.sdef.xml], Gone or Torn
    parsed,     \* [Keys -> the dictionary in <id>.parsed.json], Gone or Torn
    proc,
    alive,      \* history: [Proc -> the applications that ran since it started]
    answers,    \* history: a command's application when it started and its answer
    launched,   \* history: what scripts launched
    runs, moves

scriptVars == <<version, running, xml, parsed, proc, alive, answers, launched, runs, moves>>

Gone == -1
Torn == 0           \* truncated, and not yet written
Version == 1..MaxVersion
Keys == App \X Version
Idle == [at |-> "idle"]

Dictionaries == {"probe", "terms", "dictionary", "dictionary raw"}
Scripts == {"permissions", "tell", "run"}

TypeOK ==
    /\ version \in [App -> Version] /\ running \subseteq App
    /\ xml \in [Keys -> {Gone, Torn} \cup Version] /\ parsed \in [Keys -> {Gone, Torn} \cup Version]
    /\ alive \in [Proc -> SUBSET App]

Init ==
    /\ version = [a \in App |-> 1] /\ running \in SUBSET App
    /\ xml = [k \in Keys |-> Gone] /\ parsed = xml
    /\ proc = [p \in Proc |-> Idle] /\ alive = [p \in Proc |-> {}]
    /\ answers = {} /\ launched = {} /\ runs = 0 /\ moves = 0

-----------------------------------------------------------------------------
At(p, at) == proc[p].at = at
Op(p) == proc[p].cmd.op
Cmd(p) == proc[p].cmd
Becomes(p, r) == proc' = [proc EXCEPT ![p] = r]
Finish(p) == Becomes(p, Idle)
Goes(p, at) == Becomes(p, [proc[p] EXCEPT !.at = at])
Cache == <<xml, parsed>>
Outside == <<version, moves>>
Quiet == UNCHANGED <<Outside, running, alive, answers, launched, runs>>

\* safe_cache_id: bundle and version; cache_files: the two names.
KeyOfBundle(p) == <<Cmd(p).app, 1>>         \* a mutant
Key(p) == <<Cmd(p).app, proc[p].meta>>

\* handle_command: permissions, run and tell are refused without a lease.
Start(p, c) ==
    /\ At(p, "idle") /\ runs < MaxRuns /\ runs' = runs + 1
    /\ \/ Becomes(p, [at |-> "resolve", cmd |-> c, meta |-> None, got |-> None,
                      again |-> FALSE, todo |-> <<>>,
                      was |-> IF c.app = None THEN None ELSE version[c.app]])
       \/ c.op \in Scripts /\ UNCHANGED proc
    /\ alive' = [alive EXCEPT ![p] = running]
    /\ UNCHANGED <<Outside, running, Cache, answers, launched>>

\* apps, cache status and compile read, or write files of their own.
Show(p) ==
    /\ At(p, "resolve") /\ Op(p) \in {"apps", "cache status", "compile"}
    /\ Finish(p) /\ Quiet /\ UNCHANGED Cache

\* resolve_app, app_metadata: what Info.plist says now; a name may be unknown to
\* the index of the system, and so to the command.
Resolve(p) ==
    /\ At(p, "resolve") /\ Cmd(p).app # None
    /\ \/ Becomes(p, [proc[p] EXCEPT !.meta = version[Cmd(p).app],
             !.at = CASE Op(p) \in Dictionaries -> "lookup"
                      [] Op(p) = "cache clear" -> "paths"
                      [] OTHER -> IF Cmd(p).launch THEN "compile" ELSE "check"])
       \/ Finish(p)
    /\ Quiet /\ UNCHANGED Cache

\* sdef_for_app: both files, and no --refresh.
Lookup(p) ==
    /\ At(p, "lookup")
    /\ Goes(p, IF ~Cmd(p).refresh /\ xml[Key(p)] # Gone /\ parsed[Key(p)] # Gone
               THEN "parsed" ELSE "sdef")
    /\ Quiet /\ UNCHANGED Cache
\* What is no JSON, or is gone by now, is no answer.
ReadParsed(p) ==
    /\ At(p, "parsed")
    /\ Becomes(p, IF parsed[Key(p)] \in {Gone, Torn} THEN [proc[p] EXCEPT !.at = "sdef"]
                  ELSE [proc[p] EXCEPT !.at = "xml", !.got = parsed[Key(p)]])
    /\ Quiet /\ UNCHANGED Cache
ReadXml(p) ==
    /\ At(p, "xml")
    /\ Goes(p, IF xml[Key(p)] = Gone THEN "sdef" ELSE "answer")
    /\ Quiet /\ UNCHANGED Cache

\* The program reads the dictionary of what is installed by now; it may fail, and
\* so may the parser.
Sdef(p) ==
    /\ At(p, "sdef")
    /\ Finish(p) \/ Becomes(p, [proc[p] EXCEPT !.at = "xml tear", !.got = version[Cmd(p).app]])
    /\ Quiet /\ UNCHANGED Cache
\* Both files are truncated and then written, the xml first.
TearXml(p) ==
    /\ At(p, "xml tear")
    /\ xml' = [xml EXCEPT ![Key(p)] = Torn] /\ Goes(p, "xml write")
    /\ Quiet /\ UNCHANGED parsed
WriteXml(p) ==
    /\ At(p, "xml write")
    /\ xml' = [xml EXCEPT ![Key(p)] = proc[p].got] /\ Goes(p, "parsed tear")
    /\ Quiet /\ UNCHANGED parsed
TearParsed(p) ==
    /\ At(p, "parsed tear")
    /\ parsed' = [parsed EXCEPT ![Key(p)] = Torn] /\ Goes(p, "parsed write")
    /\ Quiet /\ UNCHANGED xml
WriteParsed(p) ==
    /\ At(p, "parsed write")
    /\ parsed' = [parsed EXCEPT ![Key(p)] = proc[p].got] /\ Goes(p, "answer")
    /\ Quiet /\ UNCHANGED xml

\* dictionary_payload, probe, terms; dictionary --format raw resolves and looks
\* once more before it prints.
Answer(p) ==
    /\ At(p, "answer")
    /\ IF Op(p) = "dictionary raw" /\ ~proc[p].again
       THEN Becomes(p, [proc[p] EXCEPT !.at = "resolve", !.again = TRUE]) /\ UNCHANGED answers
       ELSE Finish(p) /\ answers' = answers \cup {<<proc[p].was, proc[p].got>>}
    /\ UNCHANGED <<Outside, running, Cache, alive, launched, runs>>

\* is_app_running: an executable that Info.plist does not name is not running.
\* permissions checks, and execute_script resolves and checks again.
CheckUnlessProbe(p) ==      \* a mutant
    /\ At(p, "check")
    /\ IF Cmd(p).app \in running \/ Op(p) = "permissions" THEN Goes(p, "compile") ELSE Finish(p)
    /\ Quiet /\ UNCHANGED Cache
Check(p) ==
    /\ At(p, "check")
    /\ \/ /\ Cmd(p).app \in running
          /\ IF Op(p) = "permissions" /\ ~proc[p].again
             THEN Becomes(p, [proc[p] EXCEPT !.at = "resolve", !.again = TRUE])
             ELSE Goes(p, "compile")
       \/ Finish(p)
    /\ Quiet /\ UNCHANGED Cache

\* compile_source: run without --target comes here at once.
Compile(p) ==
    /\ At(p, "compile") \/ (At(p, "resolve") /\ Op(p) = "run" /\ Cmd(p).app = None)
    /\ Goes(p, "send") \/ Finish(p)
    /\ Quiet /\ UNCHANGED Cache

\* osascript: the application a script addresses is launched when it does not run.
\* tell and permissions wrap the script for their target; run sends what it is
\* given, to any application.
Addressed(p) == IF Op(p) = "run" THEN App \cup {None} ELSE {Cmd(p).app}
Send(p) ==
    /\ At(p, "send")
    /\ \E a \in Addressed(p) :
         IF a = None \/ a \in running THEN UNCHANGED <<running, alive, launched>>
         ELSE /\ running' = running \cup {a}
              /\ alive' = [q \in Proc |-> alive[q] \cup {a}]
              /\ launched' = launched \cup {[asked |-> Cmd(p).launch, target |-> a = Cmd(p).app,
                                             ran |-> a \in alive[p]]}
    /\ Finish(p) /\ UNCHANGED <<Outside, Cache, answers, runs>>

\* cache_clear: the two files of an application, or all there are, sorted by name.
There(f) == (IF f.kind = "xml" THEN xml[f.key] ELSE parsed[f.key]) # Gone
ByName(f, g) == \/ f.key[2] < g.key[2]
                \/ f.key = g.key /\ f.kind = "parsed" /\ g.kind = "xml"
Paths(p) ==
    /\ \/ At(p, "paths") /\ Becomes(p, [proc[p] EXCEPT !.at = "clear", !.todo =
            <<[kind |-> "xml", key |-> Key(p)], [kind |-> "parsed", key |-> Key(p)]>>])
       \/ At(p, "resolve") /\ Op(p) = "cache clear" /\ Cmd(p).app = None
          /\ Becomes(p, [proc[p] EXCEPT !.at = "clear", !.todo = SetToSortSeq(
                {f \in [kind : {"parsed", "xml"}, key : Keys] : There(f)}, ByName)])
    /\ Quiet /\ UNCHANGED Cache
Clear(p) ==
    /\ At(p, "clear")
    /\ IF proc[p].todo = <<>> THEN Finish(p)
       ELSE Becomes(p, IF There(Head(proc[p].todo)) THEN [proc[p] EXCEPT !.at = "unlink"]
                       ELSE [proc[p] EXCEPT !.todo = Tail(@)])
    /\ Quiet /\ UNCHANGED Cache
\* A file that another command removed in between ends the command.
Unlink(p) ==
    /\ At(p, "unlink")
    /\ LET f == Head(proc[p].todo) IN
       IF ~There(f) THEN Finish(p) /\ UNCHANGED Cache
       ELSE /\ Becomes(p, [proc[p] EXCEPT !.at = "clear", !.todo = Tail(@)])
            /\ IF f.kind = "xml" THEN xml' = [xml EXCEPT ![f.key] = Gone] /\ UNCHANGED parsed
               ELSE parsed' = [parsed EXCEPT ![f.key] = Gone] /\ UNCHANGED xml
    /\ Quiet

Kill(p) ==
    /\ ~At(p, "idle")
    /\ Finish(p) /\ Quiet /\ UNCHANGED Cache

\* An application is started, quits, or is updated.
Elsewhere ==
    /\ moves < MaxMoves /\ moves' = moves + 1
    /\ \E a \in App :
       \/ /\ a \notin running /\ running' = running \cup {a}
          /\ alive' = [q \in Proc |-> alive[q] \cup {a}] /\ UNCHANGED version
       \/ a \in running /\ running' = running \ {a} /\ UNCHANGED <<alive, version>>
       \/ version[a] < MaxVersion /\ version' = [version EXCEPT ![a] = @ + 1]
          /\ UNCHANGED <<running, alive>>
    /\ UNCHANGED <<Cache, proc, answers, launched, runs>>

Next ==
    \/ Elsewhere
    \/ \E p \in Proc :
        \/ \E c \in Asked[p] : Start(p, c)
        \/ Show(p) \/ Resolve(p) \/ Lookup(p) \/ ReadParsed(p) \/ ReadXml(p) \/ Sdef(p)
        \/ TearXml(p) \/ WriteXml(p) \/ TearParsed(p) \/ WriteParsed(p) \/ Answer(p)
        \/ Check(p) \/ Compile(p) \/ Send(p) \/ Paths(p) \/ Clear(p) \/ Unlink(p) \/ Kill(p)

-----------------------------------------------------------------------------
\* A dictionary that is printed is that of the version installed when the command
\* started or of a later one, whoever filled the cache, cleared it or was killed
\* while writing it (appleevents_ops.py:371).
AnswersAreCurrent == \A x \in answers : x[2] >= x[1]

\* Without --launch a command launches no application it was given that has not
\* run since the command started, though the check is long over when the script
\* runs (appleevents_ops.py:693).  It may launch one that quit in between, and
\* run may launch any other.
LaunchesAreAsked == \A x \in launched : x.target /\ ~x.asked => x.ran

=============================================================================
