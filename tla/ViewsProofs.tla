----------------------------- MODULE ViewsProofs -----------------------------
(***************************************************************************)
(* Theorems about the tools of Views, for any values of the constants.     *)
(* Each tool has an inductive invariant of its own, which is void while    *)
(* another is picked; what is hoped of the tool follows from it.           *)
(***************************************************************************)
EXTENDS Views, FiniteSetTheorems, WellFoundedInduction, TLAPS

-----------------------------------------------------------------------------
(* The picked tool makes the step.                                         *)

LEMMA ViewsDo ==
    ASSUME [ViewsNext]_viewsVars
    PROVE  /\ tool' = tool
           /\ tool = "appleevents" => Ae!Next \/ UNCHANGED aeState
           /\ tool = "macos" => Ui!Next \/ UNCHANGED uiState
           /\ tool = "email" => Em!Next \/ UNCHANGED emState
           /\ tool = "vision" => Vs!Next \/ UNCHANGED vsState
           /\ tool = "notion" => Nt!Next \/ UNCHANGED ntState
           /\ tool = "vault" => Vi!Next \/ UNCHANGED viState
           /\ tool = "screen" => Sc!Next \/ UNCHANGED scVars
BY DEF ViewsNext, viewsVars, toolsVars

\* A set of numbers that is not empty has a least one.
LEMMA LeastElement ==
    ASSUME NEW S \in SUBSET Nat, S # {}
    PROVE  \E i \in S : \A j \in S : i <= j
<1>1. PICK i \in S : \A j \in S : <<j, i>> \notin OpToRel(<, Nat)
    BY NatLessThanWellFounded, WFMin
<1>2. \A j \in S : ~(j < i) BY <1>1 DEF OpToRel
<1>3. QED BY <1>2

-----------------------------------------------------------------------------
(* agent-appleevents.                                                      *)

AeDomain == {"at", "cmd", "meta", "got", "again", "todo", "was"}
AePlaces == {"resolve", "lookup", "parsed", "xml", "sdef", "xml tear", "xml write",
             "parsed tear", "parsed write", "answer", "check", "compile", "send", "paths",
             "clear", "unlink"}
AeGot == {"xml", "xml tear", "xml write", "parsed tear", "parsed write", "answer"}
AeLooked == AeGot \cup {"lookup", "parsed", "sdef"}

\* A command: it looks for a dictionary of the version it resolved, which is not
\* older than the one there was when it started, and what it got is not older
\* than that; without --launch it compiles only for what it saw running.
AeOk(r, version, alive) ==
    /\ DOMAIN r = AeDomain /\ r.at \in AePlaces
    /\ r.cmd.app \in App \cup {None} /\ r.cmd.launch \in BOOLEAN
    /\ r.cmd.app # None => r.was \in Nat /\ r.was <= version[r.cmd.app]
    /\ r.at \in AeLooked => /\ r.cmd.app # None
                            /\ r.meta \in Ae!Version
                            /\ r.was <= r.meta /\ r.meta <= version[r.cmd.app]
    /\ r.at \in AeGot => r.got \in Nat /\ r.meta <= r.got
    /\ r.at \in {"compile", "send"} /\ r.cmd.app # None /\ ~r.cmd.launch
        => r.cmd.app \in alive

\* A file of the cache holds no dictionary that is older than its name says.
AeFiles(files) ==
    /\ DOMAIN files = Ae!Keys
    /\ \A k \in Ae!Keys : files[k] \in {Ae!Gone, Ae!Torn} \/ (files[k] \in Nat /\ k[2] <= files[k])

AeInv ==
    /\ aeVersion \in [App -> Ae!Version] /\ aeAlive \in [Proc -> SUBSET App]
    /\ aeRunning \subseteq App
    /\ AeFiles(aeXml) /\ AeFiles(aeParsed)
    /\ DOMAIN aeProc = Proc
    /\ \A p \in Proc : \/ aeProc[p] = Ae!Idle
                       \/ /\ AeOk(aeProc[p], aeVersion, aeAlive[p])
                          /\ aeRunning \subseteq aeAlive[p]
    /\ \A x \in aeAnswers : x[1] \in Nat /\ x[2] \in Nat /\ x[1] <= x[2]
    /\ Ae!LaunchesAreAsked

LEMMA AeConstants == None \notin App /\ MaxVersion \in Nat \ {0}
BY AppAssumption

LEMMA AeCommands ==
    ASSUME NEW p \in Proc, NEW c \in AeAsked[p]
    PROVE  c.app \in App \cup {None} /\ c.launch \in BOOLEAN
<1> DEFINE Ops == Ae!Dictionaries \cup Ae!Scripts \cup {"apps", "cache status", "cache clear", "compile"}
           C == [op : Ops, app : App \cup {None}, launch : BOOLEAN, refresh : BOOLEAN]
<1>1. AeAsked \in [Proc -> SUBSET C] BY AppAssumption
<1> HIDE DEF Ops
<1>2. c \in C
    <2> HIDE DEF C
    <2>1. QED BY <1>1
<1>3. QED BY <1>2

\* A step of the commands of S, in a world that only moves on.
AeMoved(S) ==
    /\ DOMAIN aeProc' = Proc
    /\ \A q \in Proc \cap S : \/ aeProc'[q] = Ae!Idle
                            \/ /\ AeOk(aeProc'[q], aeVersion', aeAlive'[q])
                               /\ aeRunning' \subseteq aeAlive'[q]
    /\ \A q \in Proc \ S : /\ aeProc'[q] = aeProc[q] /\ aeAlive[q] \subseteq aeAlive'[q]
                          /\ (aeRunning \subseteq aeAlive[q] => aeRunning' \subseteq aeAlive'[q])
    /\ aeVersion' \in [App -> Ae!Version] /\ \A a \in App : aeVersion[a] <= aeVersion'[a]
    /\ aeAlive' \in [Proc -> SUBSET App] /\ aeRunning' \subseteq App
    /\ \A x \in aeAnswers' : x[1] \in Nat /\ x[2] \in Nat /\ x[1] <= x[2]
LEMMA AeStep ==
    ASSUME AeInv, NEW S, AeMoved(S),
           AeFiles(aeXml)', AeFiles(aeParsed)', Ae!LaunchesAreAsked'
    PROVE  AeInv'
<1>1. ASSUME NEW q \in Proc \ S, aeProc[q] # Ae!Idle
      PROVE  AeOk(aeProc[q], aeVersion', aeAlive'[q]) /\ aeRunning' \subseteq aeAlive'[q]
    <2>1. AeOk(aeProc[q], aeVersion, aeAlive[q]) /\ aeRunning \subseteq aeAlive[q]
        BY <1>1 DEF AeInv
    <2>2. aeAlive[q] \subseteq aeAlive'[q] /\ aeRunning' \subseteq aeAlive'[q]
        BY <1>1, <2>1 DEF AeMoved
    <2>3. \A a \in App : aeVersion[a] \in Nat /\ aeVersion'[a] \in Nat
        BY AeConstants DEF AeInv, AeMoved, Ae!Version
    <2>9. \A a \in App : aeVersion[a] <= aeVersion'[a] BY DEF AeMoved
    <2>4. AeOk(aeProc[q], aeVersion', aeAlive'[q])
        BY <2>9, <2>1, <2>2, <2>3, AeConstants DEF AeOk, Ae!Version
    <2>5. QED BY <2>2, <2>4
<1>2. ASSUME NEW q \in Proc
      PROVE  \/ aeProc'[q] = Ae!Idle
             \/ AeOk(aeProc'[q], aeVersion', aeAlive'[q]) /\ aeRunning' \subseteq aeAlive'[q]
    <2>1. CASE q \in S BY <2>1 DEF AeMoved
    <2>2. CASE q \notin S
        <3>1. aeProc'[q] = aeProc[q] BY <2>2 DEF AeMoved
        <3>2. CASE aeProc[q] = Ae!Idle BY <3>1, <3>2
        <3>3. CASE aeProc[q] # Ae!Idle BY <1>1, <2>2, <3>1, <3>3
        <3>4. QED BY <3>2, <3>3
    <2>3. QED BY <2>1, <2>2
<1>3. (\A q \in Proc : \/ aeProc[q] = Ae!Idle
                       \/ /\ AeOk(aeProc[q], aeVersion, aeAlive[q])
                          /\ aeRunning \subseteq aeAlive[q])'
    BY <1>2 DEF AeOk, Ae!Idle, AeDomain, AePlaces, AeGot, AeLooked, Ae!Version
<1>4. (aeVersion \in [App -> Ae!Version])' BY DEF AeMoved, Ae!Version
<1>5. /\ DOMAIN aeProc' = Proc /\ (aeAlive \in [Proc -> SUBSET App])' /\ (aeRunning \subseteq App)'
      /\ (\A x \in aeAnswers : x[1] \in Nat /\ x[2] \in Nat /\ x[1] <= x[2])'
    BY DEF AeMoved
<1>6. QED BY <1>3, <1>4, <1>5 DEF AeInv

\* A step of one command in a world that stands still.
LEMMA AeStill ==
    ASSUME AeInv, NEW p \in Proc, NEW r, Ae!Becomes(p, r),
           r = Ae!Idle \/ (AeOk(r, aeVersion, aeAlive[p]) /\ aeRunning \subseteq aeAlive[p]),
           UNCHANGED <<aeVersion, aeRunning, aeAlive, aeLaunched>>,
           AeFiles(aeXml)', AeFiles(aeParsed)',
           \A x \in aeAnswers' : x[1] \in Nat /\ x[2] \in Nat /\ x[1] <= x[2]
    PROVE  AeInv'
<1>1. \A a \in App : aeVersion[a] <= aeVersion'[a]
    <2>1. ASSUME NEW a \in App PROVE aeVersion[a] <= aeVersion'[a]
        <3>1. aeVersion[a] \in Nat /\ aeVersion'[a] = aeVersion[a]
            BY AeConstants DEF AeInv, Ae!Version
        <3>2. QED BY <3>1
    <2>2. QED BY <2>1
<1>2. /\ aeVersion' \in [App -> Ae!Version] /\ aeAlive' \in [Proc -> SUBSET App]
      /\ aeRunning' \subseteq App
      /\ aeVersion' = aeVersion /\ aeAlive' = aeAlive /\ aeRunning' = aeRunning
    BY DEF AeInv, Ae!Version
<1>3. /\ DOMAIN aeProc' = Proc /\ aeProc'[p] = r
      /\ \A q \in Proc \ {p} : aeProc'[q] = aeProc[q]
    BY DEF AeInv, Ae!Becomes
<1>4. \/ aeProc'[p] = Ae!Idle
      \/ AeOk(aeProc'[p], aeVersion', aeAlive'[p]) /\ aeRunning' \subseteq aeAlive'[p]
    BY <1>2, <1>3
<1>5. \A q \in Proc \cap {p} : \/ aeProc'[q] = Ae!Idle
                               \/ /\ AeOk(aeProc'[q], aeVersion', aeAlive'[q])
                                  /\ aeRunning' \subseteq aeAlive'[q]
    BY <1>4
<1>6. \A q \in Proc \ {p} : /\ aeProc'[q] = aeProc[q] /\ aeAlive[q] \subseteq aeAlive'[q]
                            /\ (aeRunning \subseteq aeAlive[q] => aeRunning' \subseteq aeAlive'[q])
    BY <1>2, <1>3
<1>7. Ae!LaunchesAreAsked' BY DEF AeInv, Ae!LaunchesAreAsked
<1>8. AeMoved({p}) BY <1>1, <1>2, <1>3, <1>5, <1>6 DEF AeMoved
<1>9. QED BY <1>7, <1>8, AeStep

\* The files survive where nobody writes.
LEMMA AeFilesStay ==
    ASSUME AeInv, UNCHANGED <<aeXml, aeParsed>>
    PROVE  AeFiles(aeXml)' /\ AeFiles(aeParsed)'
BY DEF AeInv, AeFiles, Ae!Keys, Ae!Gone, Ae!Torn, Ae!Version

LEMMA AeAt ==
    ASSUME AeInv, NEW p \in Proc, aeProc[p].at # "idle"
    PROVE  AeOk(aeProc[p], aeVersion, aeAlive[p]) /\ aeRunning \subseteq aeAlive[p]
BY DEF AeInv, Ae!Idle

\* The key of a command that looks is one of the cache.
LEMMA AeKey ==
    ASSUME NEW p \in Proc, NEW v, NEW l, AeOk(aeProc[p], v, l), aeProc[p].at \in AeLooked
    PROVE  Ae!Key(p) \in Ae!Keys /\ Ae!Key(p)[2] = aeProc[p].meta
BY DEF AeOk, Ae!Key, Ae!Keys, Ae!Cmd

\* What a step that only changes the place of a command may do.
LEMMA AeGoes ==
    ASSUME AeInv, NEW p \in Proc, aeProc[p].at # "idle", NEW at, Ae!Goes(p, at),
           at \in AePlaces,
           at \in AeLooked => aeProc[p].at \in AeLooked,
           at \in AeGot => aeProc[p].at \in AeGot,
           at \in {"compile", "send"} /\ aeProc[p].cmd.app # None /\ ~aeProc[p].cmd.launch
                => aeProc[p].cmd.app \in aeAlive[p]
    PROVE  \E r : Ae!Becomes(p, r) /\ AeOk(r, aeVersion, aeAlive[p]) /\ aeRunning \subseteq aeAlive[p]
<1>1. AeOk(aeProc[p], aeVersion, aeAlive[p]) /\ aeRunning \subseteq aeAlive[p] BY AeAt
<1> DEFINE r == [aeProc[p] EXCEPT !.at = at]
<1>2. /\ DOMAIN r = AeDomain /\ r.at = at /\ r.cmd = aeProc[p].cmd /\ r.meta = aeProc[p].meta
      /\ r.got = aeProc[p].got /\ r.was = aeProc[p].was
    BY <1>1 DEF AeOk, AeDomain
<1>3. Ae!Becomes(p, r) BY DEF Ae!Goes
<1> HIDE DEF r
<1>4. AeOk(r, aeVersion, aeAlive[p]) BY <1>1, <1>2 DEF AeOk
<1>5. QED BY <1>1, <1>3, <1>4

AeQuiet == UNCHANGED <<aeVersion, aeRunning, aeAlive, aeLaunched>>

\* A command ends, is shown something, or only goes on.
LEMMA AeEnds ==
    ASSUME AeInv, NEW p \in Proc, Ae!Finish(p), AeQuiet, UNCHANGED <<aeXml, aeParsed, aeAnswers>>
    PROVE  AeInv'
<1>1. Ae!Becomes(p, Ae!Idle) BY DEF Ae!Finish
<1>2. AeFiles(aeXml)' /\ AeFiles(aeParsed)' BY AeFilesStay
<1>3. \A x \in aeAnswers' : x[1] \in Nat /\ x[2] \in Nat /\ x[1] <= x[2] BY DEF AeInv
<1>4. QED BY <1>1, <1>2, <1>3, AeStill DEF AeQuiet

LEMMA AeTurns ==
    ASSUME AeInv, NEW p \in Proc, NEW r, Ae!Becomes(p, r), AeOk(r, aeVersion, aeAlive[p]),
           aeProc[p].at # "idle", AeQuiet, UNCHANGED <<aeXml, aeParsed, aeAnswers>>
    PROVE  AeInv'
<1>1. aeRunning \subseteq aeAlive[p] BY AeAt
<1>2. AeFiles(aeXml)' /\ AeFiles(aeParsed)' BY AeFilesStay
<1>3. \A x \in aeAnswers' : x[1] \in Nat /\ x[2] \in Nat /\ x[1] <= x[2] BY DEF AeInv
<1>4. QED BY <1>1, <1>2, <1>3, AeStill DEF AeQuiet

LEMMA AeResolves ==
    ASSUME AeInv, NEW p \in Proc, Ae!Resolve(p)
    PROVE  AeInv'
<1>1. /\ aeProc[p].at = "resolve" /\ aeProc[p].cmd.app # None
      /\ AeQuiet /\ UNCHANGED <<aeXml, aeParsed, aeAnswers>>
    BY DEF Ae!Resolve, Ae!At, Ae!Cmd, AeQuiet, Ae!Quiet, Ae!Outside, Ae!Cache
<1>2. AeOk(aeProc[p], aeVersion, aeAlive[p]) BY <1>1, AeAt
<1>3. CASE Ae!Finish(p) BY <1>1, <1>3, AeEnds
<1>4. ASSUME NEW at, at \in {"lookup", "paths", "compile", "check"},
             at = "compile" => aeProc[p].cmd.launch,
             Ae!Becomes(p, [aeProc[p] EXCEPT !.meta = aeVersion[aeProc[p].cmd.app], !.at = at])
      PROVE  AeInv'
    <2> DEFINE r == [aeProc[p] EXCEPT !.meta = aeVersion[aeProc[p].cmd.app], !.at = at]
    <2>1. /\ DOMAIN r = AeDomain /\ r.at = at /\ r.cmd = aeProc[p].cmd /\ r.was = aeProc[p].was
          /\ r.meta = aeVersion[aeProc[p].cmd.app]
        BY <1>2 DEF AeOk, AeDomain
    <2>2. aeProc[p].cmd.app \in App /\ aeVersion[aeProc[p].cmd.app] \in Ae!Version
        BY <1>1, <1>2 DEF AeInv, AeOk
    <2>3. Ae!Becomes(p, r) BY <1>4
    <2> HIDE DEF r
    <2>4. AeOk(r, aeVersion, aeAlive[p])
        <3>1. /\ r.at \in AePlaces /\ r.at \notin AeGot /\ r.at # "send"
              /\ r.at = "compile" => r.cmd.launch
            BY <1>4, <2>1 DEF AePlaces, AeGot
        <3>2. r.meta \in Ae!Version /\ r.was <= r.meta /\ r.meta <= aeVersion[r.cmd.app]
            BY <1>1, <1>2, <2>1, <2>2, AeConstants DEF AeOk, Ae!Version
        <3>3. QED BY <1>1, <1>2, <2>1, <3>1, <3>2 DEF AeOk
    <2>5. QED BY <1>1, <2>3, <2>4, AeTurns
<1>5. \/ Ae!Finish(p)
      \/ \E at \in {"lookup", "paths", "compile", "check"} :
            /\ at = "compile" => aeProc[p].cmd.launch
            /\ Ae!Becomes(p, [aeProc[p] EXCEPT !.meta = aeVersion[aeProc[p].cmd.app], !.at = at])
    BY DEF Ae!Resolve, Ae!Cmd, Ae!Op
<1>6. QED BY <1>3, <1>4, <1>5

LEMMA AeGoesOn ==
    ASSUME AeInv, NEW p \in Proc, NEW at, Ae!Goes(p, at), aeProc[p].at # "idle",
           AeQuiet, UNCHANGED <<aeXml, aeParsed, aeAnswers>>, at \in AePlaces,
           at \in AeLooked => aeProc[p].at \in AeLooked,
           at \in AeGot => aeProc[p].at \in AeGot,
           at \in {"compile", "send"} /\ aeProc[p].cmd.app # None /\ ~aeProc[p].cmd.launch
                => aeProc[p].cmd.app \in aeAlive[p]
    PROVE  AeInv'
<1>1. PICK r : Ae!Becomes(p, r) /\ AeOk(r, aeVersion, aeAlive[p])
    BY AeGoes
<1>2. QED BY <1>1, AeTurns

LEMMA AeReads ==
    ASSUME AeInv, NEW p \in Proc, Ae!Lookup(p) \/ Ae!ReadParsed(p) \/ Ae!ReadXml(p)
    PROVE  AeInv'
<1>1. /\ aeProc[p].at \in {"lookup", "parsed", "xml"}
      /\ AeQuiet /\ UNCHANGED <<aeXml, aeParsed, aeAnswers>>
    BY DEF Ae!Lookup, Ae!ReadParsed, Ae!ReadXml, Ae!At, AeQuiet, Ae!Quiet, Ae!Outside, Ae!Cache
<1>2. aeProc[p].at # "idle" /\ aeProc[p].at \in AeLooked
    BY <1>1 DEF AeLooked, AeGot
<1>3. AeOk(aeProc[p], aeVersion, aeAlive[p]) BY <1>2, AeAt
<1>4. Ae!Key(p) \in Ae!Keys /\ Ae!Key(p)[2] = aeProc[p].meta BY <1>2, <1>3, AeKey
<1>5. ASSUME NEW at \in {"parsed", "sdef"}, Ae!Goes(p, at)
      PROVE  AeInv'
    BY <1>1, <1>2, <1>5, AeGoesOn DEF AePlaces, AeLooked, AeGot
<1>6. CASE Ae!Lookup(p)
    BY <1>5, <1>6 DEF Ae!Lookup
<1>7. CASE Ae!ReadParsed(p)
    <2>1. CASE aeParsed[Ae!Key(p)] \in {Ae!Gone, Ae!Torn}
        BY <1>5, <1>7, <2>1 DEF Ae!ReadParsed, Ae!Goes
    <2>2. CASE aeParsed[Ae!Key(p)] \notin {Ae!Gone, Ae!Torn}
        <3> DEFINE r == [aeProc[p] EXCEPT !.at = "xml", !.got = aeParsed[Ae!Key(p)]]
        <3>1. /\ DOMAIN r = AeDomain /\ r.at = "xml" /\ r.cmd = aeProc[p].cmd
              /\ r.was = aeProc[p].was /\ r.meta = aeProc[p].meta /\ r.got = aeParsed[Ae!Key(p)]
            BY <1>3 DEF AeOk, AeDomain
        <3>2. Ae!Becomes(p, r) BY <1>7, <2>2 DEF Ae!ReadParsed
        <3> HIDE DEF r
        <3>3. r.got \in Nat /\ r.meta <= r.got
            BY <1>4, <2>2, <3>1 DEF AeInv, AeFiles
        <3>4. AeOk(r, aeVersion, aeAlive[p])
            BY <1>2, <1>3, <3>1, <3>3 DEF AeOk, AePlaces, AeLooked, AeGot
        <3>5. QED BY <1>1, <1>2, <3>2, <3>4, AeTurns
    <2>3. QED BY <2>1, <2>2
<1>8. CASE Ae!ReadXml(p)
    <2>1. CASE Ae!Goes(p, "sdef") BY <1>5, <2>1
    <2>2. CASE Ae!Goes(p, "answer") /\ aeProc[p].at = "xml"
        BY <1>1, <1>2, <2>2, AeGoesOn DEF AePlaces, AeLooked, AeGot
    <2>3. QED BY <1>8, <2>1, <2>2 DEF Ae!ReadXml, Ae!At
<1>9. QED BY <1>6, <1>7, <1>8

LEMMA AeFinds ==
    ASSUME AeInv, NEW p \in Proc, Ae!Sdef(p)
    PROVE  AeInv'
<1>1. /\ aeProc[p].at = "sdef" /\ AeQuiet /\ UNCHANGED <<aeXml, aeParsed, aeAnswers>>
    BY DEF Ae!Sdef, Ae!At, AeQuiet, Ae!Quiet, Ae!Outside, Ae!Cache
<1>2. AeOk(aeProc[p], aeVersion, aeAlive[p]) BY <1>1, AeAt
<1>3. CASE Ae!Finish(p) BY <1>1, <1>3, AeEnds
<1>4. CASE Ae!Becomes(p, [aeProc[p] EXCEPT !.at = "xml tear", !.got = aeVersion[aeProc[p].cmd.app]])
    <2> DEFINE r == [aeProc[p] EXCEPT !.at = "xml tear", !.got = aeVersion[aeProc[p].cmd.app]]
    <2>1. /\ DOMAIN r = AeDomain /\ r.at = "xml tear" /\ r.cmd = aeProc[p].cmd
          /\ r.was = aeProc[p].was /\ r.meta = aeProc[p].meta
          /\ r.got = aeVersion[aeProc[p].cmd.app]
        BY <1>2 DEF AeOk, AeDomain
    <2>2. Ae!Becomes(p, r) BY <1>4
    <2> HIDE DEF r
    <2>3. aeProc[p].cmd.app \in App /\ r.got \in Nat /\ r.meta <= r.got
        <3>1. /\ aeProc[p].cmd.app \in App /\ aeProc[p].meta \in Ae!Version
              /\ aeProc[p].meta <= aeVersion[aeProc[p].cmd.app]
            BY <1>1, <1>2 DEF AeOk, AeLooked
        <3>2. aeVersion[aeProc[p].cmd.app] \in Ae!Version BY <3>1 DEF AeInv
        <3>3. aeVersion[aeProc[p].cmd.app] \in Nat BY <3>2, AeConstants DEF Ae!Version
        <3>4. QED BY <2>1, <3>1, <3>3
    <2>4. AeOk(r, aeVersion, aeAlive[p])
        BY <1>1, <1>2, <2>1, <2>3 DEF AeOk, AePlaces, AeLooked, AeGot
    <2>5. QED BY <1>1, <2>2, <2>4, AeTurns
<1>5. QED BY <1>3, <1>4 DEF Ae!Sdef, Ae!Cmd

LEMMA AeWrites ==
    ASSUME AeInv, NEW p \in Proc,
           Ae!TearXml(p) \/ Ae!WriteXml(p) \/ Ae!TearParsed(p) \/ Ae!WriteParsed(p)
    PROVE  AeInv'
<1>1. /\ aeProc[p].at \in {"xml tear", "xml write", "parsed tear", "parsed write"}
      /\ AeQuiet /\ UNCHANGED aeAnswers
    BY DEF Ae!TearXml, Ae!WriteXml, Ae!TearParsed, Ae!WriteParsed, Ae!At, AeQuiet, Ae!Quiet,
           Ae!Outside, Ae!Cache
<1>2. aeProc[p].at # "idle" /\ aeProc[p].at \in AeLooked /\ aeProc[p].at \in AeGot
    BY <1>1 DEF AeLooked, AeGot
<1>3. AeOk(aeProc[p], aeVersion, aeAlive[p]) /\ aeRunning \subseteq aeAlive[p] BY <1>2, AeAt
<1>4. Ae!Key(p) \in Ae!Keys /\ Ae!Key(p)[2] = aeProc[p].meta BY <1>2, <1>3, AeKey
<1>5. aeProc[p].got \in Nat /\ aeProc[p].meta <= aeProc[p].got BY <1>2, <1>3 DEF AeOk
<1>6. PICK v \in {Ae!Torn, aeProc[p].got}, at \in {"xml write", "parsed tear", "parsed write", "answer"} :
        /\ Ae!Goes(p, at)
        /\ \/ aeXml' = [aeXml EXCEPT ![Ae!Key(p)] = v] /\ aeParsed' = aeParsed
           \/ aeParsed' = [aeParsed EXCEPT ![Ae!Key(p)] = v] /\ aeXml' = aeXml
    BY DEF Ae!TearXml, Ae!WriteXml, Ae!TearParsed, Ae!WriteParsed
<1>7. at \in AePlaces /\ at \notin {"compile", "send"} BY <1>6 DEF AePlaces
<1>8. PICK r : Ae!Becomes(p, r) /\ AeOk(r, aeVersion, aeAlive[p])
    BY <1>2, <1>6, <1>7, AeGoes
<1>9. v = Ae!Torn \/ (v \in Nat /\ Ae!Key(p)[2] <= v) BY <1>4, <1>5, <1>6
<1>10. (\A k \in Ae!Keys : aeXml'[k] \in {Ae!Gone, Ae!Torn} \/ (aeXml'[k] \in Nat /\ k[2] <= aeXml'[k]))
       /\ DOMAIN aeXml' = Ae!Keys
    BY <1>6, <1>9 DEF AeInv, AeFiles
<1>11. (\A k \in Ae!Keys : \/ aeParsed'[k] \in {Ae!Gone, Ae!Torn}
                           \/ (aeParsed'[k] \in Nat /\ k[2] <= aeParsed'[k]))
       /\ DOMAIN aeParsed' = Ae!Keys
    BY <1>6, <1>9 DEF AeInv, AeFiles
<1>12. AeFiles(aeXml)' /\ AeFiles(aeParsed)'
    BY <1>10, <1>11 DEF AeFiles, Ae!Keys, Ae!Gone, Ae!Torn, Ae!Version
<1>13. \A x \in aeAnswers' : x[1] \in Nat /\ x[2] \in Nat /\ x[1] <= x[2] BY <1>1 DEF AeInv
<1>14. QED BY <1>1, <1>3, <1>8, <1>12, <1>13, AeStill DEF AeQuiet

LEMMA AeAgain ==
    ASSUME AeInv, NEW p \in Proc, aeProc[p].at # "idle",
           Ae!Becomes(p, [aeProc[p] EXCEPT !.at = "resolve", !.again = TRUE]),
           AeQuiet, UNCHANGED <<aeXml, aeParsed, aeAnswers>>
    PROVE  AeInv'
<1> DEFINE r == [aeProc[p] EXCEPT !.at = "resolve", !.again = TRUE]
<1>1. AeOk(aeProc[p], aeVersion, aeAlive[p]) BY AeAt
<1>2. /\ DOMAIN r = AeDomain /\ r.at = "resolve" /\ r.cmd = aeProc[p].cmd /\ r.was = aeProc[p].was
    BY <1>1 DEF AeOk, AeDomain
<1>3. Ae!Becomes(p, r) OBVIOUS
<1> HIDE DEF r
<1>4. AeOk(r, aeVersion, aeAlive[p])
    BY <1>1, <1>2 DEF AeOk, AePlaces, AeLooked, AeGot
<1>5. QED BY <1>3, <1>4, AeTurns

LEMMA AeAnswersNow ==
    ASSUME AeInv, NEW p \in Proc, Ae!Answer(p)
    PROVE  AeInv'
<1>1. /\ aeProc[p].at = "answer" /\ AeQuiet /\ UNCHANGED <<aeXml, aeParsed>>
    BY DEF Ae!Answer, Ae!At, AeQuiet, Ae!Outside, Ae!Cache
<1>2. AeOk(aeProc[p], aeVersion, aeAlive[p]) BY <1>1, AeAt
<1>3. CASE Ae!Becomes(p, [aeProc[p] EXCEPT !.at = "resolve", !.again = TRUE]) /\ UNCHANGED aeAnswers
    BY <1>1, <1>3, AeAgain
<1>4. CASE Ae!Finish(p) /\ aeAnswers' = aeAnswers \cup {<<aeProc[p].was, aeProc[p].got>>}
    <2>1. /\ aeProc[p].was \in Nat /\ aeProc[p].got \in Nat /\ aeProc[p].meta \in Nat
          /\ aeProc[p].was <= aeProc[p].meta /\ aeProc[p].meta <= aeProc[p].got
        BY <1>1, <1>2, AeConstants DEF AeOk, AeLooked, AeGot, Ae!Version
    <2>2. aeProc[p].was <= aeProc[p].got BY <2>1
    <2>3. \A x \in aeAnswers' : x[1] \in Nat /\ x[2] \in Nat /\ x[1] <= x[2]
        BY <1>4, <2>1, <2>2 DEF AeInv
    <2>4. Ae!Becomes(p, Ae!Idle) BY <1>4 DEF Ae!Finish
    <2>5. AeFiles(aeXml)' /\ AeFiles(aeParsed)' BY <1>1, AeFilesStay
    <2>6. QED BY <1>1, <2>3, <2>4, <2>5, AeStill DEF AeQuiet
<1>5. QED BY <1>3, <1>4 DEF Ae!Answer

LEMMA AeChecks ==
    ASSUME AeInv, NEW p \in Proc, Ae!Check(p) \/ Ae!Compile(p)
    PROVE  AeInv'
<1>1. /\ aeProc[p].at \in {"check", "compile", "resolve"}
      /\ AeQuiet /\ UNCHANGED <<aeXml, aeParsed, aeAnswers>>
    BY DEF Ae!Check, Ae!Compile, Ae!At, AeQuiet, Ae!Quiet, Ae!Outside, Ae!Cache
<1>2. AeOk(aeProc[p], aeVersion, aeAlive[p]) /\ aeRunning \subseteq aeAlive[p] BY <1>1, AeAt
<1>3. CASE Ae!Finish(p) BY <1>1, <1>3, AeEnds
<1>4. CASE Ae!Becomes(p, [aeProc[p] EXCEPT !.at = "resolve", !.again = TRUE])
    BY <1>1, <1>4, AeAgain
<1>5. CASE aeProc[p].cmd.app \in aeRunning /\ Ae!Goes(p, "compile")
    BY <1>1, <1>2, <1>5, AeGoesOn DEF AePlaces, AeLooked, AeGot
<1>6. CASE Ae!Goes(p, "send") /\ (aeProc[p].at = "compile" \/ aeProc[p].cmd.app = None)
    <2>1. aeProc[p].cmd.app # None /\ ~aeProc[p].cmd.launch => aeProc[p].cmd.app \in aeAlive[p]
        BY <1>2, <1>6 DEF AeOk
    <2>2. QED BY <1>1, <1>6, <2>1, AeGoesOn DEF AePlaces, AeLooked, AeGot
<1>7. QED BY <1>3, <1>4, <1>5, <1>6 DEF Ae!Check, Ae!Compile, Ae!At, Ae!Cmd

LEMMA AeClears ==
    ASSUME AeInv, NEW p \in Proc, NEW at, NEW todo,
           Ae!Becomes(p, [aeProc[p] EXCEPT !.at = at, !.todo = todo]),
           at \in {"clear", "unlink"}, aeProc[p].at # "idle", AeQuiet, UNCHANGED aeAnswers,
           AeFiles(aeXml)', AeFiles(aeParsed)'
    PROVE  AeInv'
<1> DEFINE r == [aeProc[p] EXCEPT !.at = at, !.todo = todo]
<1>1. AeOk(aeProc[p], aeVersion, aeAlive[p]) /\ aeRunning \subseteq aeAlive[p] BY AeAt
<1>2. /\ DOMAIN r = AeDomain /\ r.at = at /\ r.cmd = aeProc[p].cmd /\ r.was = aeProc[p].was
    BY <1>1 DEF AeOk, AeDomain
<1>3. Ae!Becomes(p, r) OBVIOUS
<1> HIDE DEF r
<1>4. AeOk(r, aeVersion, aeAlive[p])
    BY <1>1, <1>2 DEF AeOk, AePlaces, AeLooked, AeGot
<1>5. \A x \in aeAnswers' : x[1] \in Nat /\ x[2] \in Nat /\ x[1] <= x[2] BY DEF AeInv
<1>6. QED BY <1>1, <1>3, <1>4, <1>5, AeStill DEF AeQuiet

LEMMA AeRemoves ==
    ASSUME AeInv, NEW p \in Proc, Ae!Paths(p) \/ Ae!Clear(p) \/ Ae!Unlink(p)
    PROVE  AeInv'
<1>1. /\ aeProc[p].at \in {"paths", "resolve", "clear", "unlink"} /\ aeProc[p].at # "idle"
      /\ AeQuiet /\ UNCHANGED aeAnswers
    BY DEF Ae!Paths, Ae!Clear, Ae!Unlink, Ae!At, AeQuiet, Ae!Quiet, Ae!Outside, Ae!Cache
<1>2. AeOk(aeProc[p], aeVersion, aeAlive[p]) BY <1>1, AeAt
<1>3. CASE Ae!Paths(p)
    <2>1. UNCHANGED <<aeXml, aeParsed>> BY <1>3 DEF Ae!Paths, Ae!Cache
    <2>2. \E todo : Ae!Becomes(p, [aeProc[p] EXCEPT !.at = "clear", !.todo = todo])
        BY <1>3 DEF Ae!Paths
    <2>3. QED BY <1>1, <2>1, <2>2, AeClears, AeFilesStay
<1>4. CASE Ae!Clear(p)
    <2>1. aeProc[p].at = "clear" /\ UNCHANGED <<aeXml, aeParsed>>
        BY <1>4 DEF Ae!Clear, Ae!At, Ae!Cache
    <2>2. CASE Ae!Finish(p) BY <1>1, <2>1, <2>2, AeEnds
    <2>3. CASE Ae!Becomes(p, [aeProc[p] EXCEPT !.at = "unlink"])
        BY <1>1, <2>1, <2>3, AeGoesOn DEF Ae!Goes, AePlaces, AeLooked, AeGot
    <2>4. ASSUME NEW todo, Ae!Becomes(p, [aeProc[p] EXCEPT !.todo = todo])
          PROVE  AeInv'
        <3>1. [aeProc[p] EXCEPT !.todo = todo] = [aeProc[p] EXCEPT !.at = "clear", !.todo = todo]
            BY <1>2, <2>1 DEF AeOk, AeDomain
        <3>2. Ae!Becomes(p, [aeProc[p] EXCEPT !.at = "clear", !.todo = todo]) BY <2>4, <3>1
        <3>3. QED BY <1>1, <2>1, <3>2, AeClears, AeFilesStay
    <2>5. \/ Ae!Finish(p) \/ Ae!Becomes(p, [aeProc[p] EXCEPT !.at = "unlink"])
          \/ Ae!Becomes(p, [aeProc[p] EXCEPT !.todo = Tail(aeProc[p].todo)])
        BY <1>4 DEF Ae!Clear
    <2>6. QED BY <2>2, <2>3, <2>4, <2>5
<1>5. CASE Ae!Unlink(p)
    <2>1. CASE Ae!Finish(p) /\ UNCHANGED <<aeXml, aeParsed>> BY <1>1, <2>1, AeEnds
    <2>2. ASSUME NEW todo, Ae!Becomes(p, [aeProc[p] EXCEPT !.at = "clear", !.todo = todo]),
                 NEW k, \/ aeXml' = [aeXml EXCEPT ![k] = Ae!Gone] /\ aeParsed' = aeParsed
                        \/ aeParsed' = [aeParsed EXCEPT ![k] = Ae!Gone] /\ aeXml' = aeXml
          PROVE  AeInv'
        <3>1. (\A l \in Ae!Keys : aeXml'[l] \in {Ae!Gone, Ae!Torn} \/ (aeXml'[l] \in Nat /\ l[2] <= aeXml'[l]))
              /\ DOMAIN aeXml' = Ae!Keys
            BY <2>2 DEF AeInv, AeFiles
        <3>2. (\A l \in Ae!Keys : \/ aeParsed'[l] \in {Ae!Gone, Ae!Torn}
                                  \/ (aeParsed'[l] \in Nat /\ l[2] <= aeParsed'[l]))
              /\ DOMAIN aeParsed' = Ae!Keys
            BY <2>2 DEF AeInv, AeFiles
        <3>3. AeFiles(aeXml)' /\ AeFiles(aeParsed)'
            BY <3>1, <3>2 DEF AeFiles, Ae!Keys, Ae!Gone, Ae!Torn, Ae!Version
        <3>4. QED BY <1>1, <2>2, <3>3, AeClears
    <2>3. QED BY <1>5, <2>1, <2>2 DEF Ae!Unlink, Ae!Cache
<1>6. QED BY <1>3, <1>4, <1>5

\* A command starts in the world as it is.
LEMMA AeStarts ==
    ASSUME AeInv, NEW p \in Proc, NEW c \in AeAsked[p], Ae!Start(p, c)
    PROVE  AeInv'
<1>1. /\ aeProc[p].at = "idle" /\ aeAlive' = [aeAlive EXCEPT ![p] = aeRunning]
      /\ UNCHANGED <<aeVersion, aeRunning, aeXml, aeParsed, aeAnswers, aeLaunched>>
    BY DEF Ae!Start, Ae!At, Ae!Outside, Ae!Cache
<1>2. c.app \in App \cup {None} /\ c.launch \in BOOLEAN BY AeCommands
<1>3. aeProc[p] = Ae!Idle BY <1>1 DEF AeInv, AeOk, AePlaces
<1>4. /\ DOMAIN aeProc' = Proc /\ \A q \in Proc \ {p} : aeProc'[q] = aeProc[q]
      /\ \/ aeProc'[p] = Ae!Idle
         \/ aeProc'[p] = [at |-> "resolve", cmd |-> c, meta |-> None, got |-> None,
                          again |-> FALSE, todo |-> <<>>,
                          was |-> IF c.app = None THEN None ELSE aeVersion[c.app]]
    BY <1>3 DEF Ae!Start, Ae!Becomes, AeInv
<1>5. /\ aeVersion' \in [App -> Ae!Version] /\ aeAlive' \in [Proc -> SUBSET App]
      /\ aeRunning' \subseteq App /\ aeVersion' = aeVersion /\ aeRunning' = aeRunning
      /\ aeAlive'[p] = aeRunning /\ \A q \in Proc \ {p} : aeAlive'[q] = aeAlive[q]
    BY <1>1 DEF AeInv, Ae!Version
<1>6. \A a \in App : aeVersion[a] \in Nat /\ aeVersion'[a] \in Nat /\ aeVersion'[a] = aeVersion[a]
    BY <1>5, AeConstants DEF AeInv, Ae!Version
<1>7. ASSUME aeProc'[p] # Ae!Idle
      PROVE  AeOk(aeProc'[p], aeVersion, aeAlive'[p])
    <2> DEFINE r == aeProc'[p]
    <2>1. /\ DOMAIN r = AeDomain /\ r.at = "resolve" /\ r.cmd = c
          /\ c.app # None => r.was = aeVersion[c.app]
        BY <1>4, <1>7 DEF AeDomain
    <2>2. c.app # None => r.was \in Nat /\ r.was <= aeVersion[c.app] BY <1>2, <1>6, <2>1
    <2> HIDE DEF r
    <2>3. AeOk(r, aeVersion, aeAlive'[p])
        BY <1>2, <2>1, <2>2 DEF AeOk, AePlaces, AeLooked, AeGot
    <2>4. QED BY <2>3 DEF r
<1>8. \A q \in Proc \cap {p} : \/ aeProc'[q] = Ae!Idle
                               \/ /\ AeOk(aeProc'[q], aeVersion', aeAlive'[q])
                                  /\ aeRunning' \subseteq aeAlive'[q]
    BY <1>5, <1>7
<1>9. \A q \in Proc \ {p} : /\ aeProc'[q] = aeProc[q] /\ aeAlive[q] \subseteq aeAlive'[q]
                            /\ (aeRunning \subseteq aeAlive[q] => aeRunning' \subseteq aeAlive'[q])
    BY <1>4, <1>5
<1>10. \A a \in App : aeVersion[a] <= aeVersion'[a] BY <1>6
<1>11. AeFiles(aeXml)' /\ AeFiles(aeParsed)' BY <1>1, AeFilesStay
<1>12. \A x \in aeAnswers' : x[1] \in Nat /\ x[2] \in Nat /\ x[1] <= x[2] BY <1>1 DEF AeInv
<1>13. Ae!LaunchesAreAsked' BY <1>1 DEF AeInv, Ae!LaunchesAreAsked
<1>14. AeMoved({p}) BY <1>4, <1>5, <1>8, <1>9, <1>10, <1>12 DEF AeMoved
<1>15. QED BY <1>11, <1>13, <1>14, AeStep

\* The script runs; what it addresses is launched if it does not run.
LEMMA AeSends ==
    ASSUME AeInv, NEW p \in Proc, Ae!Send(p)
    PROVE  AeInv'
<1>1. /\ aeProc[p].at = "send" /\ UNCHANGED <<aeVersion, aeXml, aeParsed, aeAnswers>>
      /\ aeProc' = [aeProc EXCEPT ![p] = Ae!Idle]
    BY DEF Ae!Send, Ae!At, Ae!Outside, Ae!Cache, Ae!Finish, Ae!Becomes
<1>2. AeOk(aeProc[p], aeVersion, aeAlive[p]) /\ aeRunning \subseteq aeAlive[p] BY <1>1, AeAt
<1>3. CASE UNCHANGED <<aeRunning, aeAlive, aeLaunched>>
    <2>1. Ae!Finish(p) BY <1>1 DEF Ae!Finish, Ae!Becomes
    <2>2. QED BY <1>1, <1>3, <2>1, AeEnds DEF AeQuiet
<1>4. ASSUME NEW a \in App, a \notin aeRunning, aeRunning' = aeRunning \cup {a},
             aeAlive' = [q \in Proc |-> aeAlive[q] \cup {a}],
             aeLaunched' = aeLaunched \cup {[asked |-> aeProc[p].cmd.launch,
                                             target |-> a = aeProc[p].cmd.app,
                                             ran |-> a \in aeAlive[p]]}
      PROVE  AeInv'
    <2>1. a = aeProc[p].cmd.app /\ ~aeProc[p].cmd.launch => a \in aeAlive[p]
        BY <1>1, <1>2, <1>4, AeConstants DEF AeOk
    <2>2. Ae!LaunchesAreAsked'
        <3> DEFINE new == [asked |-> aeProc[p].cmd.launch, target |-> a = aeProc[p].cmd.app,
                           ran |-> a \in aeAlive[p]]
        <3>1. /\ new.asked = aeProc[p].cmd.launch /\ new.target = (a = aeProc[p].cmd.app)
              /\ new.ran = (a \in aeAlive[p])
            OBVIOUS
        <3>2. new.target /\ ~new.asked => new.ran BY <2>1, <3>1
        <3>3. aeLaunched' = aeLaunched \cup {new} BY <1>4
        <3> HIDE DEF new
        <3>4. \A x \in aeLaunched' : x.target /\ ~x.asked => x.ran
            BY <3>2, <3>3 DEF AeInv, Ae!LaunchesAreAsked
        <3>5. QED BY <3>4 DEF Ae!LaunchesAreAsked
    <2>3. DOMAIN aeProc' = Proc /\ aeProc'[p] = Ae!Idle /\ \A q \in Proc \ {p} : aeProc'[q] = aeProc[q]
        BY <1>1 DEF AeInv
    <2>4. \A q \in Proc \cap {p} : \/ aeProc'[q] = Ae!Idle
                                   \/ /\ AeOk(aeProc'[q], aeVersion', aeAlive'[q])
                                      /\ aeRunning' \subseteq aeAlive'[q]
        BY <2>3
    <2>5. \A q \in Proc \ {p} : /\ aeProc'[q] = aeProc[q] /\ aeAlive[q] \subseteq aeAlive'[q]
                                /\ (aeRunning \subseteq aeAlive[q] => aeRunning' \subseteq aeAlive'[q])
        BY <1>4, <2>3
    <2>6. /\ aeVersion' \in [App -> Ae!Version] /\ aeAlive' \in [Proc -> SUBSET App]
          /\ aeRunning' \subseteq App
        BY <1>1, <1>4 DEF AeInv, Ae!Version
    <2>7. \A b \in App : aeVersion[b] \in Nat /\ aeVersion'[b] = aeVersion[b]
        BY <1>1, AeConstants DEF AeInv, Ae!Version
    <2>8. \A b \in App : aeVersion[b] <= aeVersion'[b] BY <2>7
    <2>9. AeFiles(aeXml)' /\ AeFiles(aeParsed)' BY <1>1, AeFilesStay
    <2>10. \A x \in aeAnswers' : x[1] \in Nat /\ x[2] \in Nat /\ x[1] <= x[2] BY <1>1 DEF AeInv
    <2>11. AeMoved({p}) BY <2>3, <2>4, <2>5, <2>6, <2>8, <2>10 DEF AeMoved
    <2>12. QED BY <2>2, <2>9, <2>11, AeStep
<1>5. PICK a \in Ae!Addressed(p) :
        IF a = None \/ a \in aeRunning THEN UNCHANGED <<aeRunning, aeAlive, aeLaunched>>
        ELSE /\ aeRunning' = aeRunning \cup {a}
             /\ aeAlive' = [q \in Proc |-> aeAlive[q] \cup {a}]
             /\ aeLaunched' = aeLaunched \cup {[asked |-> aeProc[p].cmd.launch,
                                                target |-> a = aeProc[p].cmd.app,
                                                ran |-> a \in aeAlive[p]]}
    BY DEF Ae!Send, Ae!Cmd
<1>6. a \in App \cup {None} BY <1>2 DEF Ae!Addressed, Ae!Cmd, AeOk
<1>7. QED BY <1>3, <1>4, <1>5, <1>6

LEMMA AeElsewhere ==
    ASSUME AeInv, Ae!Elsewhere
    PROVE  AeInv'
<1>1. UNCHANGED <<aeXml, aeParsed, aeProc, aeAnswers, aeLaunched>>
    BY DEF Ae!Elsewhere, Ae!Cache
<1>2. PICK a \in App :
        \/ /\ aeRunning' = aeRunning \cup {a} /\ aeVersion' = aeVersion
           /\ aeAlive' = [q \in Proc |-> aeAlive[q] \cup {a}]
        \/ aeRunning' = aeRunning \ {a} /\ aeVersion' = aeVersion /\ aeAlive' = aeAlive
        \/ /\ aeVersion[a] < MaxVersion /\ aeVersion' = [aeVersion EXCEPT ![a] = aeVersion[a] + 1]
           /\ aeRunning' = aeRunning /\ aeAlive' = aeAlive
    BY DEF Ae!Elsewhere
<1>3. \A b \in App : aeVersion[b] \in Nat /\ aeVersion[b] \in 1..MaxVersion
    BY AeConstants DEF AeInv, Ae!Version
<1>4. /\ aeVersion' \in [App -> 1..MaxVersion] /\ \A b \in App : aeVersion[b] <= aeVersion'[b]
    <2>1. CASE aeVersion' = aeVersion BY <1>3, <2>1 DEF AeInv, Ae!Version
    <2>2. CASE aeVersion[a] < MaxVersion /\ aeVersion' = [aeVersion EXCEPT ![a] = aeVersion[a] + 1]
        <3>1. \A b \in App : aeVersion'[b] \in 1..MaxVersion /\ aeVersion[b] <= aeVersion'[b]
            BY <1>3, <2>2, AeConstants DEF AeInv
        <3>2. QED BY <2>2, <3>1 DEF AeInv
    <2>3. QED BY <1>2, <2>1, <2>2
<1>5. /\ aeAlive' \in [Proc -> SUBSET App] /\ aeRunning' \subseteq App
      /\ \A q \in Proc : /\ aeAlive[q] \subseteq aeAlive'[q]
                         /\ (aeRunning \subseteq aeAlive[q] => aeRunning' \subseteq aeAlive'[q])
    BY <1>2 DEF AeInv
<1>6. AeFiles(aeXml)' /\ AeFiles(aeParsed)' BY <1>1, AeFilesStay
<1>7. \A x \in aeAnswers' : x[1] \in Nat /\ x[2] \in Nat /\ x[1] <= x[2] BY <1>1 DEF AeInv
<1>8. Ae!LaunchesAreAsked' BY <1>1 DEF AeInv, Ae!LaunchesAreAsked
<1>9. aeVersion' \in [App -> Ae!Version] BY <1>4 DEF Ae!Version
<1>10. DOMAIN aeProc' = Proc /\ \A q \in Proc : aeProc'[q] = aeProc[q] BY <1>1 DEF AeInv
<1>11. \A q \in Proc \cap {} : \/ aeProc'[q] = Ae!Idle
                               \/ /\ AeOk(aeProc'[q], aeVersion', aeAlive'[q])
                                  /\ aeRunning' \subseteq aeAlive'[q]
    OBVIOUS
<1>12. \A q \in Proc \ {} : /\ aeProc'[q] = aeProc[q] /\ aeAlive[q] \subseteq aeAlive'[q]
                            /\ (aeRunning \subseteq aeAlive[q] => aeRunning' \subseteq aeAlive'[q])
    BY <1>5, <1>10
<1>13. AeMoved({}) BY <1>4, <1>5, <1>7, <1>9, <1>10, <1>11, <1>12 DEF AeMoved
<1>14. QED BY <1>6, <1>8, <1>13, AeStep

LEMMA AeNext ==
    ASSUME AeInv, Ae!Next
    PROVE  AeInv'
<1>1. ASSUME NEW p \in Proc, Ae!Show(p) \/ Ae!Kill(p) PROVE AeInv'
    BY <1>1, AeEnds DEF Ae!Show, Ae!Kill, AeQuiet, Ae!Quiet, Ae!Outside, Ae!Cache
<1>2. QED
    BY <1>1, AeElsewhere, AeStarts, AeResolves, AeReads, AeFinds, AeWrites, AeAnswersNow, AeChecks,
       AeSends, AeRemoves DEF Ae!Next

LEMMA AeInit ==
    ASSUME Ae!Init
    PROVE  AeInv
<1>1. Ae!Version = 1..MaxVersion /\ 1 \in Ae!Version BY AeConstants DEF Ae!Version
<1>2. AeFiles(aeXml) /\ AeFiles(aeParsed) BY DEF Ae!Init, AeFiles, Ae!Keys
<1>3. aeVersion \in [App -> Ae!Version] BY <1>1 DEF Ae!Init
<1>4. QED BY <1>2, <1>3 DEF Ae!Init, AeInv, Ae!LaunchesAreAsked

LEMMA AeStays ==
    ASSUME AeInv, UNCHANGED aeState
    PROVE  AeInv'
BY DEF AeInv, aeState, AeFiles, AeOk, AeDomain, AePlaces, AeGot, AeLooked, Ae!Version, Ae!Keys,
       Ae!Idle, Ae!Gone, Ae!Torn, Ae!LaunchesAreAsked

\* The inductive invariant of agent-appleevents.
THEOREM DictionariesInvariant == ViewsSpec => [](tool = "appleevents" => AeInv)
<1> DEFINE I == tool = "appleevents" => AeInv
<1>1. ViewsInit => I BY AeInit DEF ViewsInit
<1>2. I /\ [ViewsNext]_viewsVars => I'
    <2>1. SUFFICES ASSUME I, [ViewsNext]_viewsVars, tool' = "appleevents" PROVE AeInv'
        OBVIOUS
    <2>2. tool = "appleevents" /\ (Ae!Next \/ UNCHANGED aeState) BY <2>1, ViewsDo
    <2>3. QED BY <2>1, <2>2, AeNext, AeStays
<1>3. QED BY <1>1, <1>2, PTL DEF ViewsSpec

\* agent-appleevents: a dictionary that is printed is that of the version installed
\* when its command started or of a later one, and a command without --launch
\* launches nothing it was given that has not run since the command started.
THEOREM DictionariesAreCurrent == ViewsSpec => []AnswersAreCurrent
<1>1. (tool = "appleevents" => AeInv) => AnswersAreCurrent
    BY DEF AeInv, AnswersAreCurrent, Ae!AnswersAreCurrent
<1>2. QED BY <1>1, DictionariesInvariant, PTL

-----------------------------------------------------------------------------
(* agent-macos.                                                            *)

UiPlaces == {"go", "launched", "walk", "seen", "menu", "chosen", "press", "save", "rewrite"}

\* A command: what needs approval has it, and where it is tells what it is.  What
\* dialog click --cancel looks for is a cancelling button, or is on no dialog.
UiOk(r) ==
    /\ DOMAIN r = {"at", "cmd", "ok", "s", "then", "button", "target"} /\ r.at \in UiPlaces
    /\ r.cmd.op \in Ui!Live => r.ok
    /\ r.cmd.op \in {"open", "focus"} \cup Ui!WindowActions => r.cmd.arg \in App
    /\ r.cmd.op = "screenshot" => r.cmd.arg \in App \cup {None}
    /\ r.at = "menu" => r.cmd.op = "menu" /\ r.target \in App
    /\ r.at \in {"chosen", "press"} =>
         /\ r.cmd.op = "dialog click"
         /\ r.cmd.arg = "cancel" => r.button \in Cancelling \cup {"cancel"}
    /\ r.at = "press" => r.target \in App
    /\ r.at \in {"save", "rewrite"} => r.then \in {"go", "end", "walk", "seen"}

UiInv ==
    /\ uiDialog \in [App -> Dialogs \cup {<<>>}] /\ uiFront \in App \cup {None}
    /\ DOMAIN uiProc = Proc
    /\ \A p \in Proc : uiProc[p] = Ui!Idle \/ UiOk(uiProc[p])
    /\ Ui!CancelOnlyCancels

LEMMA UiAt ==
    ASSUME UiInv, NEW p \in Proc, uiProc[p].at # "idle"
    PROVE  UiOk(uiProc[p])
BY DEF UiInv, Ui!Idle

\* What a step of p has to show: the command stays one, the desktop has applications
\* and dialogs, and what acted was approved.
UiFine(p) ==
    /\ UiInv'
    /\ uiActed' # uiActed => uiProc'[p] # uiProc[p] /\ uiProc[p].ok

LEMMA UiStep ==
    ASSUME UiInv, NEW p \in Proc, NEW r, Ui!Becomes(p, r), r = Ui!Idle \/ UiOk(r),
           uiDialog' \in [App -> Dialogs \cup {<<>>}], uiFront' \in App \cup {None},
           Ui!CancelOnlyCancels',
           uiActed' # uiActed => r.at # uiProc[p].at /\ uiProc[p].ok
    PROVE  UiFine(p)
<1>1. /\ DOMAIN uiProc' = Proc /\ uiProc'[p] = r
      /\ \A q \in Proc \ {p} : uiProc'[q] = uiProc[q]
    BY DEF UiInv, Ui!Becomes
<1>2. \A q \in Proc : uiProc'[q] = Ui!Idle \/ UiOk(uiProc'[q])
    <2>1. ASSUME NEW q \in Proc PROVE uiProc'[q] = Ui!Idle \/ UiOk(uiProc'[q])
        <3>1. CASE q = p BY <1>1, <3>1
        <3>2. CASE q # p
            <4>1. uiProc'[q] = uiProc[q] BY <1>1, <3>2
            <4>2. uiProc[q] = Ui!Idle \/ UiOk(uiProc[q]) BY DEF UiInv
            <4>3. CASE uiProc[q] = Ui!Idle BY <4>1, <4>3
            <4>4. CASE UiOk(uiProc[q]) BY <4>1, <4>4
            <4>5. QED BY <4>2, <4>3, <4>4
        <3>3. QED BY <3>1, <3>2
    <2>2. QED BY <2>1
<1>3. (\A q \in Proc : uiProc[q] = Ui!Idle \/ UiOk(uiProc[q]))'
    BY <1>2 DEF UiOk, Ui!Idle, UiPlaces, Ui!Live, Ui!WindowActions, Ui!Keyboard
<1>4. UiInv' BY <1>1, <1>3 DEF UiInv
<1>5. QED BY <1>1, <1>4 DEF UiFine

\* A command that ends.
LEMMA UiEnds ==
    ASSUME UiInv, NEW p \in Proc, Ui!Finish(p), uiProc[p].at # "idle", uiPressed' = uiPressed,
           uiDialog' \in [App -> Dialogs \cup {<<>>}], uiFront' \in App \cup {None},
           uiActed' # uiActed => uiProc[p].ok
    PROVE  UiFine(p)
<1>1. Ui!Becomes(p, Ui!Idle) /\ Ui!Idle.at = "idle" BY DEF Ui!Finish, Ui!Idle
<1>2. Ui!CancelOnlyCancels' BY DEF UiInv, Ui!CancelOnlyCancels
<1>3. QED BY <1>1, <1>2, UiStep

\* A command that goes on to a place where nothing more is known of it.
LEMMA UiGoes ==
    ASSUME UiInv, NEW p \in Proc, NEW at, Ui!Goes(p, at), uiProc[p].at # "idle",
           \/ at \in {"go", "launched", "walk", "seen"}
           \/ at = "rewrite" /\ uiProc[p].at = "save",
           uiPressed' = uiPressed,
           uiDialog' \in [App -> Dialogs \cup {<<>>}], uiFront' \in App \cup {None},
           uiActed' # uiActed => at # uiProc[p].at /\ uiProc[p].ok
    PROVE  UiFine(p)
<1> DEFINE r == [uiProc[p] EXCEPT !.at = at]
<1>1. UiOk(uiProc[p]) BY UiAt
<1>2. /\ DOMAIN r = DOMAIN uiProc[p] /\ r.at = at /\ r.cmd = uiProc[p].cmd /\ r.ok = uiProc[p].ok
      /\ r.then = uiProc[p].then
    BY <1>1 DEF UiOk
<1>3. Ui!Becomes(p, r) BY DEF Ui!Goes
<1> HIDE DEF r
<1>4. UiOk(r) BY <1>1, <1>2 DEF UiOk, UiPlaces
<1>5. Ui!CancelOnlyCancels' BY DEF UiInv, Ui!CancelOnlyCancels
<1>6. QED BY <1>2, <1>3, <1>4, <1>5, UiStep

\* A command that goes on to write session.json.
LEMMA UiSaves ==
    ASSUME UiInv, NEW p \in Proc, NEW s, NEW then, Ui!Saving(p, s, then), uiProc[p].at # "idle",
           then \in {"go", "end", "walk", "seen"}, Ui!CancelOnlyCancels',
           uiDialog' \in [App -> Dialogs \cup {<<>>}], uiFront' \in App \cup {None},
           uiActed' # uiActed => uiProc[p].at # "save" /\ uiProc[p].ok
    PROVE  UiFine(p)
<1> DEFINE r == [uiProc[p] EXCEPT !.at = "save", !.s = s, !.then = then]
<1>1. UiOk(uiProc[p]) BY UiAt
<1>2. /\ DOMAIN r = DOMAIN uiProc[p] /\ r.at = "save" /\ r.cmd = uiProc[p].cmd
      /\ r.ok = uiProc[p].ok /\ r.then = then
    BY <1>1 DEF UiOk
<1>3. Ui!Becomes(p, r) BY DEF Ui!Saving
<1> HIDE DEF r
<1>4. UiOk(r) BY <1>1, <1>2 DEF UiOk, UiPlaces
<1>5. QED BY <1>2, <1>3, <1>4, UiStep

\* A command that picks what it will act on.
LEMMA UiPicks ==
    ASSUME UiInv, NEW p \in Proc, NEW at, NEW target, NEW button,
           Ui!Becomes(p, [uiProc[p] EXCEPT !.at = at, !.target = target, !.button = button]),
           uiProc[p].at # "idle",
           \/ at = "menu" /\ uiProc[p].cmd.op = "menu" /\ target \in App
           \/ /\ at \in {"press", "chosen"} /\ uiProc[p].cmd.op = "dialog click"
              /\ at = "press" => target \in App /\ uiProc[p].at = "chosen" /\ button = uiProc[p].button
              /\ at = "chosen" /\ uiProc[p].cmd.arg = "cancel" => button \in Cancelling \cup {"cancel"},
           UNCHANGED <<uiDialog, uiFront, uiActed, uiPressed>>
    PROVE  UiFine(p)
<1> DEFINE r == [uiProc[p] EXCEPT !.at = at, !.target = target, !.button = button]
<1>1. UiOk(uiProc[p]) BY UiAt
<1>2. /\ DOMAIN r = DOMAIN uiProc[p] /\ r.at = at /\ r.cmd = uiProc[p].cmd
      /\ r.ok = uiProc[p].ok /\ r.target = target /\ r.button = button
    BY <1>1 DEF UiOk
<1>3. Ui!Becomes(p, r) OBVIOUS
<1> HIDE DEF r
<1>4. UiOk(r) BY <1>1, <1>2 DEF UiOk, UiPlaces
<1>5. Ui!CancelOnlyCancels' BY DEF UiInv, Ui!CancelOnlyCancels
<1>6. /\ uiDialog' \in [App -> Dialogs \cup {<<>>}] /\ uiFront' \in App \cup {None}
    BY DEF UiInv
<1>7. QED BY <1>3, <1>4, <1>5, <1>6, UiStep

\* The desktop stands still, or an application comes to the front.
LEMMA UiSame ==
    ASSUME UiInv, UNCHANGED uiDialog
    PROVE  uiDialog' \in [App -> Dialogs \cup {<<>>}]
BY DEF UiInv
LEMMA UiSameFront ==
    ASSUME UiInv, uiFront' = uiFront
    PROVE  uiFront' \in App \cup {None}
BY DEF UiInv
LEMMA UiSamePressed ==
    ASSUME UiInv, uiPressed' = uiPressed
    PROVE  Ui!CancelOnlyCancels'
BY DEF UiInv, Ui!CancelOnlyCancels

LEMMA UiReads ==
    ASSUME UiInv, NEW p \in Proc,
           \/ Ui!Read(p) \/ Ui!Refless(p) \/ Ui!WaitWindow(p) \/ Ui!Kill(p) \/ Ui!Screenshot(p)
           \/ Ui!Copy(p) \/ Ui!Window(p)
    PROVE  UiFine(p)
<1>1. /\ uiProc[p].at # "idle" /\ Ui!Finish(p) /\ UNCHANGED <<uiDialog, uiPressed>>
      /\ uiActed' # uiActed => uiProc[p].at = "go" /\ uiProc[p].cmd.op \in Ui!Live
    BY DEF Ui!Read, Ui!Refless, Ui!WaitWindow, Ui!Kill, Ui!Screenshot, Ui!Copy, Ui!Window, Ui!At,
           Ui!Op, Ui!Quiet, Ui!Desktop, Ui!Live
<1>2. UiOk(uiProc[p]) BY <1>1, UiAt
<1>3. uiFront' \in App \cup {None}
    BY <1>2 DEF UiInv, UiOk, Ui!Read, Ui!Refless, Ui!WaitWindow, Ui!Kill, Ui!Screenshot, Ui!Copy,
           Ui!Window, Ui!At, Ui!Op, Ui!Arg, Ui!Quiet, Ui!Desktop
<1>4. uiActed' # uiActed => uiProc[p].ok BY <1>1, <1>2 DEF UiOk
<1>5. QED BY <1>1, <1>3, <1>4, UiSame, UiEnds

LEMMA UiOpens ==
    ASSUME UiInv, NEW p \in Proc, Ui!OpenApp(p) \/ Ui!FocusApp(p)
    PROVE  UiFine(p)
<1>1. /\ uiProc[p].at = "go" /\ uiProc[p].cmd.op \in {"open", "focus"}
      /\ UNCHANGED <<uiDialog, uiPressed>>
      /\ uiFront' = uiFront \/ uiFront' = uiProc[p].cmd.arg
    BY DEF Ui!OpenApp, Ui!FocusApp, Ui!At, Ui!Op, Ui!Arg
<1>2. uiProc[p].at # "idle" /\ UiOk(uiProc[p]) BY <1>1, UiAt
<1>3. uiProc[p].ok /\ uiProc[p].cmd.arg \in App BY <1>1, <1>2 DEF UiOk, Ui!Live
<1>4. /\ uiFront' \in App \cup {None} /\ uiDialog' \in [App -> Dialogs \cup {<<>>}]
      /\ Ui!CancelOnlyCancels'
    BY <1>1, <1>3, UiSame, UiSamePressed DEF UiInv
<1>5. CASE Ui!Finish(p) BY <1>1, <1>2, <1>3, <1>4, <1>5, UiEnds
<1>6. CASE Ui!Goes(p, "launched")
    BY <1>1, <1>2, <1>3, <1>4, <1>6, UiGoes
<1>7. ASSUME NEW s, Ui!Saving(p, s, "end") PROVE UiFine(p)
    BY <1>1, <1>2, <1>3, <1>4, <1>7, UiSaves
<1>8. QED BY <1>5, <1>6, <1>7 DEF Ui!OpenApp, Ui!FocusApp

LEMMA UiQuits ==
    ASSUME UiInv, NEW p \in Proc, Ui!QuitApp(p)
    PROVE  UiFine(p)
<1>1. /\ uiProc[p].at = "go" /\ uiProc[p].cmd.op = "quit" /\ Ui!Finish(p) /\ uiPressed' = uiPressed
      /\ uiDialog' = uiDialog \/ uiDialog' = [uiDialog EXCEPT ![uiProc[p].cmd.arg] = <<>>]
      /\ uiFront' = uiFront \/ uiFront' \in App \cup {None}
    BY DEF Ui!QuitApp, Ui!Ends, Ui!At, Ui!Op, Ui!Arg, Ui!Desktop
<1>2. uiProc[p].at # "idle" /\ UiOk(uiProc[p]) BY <1>1, UiAt
<1>3. uiProc[p].ok BY <1>1, <1>2 DEF UiOk, Ui!Live
<1>4. /\ uiFront' \in App \cup {None} /\ uiDialog' \in [App -> Dialogs \cup {<<>>}]
    BY <1>1 DEF UiInv
<1>5. QED BY <1>1, <1>2, <1>3, <1>4, UiEnds

LEMMA UiLooks ==
    ASSUME UiInv, NEW p \in Proc,
           Ui!Reset(p) \/ Ui!Launched(p) \/ Ui!Snapshot(p) \/ Ui!Walk(p) \/ Ui!Seen(p)
    PROVE  UiFine(p)
<1>1. /\ uiProc[p].at \in {"go", "launched", "walk", "seen"}
      /\ UNCHANGED <<uiDialog, uiFront, uiPressed, uiActed>>
    BY DEF Ui!Reset, Ui!Launched, Ui!Snapshot, Ui!Walk, Ui!Seen, Ui!At, Ui!Quiet, Ui!Desktop
<1>2. uiProc[p].at # "idle" BY <1>1
<1>3. /\ uiFront' \in App \cup {None} /\ uiDialog' \in [App -> Dialogs \cup {<<>>}]
      /\ Ui!CancelOnlyCancels'
    BY <1>1, UiSame, UiSameFront, UiSamePressed
<1>4. CASE Ui!Finish(p) BY <1>1, <1>2, <1>3, <1>4, UiEnds
<1>5. ASSUME NEW at \in {"go", "seen"}, Ui!Goes(p, at) PROVE UiFine(p)
    BY <1>1, <1>2, <1>3, <1>5, UiGoes
<1>6. ASSUME NEW s, NEW then \in {"end", "walk", "seen"}, Ui!Saving(p, s, then) PROVE UiFine(p)
    BY <1>1, <1>2, <1>3, <1>6, UiSaves
<1>7. QED BY <1>4, <1>5, <1>6 DEF Ui!Reset, Ui!Launched, Ui!Snapshot, Ui!Walk, Ui!Seen

LEMMA UiWrites ==
    ASSUME UiInv, NEW p \in Proc, Ui!Truncate(p) \/ Ui!Save(p)
    PROVE  UiFine(p)
<1>1. /\ uiProc[p].at \in {"save", "rewrite"} /\ UNCHANGED <<uiDialog, uiFront, uiPressed, uiActed>>
    BY DEF Ui!Truncate, Ui!Save, Ui!At, Ui!Quiet, Ui!Desktop
<1>2. uiProc[p].at # "idle" /\ UiOk(uiProc[p]) BY <1>1, UiAt
<1>3. uiProc[p].then \in {"go", "end", "walk", "seen"} BY <1>1, <1>2 DEF UiOk
<1>4. /\ uiFront' \in App \cup {None} /\ uiDialog' \in [App -> Dialogs \cup {<<>>}]
    BY <1>1, UiSame, UiSameFront
<1>5. CASE Ui!Finish(p) BY <1>1, <1>2, <1>4, <1>5, UiEnds
<1>6. CASE Ui!Goes(p, "rewrite") /\ uiProc[p].at = "save"
    BY <1>1, <1>2, <1>4, <1>6, UiGoes
<1>7. CASE Ui!Goes(p, uiProc[p].then) /\ uiProc[p].then # "end"
    BY <1>1, <1>2, <1>3, <1>4, <1>7, UiGoes
<1>8. QED BY <1>5, <1>6, <1>7 DEF Ui!Truncate, Ui!Save, Ui!At

LEMMA UiTypes ==
    ASSUME UiInv, NEW p \in Proc, Ui!TypeKeys(p)
    PROVE  UiFine(p)
<1>1. /\ uiProc[p].at = "go" /\ uiProc[p].cmd.op \in Ui!Keyboard
      /\ UNCHANGED <<uiFront, uiPressed>>
      /\ uiDialog' = uiDialog \/ \E a : uiDialog' = [uiDialog EXCEPT ![a] = <<>>]
    BY DEF Ui!TypeKeys, Ui!At, Ui!Op
<1>2. uiProc[p].at # "idle" /\ UiOk(uiProc[p]) BY <1>1, UiAt
<1>3. uiProc[p].ok BY <1>1, <1>2 DEF UiOk, Ui!Live
<1>4. /\ uiFront' \in App \cup {None} /\ uiDialog' \in [App -> Dialogs \cup {<<>>}]
      /\ Ui!CancelOnlyCancels'
    BY <1>1, UiSameFront, UiSamePressed DEF UiInv
<1>5. \E then \in {"go", "end"} : Ui!Saving(p, uiProc[p].s, then)
    BY DEF Ui!TypeKeys, Ui!Noting
<1>6. QED BY <1>1, <1>2, <1>3, <1>4, <1>5, UiSaves

LEMMA UiMenus ==
    ASSUME UiInv, NEW p \in Proc, Ui!MenuTarget(p) \/ Ui!MenuClick(p)
    PROVE  UiFine(p)
<1>1. /\ uiProc[p].at \in {"go", "menu"} /\ uiPressed' = uiPressed
    BY DEF Ui!MenuTarget, Ui!MenuClick, Ui!At, Ui!Quiet
<1>2. uiProc[p].at # "idle" /\ UiOk(uiProc[p]) BY <1>1, UiAt
<1>3. CASE Ui!MenuTarget(p)
    <2>1. UNCHANGED <<uiDialog, uiFront, uiActed>> BY <1>3 DEF Ui!MenuTarget, Ui!Quiet, Ui!Desktop
    <2>2. /\ uiFront' \in App \cup {None} /\ uiDialog' \in [App -> Dialogs \cup {<<>>}]
        BY <2>1, UiSame, UiSameFront
    <2>3. CASE Ui!Finish(p) BY <1>1, <1>2, <2>1, <2>2, <2>3, UiEnds
    <2>4. CASE /\ uiFront # None /\ uiProc[p].cmd.op = "menu"
               /\ Ui!Becomes(p, [uiProc[p] EXCEPT !.at = "menu", !.target = uiFront])
        <3>1. [uiProc[p] EXCEPT !.at = "menu", !.target = uiFront]
              = [uiProc[p] EXCEPT !.at = "menu", !.target = uiFront, !.button = uiProc[p].button]
            BY <1>2 DEF UiOk
        <3>2. uiFront \in App BY <2>4 DEF UiInv
        <3>3. Ui!Becomes(p, [uiProc[p] EXCEPT !.at = "menu", !.target = uiFront,
                                              !.button = uiProc[p].button])
            BY <2>4, <3>1
        <3>4. QED BY <1>1, <1>2, <2>1, <2>4, <3>2, <3>3, UiPicks
    <2>5. QED BY <1>3, <2>3, <2>4 DEF Ui!MenuTarget, Ui!Op
<1>4. CASE Ui!MenuClick(p)
    <2>1. uiProc[p].at = "menu" /\ uiFront' = uiProc[p].target
        BY <1>4 DEF Ui!MenuClick, Ui!At
    <2>2. uiProc[p].ok /\ uiProc[p].target \in App BY <1>2, <2>1 DEF UiOk, Ui!Live
    <2>3. uiFront' \in App \cup {None} /\ Ui!CancelOnlyCancels' BY <1>1, <2>1, <2>2, UiSamePressed
    <2>4. CASE Ui!Finish(p) /\ UNCHANGED uiDialog
        BY <1>1, <1>2, <2>2, <2>3, <2>4, UiSame, UiEnds
    <2>5. ASSUME Ui!Noting(p, "end"), NEW d \in Dialogs \cup {<<>>},
                 uiDialog' = [uiDialog EXCEPT ![uiProc[p].target] = d]
          PROVE  UiFine(p)
        <3>1. uiDialog' \in [App -> Dialogs \cup {<<>>}] BY <2>5 DEF UiInv
        <3>2. Ui!Saving(p, uiProc[p].s, "end") BY <2>5 DEF Ui!Noting
        <3>3. QED BY <1>1, <1>2, <2>1, <2>2, <2>3, <3>1, <3>2, UiSaves
    <2>6. QED BY <1>4, <2>4, <2>5 DEF Ui!MenuClick
<1>5. QED BY <1>3, <1>4

\* What --cancel looks for is a cancelling button, or the option itself.
LEMMA UiChosen ==
    ASSUME UiInv, NEW p \in Proc, uiProc[p].cmd.arg = "cancel"
    PROVE  Ui!Chosen(p) \in Cancelling \cup {"cancel"}
<1> DEFINE B == Ui!Buttons
           S == {i \in DOMAIN B : B[i] \in Cancelling}
<1>1. B = <<>> \/ B \in Dialogs BY DEF UiInv, Ui!Buttons
<1>2. DOMAIN B = 1..Len(B) /\ Len(B) \in Nat BY <1>1, GuiAssumption
<1> HIDE DEF B
<1>3. ASSUME \E i \in DOMAIN B : B[i] \in Cancelling
      PROVE  \E i \in DOMAIN B : B[i] \in Cancelling /\ \A j \in 1..(i - 1) : B[j] \notin Cancelling
    <2>1. S \in SUBSET Nat /\ S # {} BY <1>2, <1>3
    <2>2. PICK i \in S : \A j \in S : i <= j BY <2>1, LeastElement
    <2>3. \A j \in 1..(i - 1) : B[j] \notin Cancelling BY <1>2, <2>2
    <2>4. QED BY <2>2, <2>3
<1>4. CASE \E i \in DOMAIN B : B[i] \in Cancelling
    <2>1. B[CHOOSE i \in DOMAIN B : B[i] \in Cancelling
              /\ \A j \in 1..(i - 1) : B[j] \notin Cancelling] \in Cancelling
        BY <1>3, <1>4
    <2>2. QED BY <1>4, <2>1 DEF Ui!Chosen, Ui!Arg, B
<1>5. CASE ~\E i \in DOMAIN B : B[i] \in Cancelling
    BY <1>5 DEF Ui!Chosen, Ui!Arg, B
<1>6. QED BY <1>4, <1>5

LEMMA UiChooses ==
    ASSUME UiInv, NEW p \in Proc, Ui!DialogChoose(p) \/ Ui!DialogTarget(p)
    PROVE  UiFine(p)
<1>1. /\ uiProc[p].at \in {"go", "chosen"}
      /\ UNCHANGED <<uiDialog, uiFront, uiActed, uiPressed>>
    BY DEF Ui!DialogChoose, Ui!DialogTarget, Ui!At, Ui!Quiet, Ui!Desktop
<1>2. uiProc[p].at # "idle" /\ UiOk(uiProc[p]) BY <1>1, UiAt
<1>3. uiProc[p].cmd.op = "dialog click"
    BY <1>2 DEF Ui!DialogChoose, Ui!DialogTarget, Ui!At, Ui!Op, UiOk
<1>4. /\ uiFront' \in App \cup {None} /\ uiDialog' \in [App -> Dialogs \cup {<<>>}]
    BY <1>1, UiSame, UiSameFront
<1>5. CASE Ui!Finish(p) BY <1>1, <1>2, <1>4, <1>5, UiEnds
<1>6. CASE Ui!Becomes(p, [uiProc[p] EXCEPT !.at = "chosen", !.button = Ui!Chosen(p)])
    <2>1. [uiProc[p] EXCEPT !.at = "chosen", !.button = Ui!Chosen(p)]
          = [uiProc[p] EXCEPT !.at = "chosen", !.target = uiProc[p].target, !.button = Ui!Chosen(p)]
        BY <1>2 DEF UiOk
    <2>2. Ui!Becomes(p, [uiProc[p] EXCEPT !.at = "chosen", !.target = uiProc[p].target,
                                          !.button = Ui!Chosen(p)])
        BY <1>6, <2>1
    <2>3. uiProc[p].cmd.arg = "cancel" => Ui!Chosen(p) \in Cancelling \cup {"cancel"} BY UiChosen
    <2>4. QED BY <1>1, <1>2, <1>3, <2>2, <2>3, UiPicks
<1>7. CASE /\ uiProc[p].at = "chosen" /\ uiFront # None
           /\ Ui!Becomes(p, [uiProc[p] EXCEPT !.at = "press", !.target = uiFront])
    <2>1. [uiProc[p] EXCEPT !.at = "press", !.target = uiFront]
          = [uiProc[p] EXCEPT !.at = "press", !.target = uiFront, !.button = uiProc[p].button]
        BY <1>2 DEF UiOk
    <2>2. Ui!Becomes(p, [uiProc[p] EXCEPT !.at = "press", !.target = uiFront,
                                          !.button = uiProc[p].button])
        BY <1>7, <2>1
    <2>3. uiFront \in App BY <1>7 DEF UiInv
    <2>4. QED BY <1>1, <1>2, <1>3, <1>7, <2>2, <2>3, UiPicks
<1>8. QED BY <1>5, <1>6, <1>7 DEF Ui!DialogChoose, Ui!DialogTarget, Ui!At

\* The button that is pressed is on the dialog, so that it is not the option itself.
LEMMA UiPresses ==
    ASSUME UiInv, NEW p \in Proc, Ui!DialogPress(p)
    PROVE  UiFine(p)
<1>1. uiProc[p].at = "press" /\ uiFront' = uiFront
    BY DEF Ui!DialogPress, Ui!At
<1>2. uiProc[p].at # "idle" /\ UiOk(uiProc[p]) BY <1>1, UiAt
<1>3. /\ uiProc[p].ok /\ uiProc[p].target \in App
      /\ uiProc[p].cmd.arg = "cancel" => uiProc[p].button \in Cancelling \cup {"cancel"}
    BY <1>1, <1>2 DEF UiOk, Ui!Live
<1>4. uiFront' \in App \cup {None} BY <1>1, UiSameFront
<1>5. CASE Ui!Finish(p) /\ UNCHANGED <<uiDialog, uiActed, uiPressed>>
    BY <1>2, <1>4, <1>5, UiSame, UiEnds
<1>6. ASSUME NEW i \in DOMAIN uiDialog[uiProc[p].target],
             uiDialog[uiProc[p].target][i] = uiProc[p].button,
             uiDialog' = [uiDialog EXCEPT ![uiProc[p].target] = <<>>],
             uiPressed' = uiPressed \cup {<<uiProc[p].cmd.arg, uiProc[p].button>>},
             Ui!Noting(p, "end")
      PROVE  UiFine(p)
    <2>1. uiDialog[uiProc[p].target] \in Dialogs
        <3>1. uiDialog[uiProc[p].target] \in Dialogs \cup {<<>>} BY <1>3 DEF UiInv
        <3>2. QED BY <1>6, <3>1
    <2>2. uiProc[p].button # "cancel" BY <1>6, <2>1, GuiAssumption
    <2>3. Ui!CancelOnlyCancels' BY <1>3, <1>6, <2>2 DEF UiInv, Ui!CancelOnlyCancels
    <2>4. uiDialog' \in [App -> Dialogs \cup {<<>>}] BY <1>6 DEF UiInv
    <2>5. Ui!Saving(p, uiProc[p].s, "end") BY <1>6 DEF Ui!Noting
    <2>6. QED BY <1>1, <1>2, <1>3, <1>4, <2>3, <2>4, <2>5, UiSaves
<1>7. QED BY <1>5, <1>6 DEF Ui!DialogPress, Ui!Arg

\* The gate lets a command pass that needs no approval, or has it.
LEMMA UiStarts ==
    ASSUME UiInv, NEW p \in Proc, NEW c \in UiAsked[p], Ui!Start(p, c)
    PROVE  UiFine(p)
<1>1. UNCHANGED <<uiDialog, uiFront, uiActed, uiPressed>>
    BY DEF Ui!Start, Ui!Desktop
<1>2. /\ uiFront' \in App \cup {None} /\ uiDialog' \in [App -> Dialogs \cup {<<>>}]
      /\ Ui!CancelOnlyCancels'
    BY <1>1, UiSame, UiSameFront, UiSamePressed
<1>3. CASE Ui!Becomes(p, Ui!Idle) BY <1>1, <1>2, <1>3, UiStep
<1>4. ASSUME NEW ok, c.op \in Ui!Live => ok,
             Ui!Becomes(p, [at |-> "go", cmd |-> c, ok |-> ok, s |-> uiSession,
                            then |-> "end", button |-> None, target |-> None])
      PROVE  UiFine(p)
    <2> DEFINE r == [at |-> "go", cmd |-> c, ok |-> ok, s |-> uiSession,
                     then |-> "end", button |-> None, target |-> None]
    <2>1. /\ DOMAIN r = {"at", "cmd", "ok", "s", "then", "button", "target"}
          /\ r.at = "go" /\ r.cmd = c /\ r.ok = ok /\ r.then = "end"
        OBVIOUS
    <2>2. Ui!Becomes(p, r) BY <1>4
    <2> HIDE DEF r
    <2>3. /\ c.op \in {"open", "focus"} \cup Ui!WindowActions => c.arg \in App
          /\ c.op = "screenshot" => c.arg \in App \cup {None}
        BY GuiAssumption
    <2>4. UiOk(r) BY <1>4, <2>1, <2>3 DEF UiOk, UiPlaces
    <2>5. QED BY <1>1, <1>2, <2>2, <2>4, UiStep
<1>5. QED BY <1>3, <1>4 DEF Ui!Start, Ui!Finish

\* What the user does is no command's.
LEMMA UiUser ==
    ASSUME UiInv, Ui!User
    PROVE  UiInv' /\ uiActed' = uiActed
<1>1. UNCHANGED <<uiProc, uiActed, uiPressed>> BY DEF Ui!User
<1>2. /\ uiFront' \in App \cup {None} /\ uiDialog' \in [App -> Dialogs \cup {<<>>}]
    BY DEF UiInv, Ui!User, Ui!Ends
<1>3. (\A p \in Proc : uiProc[p] = Ui!Idle \/ UiOk(uiProc[p]))'
    BY <1>1 DEF UiInv, UiOk, Ui!Idle, UiPlaces, Ui!Live, Ui!WindowActions, Ui!Keyboard
<1>4. QED BY <1>1, <1>2, <1>3, UiSamePressed DEF UiInv

LEMMA UiNext ==
    ASSUME UiInv, Ui!Next
    PROVE  UiInv' /\ Ui!ApprovedStep
<1>1. CASE Ui!User BY <1>1, UiUser DEF Ui!ApprovedStep
<1>2. CASE \E p \in Proc : UiFine(p) BY <1>2 DEF UiFine, Ui!ApprovedStep
<1>3. QED
    BY <1>1, <1>2, UiReads, UiOpens, UiQuits, UiLooks, UiWrites, UiTypes, UiMenus, UiChooses,
       UiPresses, UiStarts DEF Ui!Next

LEMMA UiInit ==
    ASSUME Ui!Init
    PROVE  UiInv
BY DEF Ui!Init, UiInv, Ui!CancelOnlyCancels

LEMMA UiStays ==
    ASSUME UiInv, UNCHANGED uiState
    PROVE  UiInv' /\ Ui!ApprovedStep
<1>1. (\A p \in Proc : uiProc[p] = Ui!Idle \/ UiOk(uiProc[p]))'
    BY DEF uiState, UiInv, UiOk, Ui!Idle, UiPlaces, Ui!Live, Ui!WindowActions, Ui!Keyboard
<1>2. QED BY <1>1, UiSame, UiSameFront, UiSamePressed DEF uiState, UiInv, Ui!ApprovedStep

\* The inductive invariant of agent-macos.
THEOREM GuiInvariant == ViewsSpec => [](tool = "macos" => UiInv)
<1> DEFINE I == tool = "macos" => UiInv
<1>1. ViewsInit => I BY UiInit DEF ViewsInit
<1>2. I /\ [ViewsNext]_viewsVars => I'
    <2>1. SUFFICES ASSUME I, [ViewsNext]_viewsVars, tool' = "macos" PROVE UiInv'
        OBVIOUS
    <2>2. tool = "macos" /\ (Ui!Next \/ UNCHANGED uiState) BY <2>1, ViewsDo
    <2>3. QED BY <2>1, <2>2, UiNext, UiStays
<1>3. QED BY <1>1, <1>2, PTL DEF ViewsSpec

\* agent-macos: every step that acts on the desktop is one of a command that was
\* approved, and dialog click --cancel has pressed no button but a cancelling one.
THEOREM ApprovedActs == ViewsSpec => OnlyApprovedActs
<1> DEFINE I == tool = "macos" => UiInv
<1>1. I /\ [ViewsNext]_viewsVars =>
      [tool = "macos" => Ui!ApprovedStep /\ Ui!CancelOnlyCancels']_viewsVars
    <2>1. SUFFICES ASSUME I, [ViewsNext]_viewsVars, tool = "macos"
                   PROVE  Ui!ApprovedStep /\ Ui!CancelOnlyCancels'
        OBVIOUS
    <2>2. Ui!Next \/ UNCHANGED uiState BY <2>1, ViewsDo
    <2>3. UiInv' /\ Ui!ApprovedStep BY <2>1, <2>2, UiNext, UiStays
    <2>4. QED BY <2>3 DEF UiInv
<1>2. QED BY <1>1, GuiInvariant, PTL DEF ViewsSpec, OnlyApprovedActs

-----------------------------------------------------------------------------
(* agent-email.                                                            *)

EmPlaces == {"boxes", "query", "check", "sleep", "found", "hydrate", "export"}
EmRow(r) == /\ DOMAIN r = {"body", "source", "unread"}
            /\ r.body = "summary" => ~r.source

\* What a query looks for in the index, by the rows it has now.
EmWanted(r, index, m) ==
    /\ index[m] # None /\ Em!Box(m) \in r.boxes
    /\ CASE r.cmd.filter = "unread" -> index[m].unread
         [] r.cmd.filter = "contains" -> index[m].body # "none"
         [] OTHER -> TRUE

\* When a wait has to end, and how late it may be where it is.
EmDeadline(r) == r.start + Em!AtLeastOne(r.cmd.timeout)
EmPause(r) == Em!AtLeastOne(r.cmd.interval)
EmInTime(r, now) ==
    /\ r.at \in {"boxes", "query"} => now < EmDeadline(r) + EmPause(r)
    /\ r.at = "check" => r.timer <= Slow /\ now < EmDeadline(r) + EmPause(r) + r.timer
    /\ r.at = "sleep" => r.timer <= EmPause(r) /\ now < EmDeadline(r) + r.timer
    /\ r.at = "found" => now < EmDeadline(r) + EmPause(r) + Slow

\* A wait: its numbers, and how late it may be.
EmWaiting(r, now) ==
    r.cmd.op \in Em!Waits =>
        /\ r.cmd.timeout \in Nat /\ r.cmd.interval \in Nat /\ r.cmd.limit \in Nat /\ r.start \in Nat
        /\ EmInTime(r, now)
\* A query that found nothing in the index had nothing to find, but for what changed
\* since.
EmLooked(r, now, index, changed) ==
    r.at = "check" /\ ~r.cmd.fixture /\ r.found = {} =>
        \A m \in Message : changed[m] + r.timer < now => ~EmWanted(r, index, m)
\* What was not fetched is no summary of a source.
EmHolds(r) ==
    /\ r.cmd.op \in Em!Single /\ r.cmd.fixture =>
         \A m \in Message : Fixture[m] = None \/ EmRow(Fixture[m])
    /\ r.at \in {"hydrate", "export"} =>
         /\ r.cmd.op \in Em!Single /\ DOMAIN r.row = {"body", "source", "unread"}
         /\ EmRow(r.row) \/ r.fetched
\* A command.
EmOk(r, now, index, changed) ==
    /\ DOMAIN r = {"at", "cmd", "boxes", "timer", "start", "found", "row", "fetched"}
    /\ r.at \in EmPlaces /\ r.timer \in Nat
    /\ r.at \in {"check", "sleep", "found"} => r.cmd.op \in Em!Waits
    /\ EmWaiting(r, now) /\ EmLooked(r, now, index, changed) /\ EmHolds(r)

EmInv ==
    /\ emNow \in Nat
    /\ DOMAIN emIndex = Message /\ \A m \in Message : emIndex[m] = None \/ EmRow(emIndex[m])
    /\ DOMAIN emChanged = Message /\ \A m \in Message : emChanged[m] \in Nat /\ emChanged[m] <= emNow
    /\ DOMAIN emProc = Reader
    /\ \A p \in Reader : emProc[p] = Em!Idle \/ EmOk(emProc[p], emNow, emIndex, emChanged)
    /\ emMissed = {}
    /\ Em!SummariesAreNamed

LEMMA EmAt ==
    ASSUME EmInv, NEW p \in Reader, emProc[p].at # "idle"
    PROVE  EmOk(emProc[p], emNow, emIndex, emChanged)
BY DEF EmInv, Em!Idle

-----------------------------------------------------------------------------
(* What a query finds.                                                     *)

\* A finite set of numbers that is not empty has one that none exceeds.
LEMMA EmGreatest ==
    ASSUME NEW S \in SUBSET Nat, IsFiniteSet(S), S # {}
    PROVE  \E m \in S : Cardinality({o \in S : o > m}) = 0
<1> DEFINE Above(m) == {o \in S : o > m}
           C == {Cardinality(Above(m)) : m \in S}
<1>1. \A m \in S : IsFiniteSet(Above(m)) /\ Cardinality(Above(m)) \in Nat
    BY FS_Subset, FS_CardinalityType
<1>2. C \in SUBSET Nat /\ C # {} BY <1>1
<1>3. PICK c \in C : \A d \in C : c <= d BY <1>2, LeastElement
<1>4. PICK m \in S : c = Cardinality(Above(m)) BY <1>3
<1>5. ASSUME NEW o \in Above(m) PROVE FALSE
    <2>1. Above(o) \in SUBSET Above(m) /\ Above(o) # Above(m) /\ o \in S
        <3>1. o \in S /\ o > m /\ o \in Nat /\ m \in Nat BY <1>5
        <3>2. o \notin Above(o) BY <3>1
        <3>3. \A n \in Above(o) : n \in S /\ n > o /\ n \in Nat OBVIOUS
        <3>4. \A n \in Above(o) : n \in Above(m) BY <3>1, <3>3
        <3>5. QED BY <1>5, <3>1, <3>2, <3>4
    <2>2. /\ IsFiniteSet(Above(m)) /\ IsFiniteSet(Above(o))
          /\ Cardinality(Above(m)) \in Nat /\ Cardinality(Above(o)) \in Nat
        BY <1>1, <2>1
    <2>3. Cardinality(Above(m)) <= Cardinality(Above(o)) BY <1>3, <1>4, <2>1
    <2> HIDE DEF Above
    <2>4. /\ Cardinality(Above(o)) <= Cardinality(Above(m))
          /\ Cardinality(Above(m)) = Cardinality(Above(o)) => Above(m) = Above(o)
        BY <2>1, <2>2, FS_Subset
    <2>5. QED BY <2>1, <2>2, <2>3, <2>4
<1>6. Above(m) = {} BY <1>5
<1>7. Cardinality(Above(m)) = 0 BY <1>6, FS_EmptySet
<1>8. QED BY <1>7

\* The module's cardinality is that of the library.
LEMMA EmCardinality == \A S : Em!Cardinality(S) = Cardinality(S)
BY DEF Em!Cardinality, Cardinality

\* A query of the index that finds nothing had nothing to find.
LEMMA EmFindsAny ==
    ASSUME EmInv, NEW p \in Reader, ~emProc[p].cmd.fixture, emProc[p].cmd.limit \in Nat,
           Em!Found(p) = {}, NEW m \in Message
    PROVE  ~EmWanted(emProc[p], emIndex, m)
<1> DEFINE S == {o \in Em!InScope(p) : Em!Matches(p, o)}
<1>1. S \subseteq Message BY DEF Em!InScope
<1>2. S \in SUBSET Nat /\ IsFiniteSet(S) BY <1>1, MailAssumption, FS_Subset
<1>3. EmWanted(emProc[p], emIndex, m) => m \in S
    BY DEF EmWanted, Em!InScope, Em!Matches, Em!Rows, Em!Cmd
<1>4. 0 < Em!AtLeastOne(emProc[p].cmd.limit) BY DEF Em!AtLeastOne
<1>5. Em!Newest(emProc[p].cmd.limit, S) = {} BY DEF Em!Found, Em!Cmd
<1> HIDE DEF S
<1>6. S = {}
    <2>1. SUFFICES ASSUME S # {} PROVE FALSE OBVIOUS
    <2>2. PICK o \in S : Cardinality({n \in S : n > o}) = 0 BY <1>2, <2>1, EmGreatest
    <2>3. Cardinality({n \in S : n > o}) < Em!AtLeastOne(emProc[p].cmd.limit) BY <1>4, <2>2
    <2>5. o \in Em!Newest(emProc[p].cmd.limit, S) BY <2>3, EmCardinality DEF Em!Newest
    <2>6. QED BY <1>5, <2>5
<1>7. QED BY <1>3, <1>6

\* What a wait that fails should have found is what it was to find.
LEMMA EmWantedMatches ==
    ASSUME NEW p \in Reader, ~emProc[p].cmd.fixture,
           NEW m \in Em!InScope(p), Em!Matches(p, m)
    PROVE  m \in Message /\ EmWanted(emProc[p], emIndex, m)
BY DEF EmWanted, Em!InScope, Em!Matches, Em!Rows, Em!Cmd

-----------------------------------------------------------------------------
(* The steps.                                                              *)

LEMMA EmOne == \A n \in Nat : Em!AtLeastOne(n) \in Nat /\ Em!AtLeastOne(n) >= 1
BY DEF Em!AtLeastOne

\* Every command is as it should be after a step.
EmAll == \A q \in Reader : emProc[q] = Em!Idle \/ EmOk(emProc[q], emNow, emIndex, emChanged)
LEMMA EmAllNext ==
    ASSUME \A q \in Reader : \/ emProc'[q] = Em!Idle
                             \/ EmOk(emProc'[q], emNow', emIndex', emChanged')
    PROVE  EmAll'
BY DEF EmAll, EmOk, Em!Idle, EmPlaces, EmRow, EmWanted, EmDeadline, EmPause, EmInTime, EmWaiting,
       EmLooked, EmHolds, Em!Waits, Em!Single, Em!Box, Em!AtLeastOne

\* A step of one command.
LEMMA EmStep ==
    ASSUME EmInv, NEW p \in Reader, NEW r, Em!Becomes(p, r),
           r = Em!Idle \/ EmOk(r, emNow, emIndex, emChanged),
           UNCHANGED <<emNow, emIndex, emChanged>>, emMissed' = {}, Em!SummariesAreNamed'
    PROVE  EmInv'
<1>1. /\ DOMAIN emProc' = Reader /\ emProc'[p] = r
      /\ \A q \in Reader \ {p} : emProc'[q] = emProc[q]
    BY DEF EmInv, Em!Becomes
<1>2. ASSUME NEW q \in Reader
      PROVE  emProc'[q] = Em!Idle \/ EmOk(emProc'[q], emNow', emIndex', emChanged')
    <2>1. emNow' = emNow /\ emIndex' = emIndex /\ emChanged' = emChanged OBVIOUS
    <2>2. CASE q = p BY <1>1, <2>1, <2>2
    <2>3. CASE q # p
        <3>1. emProc'[q] = emProc[q] BY <1>1, <2>3
        <3>2. CASE emProc[q] = Em!Idle BY <3>1, <3>2
        <3>3. CASE EmOk(emProc[q], emNow, emIndex, emChanged) BY <2>1, <3>1, <3>3
        <3>4. QED BY <3>2, <3>3 DEF EmInv
    <2>4. QED BY <2>2, <2>3
<1>3. EmAll' BY <1>2, EmAllNext
<1>4. (/\ emNow \in Nat
       /\ DOMAIN emIndex = Message /\ \A m \in Message : emIndex[m] = None \/ EmRow(emIndex[m])
       /\ DOMAIN emChanged = Message /\ \A m \in Message : emChanged[m] \in Nat /\ emChanged[m] <= emNow)'
    BY DEF EmInv, EmRow
<1>5. QED BY <1>1, <1>3, <1>4 DEF EmInv, EmAll

\* A command that ends, or goes on without a message that was missed.
EmCalm == UNCHANGED <<emNow, emIndex, emChanged, emMissed, emExported>>
LEMMA EmTurns ==
    ASSUME EmInv, NEW p \in Reader, NEW r, Em!Becomes(p, r),
           r = Em!Idle \/ EmOk(r, emNow, emIndex, emChanged), EmCalm
    PROVE  EmInv'
<1>1. UNCHANGED <<emNow, emIndex, emChanged>> /\ emMissed' = {} BY DEF EmInv, EmCalm
<1>2. Em!SummariesAreNamed' BY DEF EmInv, EmCalm, Em!SummariesAreNamed
<1>3. QED BY <1>1, <1>2, EmStep

LEMMA EmStarts ==
    ASSUME EmInv, NEW p \in Reader, NEW c \in EmAsked[p], Em!Start(p, c)
    PROVE  EmInv'
<1> DEFINE r == [at |-> "boxes", cmd |-> c, boxes |-> {}, timer |-> 0, start |-> emNow,
                 found |-> {}, row |-> None, fetched |-> FALSE]
<1>1. Em!Becomes(p, r) /\ EmCalm BY DEF Em!Start, Em!Mail, EmCalm
<1>2. /\ DOMAIN r = {"at", "cmd", "boxes", "timer", "start", "found", "row", "fetched"}
      /\ r.at = "boxes" /\ r.cmd = c /\ r.timer = 0 /\ r.start = emNow
    OBVIOUS
<1> HIDE DEF r
<1>3. emNow \in Nat BY DEF EmInv
<1>4. ASSUME c.op \in Em!Waits
      PROVE  c.timeout \in Nat /\ c.interval \in Nat /\ c.limit \in Nat
    BY <1>4, MailAssumption
<1>5. EmWaiting(r, emNow)
    <2>1. ASSUME c.op \in Em!Waits PROVE EmInTime(r, emNow)
        <3>1. /\ Em!AtLeastOne(c.timeout) \in Nat /\ Em!AtLeastOne(c.timeout) >= 1
              /\ Em!AtLeastOne(c.interval) \in Nat /\ Em!AtLeastOne(c.interval) >= 1
            BY <1>4, <2>1, EmOne
        <3>2. emNow < EmDeadline(r) + EmPause(r) BY <1>2, <1>3, <3>1 DEF EmDeadline, EmPause
        <3>3. QED BY <1>2, <3>2 DEF EmInTime
    <2>2. QED BY <1>2, <1>3, <1>4, <2>1 DEF EmWaiting
<1>6. EmLooked(r, emNow, emIndex, emChanged) BY <1>2 DEF EmLooked
<1>7. EmHolds(r) BY <1>2, MailAssumption DEF EmHolds, EmRow
<1>8. EmOk(r, emNow, emIndex, emChanged) BY <1>2, <1>5, <1>6, <1>7 DEF EmOk, EmPlaces
<1>9. QED BY <1>1, <1>8, EmTurns

\* A wait's deadline and pause.
LEMMA EmNumbers ==
    ASSUME NEW r, NEW now \in Nat, EmWaiting(r, now), r.cmd.op \in Em!Waits
    PROVE  /\ EmDeadline(r) \in Nat /\ EmPause(r) \in Nat /\ EmPause(r) >= 1
           /\ r.start \in Nat /\ EmDeadline(r) >= r.start + 1
BY EmOne DEF EmWaiting, EmDeadline, EmPause

LEMMA EmLists ==
    ASSUME EmInv, NEW p \in Reader, Em!Boxes(p)
    PROVE  EmInv'
<1>1. emProc[p].at = "boxes" /\ EmCalm BY DEF Em!Boxes, Em!At, Em!Mail, EmCalm
<1>2. EmOk(emProc[p], emNow, emIndex, emChanged) BY <1>1, EmAt
<1>3. CASE Em!Finish(p) BY <1>1, <1>3, EmTurns DEF Em!Finish
<1>4. ASSUME NEW b, Em!Becomes(p, [emProc[p] EXCEPT !.at = "query", !.boxes = b])
      PROVE  EmInv'
    <2> DEFINE r == [emProc[p] EXCEPT !.at = "query", !.boxes = b]
    <2>1. /\ DOMAIN r = DOMAIN emProc[p] /\ r.at = "query" /\ r.cmd = emProc[p].cmd
          /\ r.timer = emProc[p].timer /\ r.start = emProc[p].start
        BY <1>2 DEF EmOk
    <2>2. Em!Becomes(p, r) BY <1>4
    <2> HIDE DEF r
    <2>3. EmWaiting(r, emNow)
        BY <1>1, <1>2, <2>1 DEF EmOk, EmWaiting, EmInTime, EmDeadline, EmPause
    <2>4. EmLooked(r, emNow, emIndex, emChanged) BY <2>1 DEF EmLooked
    <2>5. EmHolds(r) BY <1>2, <2>1 DEF EmHolds, EmOk
    <2>6. EmOk(r, emNow, emIndex, emChanged) BY <1>2, <2>1, <2>3, <2>4, <2>5 DEF EmOk, EmPlaces
    <2>7. QED BY <1>1, <2>2, <2>6, EmTurns
<1>5. QED BY <1>3, <1>4 DEF Em!Boxes

LEMMA EmQueries ==
    ASSUME EmInv, NEW p \in Reader, Em!Query(p)
    PROVE  EmInv'
<1>1. emProc[p].at = "query" /\ EmCalm BY DEF Em!Query, Em!At, Em!Mail, EmCalm
<1>2. EmOk(emProc[p], emNow, emIndex, emChanged) /\ emNow \in Nat BY <1>1, EmAt DEF EmInv
<1>3. CASE Em!Finish(p) BY <1>1, <1>3, EmTurns DEF Em!Finish
<1>4. CASE /\ emProc[p].cmd.op \in Em!Waits
           /\ Em!Becomes(p, [emProc[p] EXCEPT !.at = "check", !.found = Em!Found(p), !.timer = 0])
    <2> DEFINE r == [emProc[p] EXCEPT !.at = "check", !.found = Em!Found(p), !.timer = 0]
    <2>1. /\ DOMAIN r = DOMAIN emProc[p] /\ r.at = "check" /\ r.cmd = emProc[p].cmd
          /\ r.timer = 0 /\ r.start = emProc[p].start /\ r.found = Em!Found(p)
          /\ r.boxes = emProc[p].boxes
        BY <1>2 DEF EmOk
    <2>2. Em!Becomes(p, r) BY <1>4
    <2> HIDE DEF r
    <2>3. EmWaiting(r, emNow)
        <3>1. EmDeadline(r) = EmDeadline(emProc[p]) /\ EmPause(r) = EmPause(emProc[p])
            BY <2>1 DEF EmDeadline, EmPause
        <3>2. EmDeadline(r) \in Nat /\ EmPause(r) \in Nat BY <1>2, <1>4, <3>1, EmNumbers DEF EmOk
        <3>3. emNow < EmDeadline(r) + EmPause(r)
            BY <1>1, <1>2, <1>4, <3>1 DEF EmOk, EmWaiting, EmInTime
        <3>4. EmInTime(r, emNow) BY <1>2, <2>1, <3>2, <3>3, MailAssumption DEF EmInTime
        <3>5. QED BY <1>2, <1>4, <2>1, <3>4 DEF EmOk, EmWaiting
    <2>4. EmLooked(r, emNow, emIndex, emChanged)
        <3>1. SUFFICES ASSUME ~r.cmd.fixture, r.found = {}, NEW m \in Message
                       PROVE  ~EmWanted(r, emIndex, m)
            BY DEF EmLooked
        <3>2. emProc[p].cmd.limit \in Nat BY <1>2, <1>4 DEF EmOk, EmWaiting
        <3>3. ~EmWanted(emProc[p], emIndex, m) BY <2>1, <3>1, <3>2, EmFindsAny
        <3>4. QED BY <2>1, <3>3 DEF EmWanted
    <2>5. EmHolds(r) BY <1>2, <2>1 DEF EmHolds, EmOk
    <2>6. EmOk(r, emNow, emIndex, emChanged)
        BY <1>2, <1>4, <2>1, <2>3, <2>4, <2>5 DEF EmOk, EmPlaces
    <2>7. QED BY <1>1, <2>2, <2>6, EmTurns
<1>5. QED BY <1>3, <1>4 DEF Em!Query, Em!Cmd

\* A wait looks at what it found: it missed nothing when it gives up.
LEMMA EmChecks ==
    ASSUME EmInv, NEW p \in Reader, Em!Check(p)
    PROVE  EmInv'
<1>1. /\ emProc[p].at = "check" /\ UNCHANGED <<emNow, emIndex, emChanged, emExported>>
    BY DEF Em!Check, Em!At, Em!Mail
<1>2. EmOk(emProc[p], emNow, emIndex, emChanged) /\ emNow \in Nat BY <1>1, EmAt DEF EmInv
<1>3. emProc[p].cmd.op \in Em!Waits /\ emProc[p].timer \in Nat BY <1>1, <1>2 DEF EmOk
<1>4. EmDeadline(emProc[p]) \in Nat /\ EmPause(emProc[p]) \in Nat
    BY <1>2, <1>3, EmNumbers DEF EmOk
<1>5. /\ emProc[p].timer <= Slow
      /\ emNow < EmDeadline(emProc[p]) + EmPause(emProc[p]) + emProc[p].timer
    BY <1>1, <1>2, <1>3 DEF EmOk, EmWaiting, EmInTime
<1>6. Slow \in Nat BY MailAssumption
<1>7. CASE emMissed' = emMissed /\ Em!Becomes(p, [emProc[p] EXCEPT !.at = "found"])
    <2> DEFINE r == [emProc[p] EXCEPT !.at = "found"]
    <2>1. /\ DOMAIN r = DOMAIN emProc[p] /\ r.at = "found" /\ r.cmd = emProc[p].cmd
          /\ r.timer = emProc[p].timer /\ r.start = emProc[p].start
        BY <1>2 DEF EmOk
    <2>2. Em!Becomes(p, r) BY <1>7
    <2> HIDE DEF r
    <2>3. EmWaiting(r, emNow)
        <3>1. EmDeadline(r) = EmDeadline(emProc[p]) /\ EmPause(r) = EmPause(emProc[p])
            BY <2>1 DEF EmDeadline, EmPause
        <3>2. emNow < EmDeadline(r) + EmPause(r) + Slow BY <1>2, <1>3, <1>4, <1>5, <1>6, <3>1
        <3>3. QED BY <1>2, <1>3, <2>1, <3>2 DEF EmOk, EmWaiting, EmInTime
    <2>4. EmLooked(r, emNow, emIndex, emChanged) BY <2>1 DEF EmLooked
    <2>5. EmHolds(r) BY <1>2, <2>1 DEF EmHolds, EmOk
    <2>6. EmOk(r, emNow, emIndex, emChanged)
        BY <1>2, <1>3, <2>1, <2>3, <2>4, <2>5 DEF EmOk, EmPlaces
    <2>7. QED BY <1>1, <1>7, <2>2, <2>6, EmTurns DEF EmCalm
<1>8. CASE /\ emMissed' = emMissed /\ ~(emNow >= Em!Deadline(p))
           /\ Em!Becomes(p, [emProc[p] EXCEPT !.at = "sleep", !.timer = 0])
    <2> DEFINE r == [emProc[p] EXCEPT !.at = "sleep", !.timer = 0]
    <2>1. /\ DOMAIN r = DOMAIN emProc[p] /\ r.at = "sleep" /\ r.cmd = emProc[p].cmd
          /\ r.timer = 0 /\ r.start = emProc[p].start
        BY <1>2 DEF EmOk
    <2>2. Em!Becomes(p, r) BY <1>8
    <2> HIDE DEF r
    <2>3. EmWaiting(r, emNow)
        <3>1. EmDeadline(r) = EmDeadline(emProc[p]) /\ EmPause(r) = EmPause(emProc[p])
            BY <2>1 DEF EmDeadline, EmPause
        <3>2. Em!Deadline(p) = EmDeadline(r) BY <3>1 DEF Em!Deadline, EmDeadline, Em!Cmd
        <3>3. emNow < EmDeadline(r) + 0 /\ 0 <= EmPause(r) BY <1>2, <1>4, <1>8, <3>1, <3>2
        <3>4. QED BY <1>2, <1>3, <2>1, <3>3 DEF EmOk, EmWaiting, EmInTime
    <2>4. EmLooked(r, emNow, emIndex, emChanged) BY <2>1 DEF EmLooked
    <2>5. EmHolds(r) BY <1>2, <2>1 DEF EmHolds, EmOk
    <2>6. EmOk(r, emNow, emIndex, emChanged)
        BY <1>2, <1>3, <2>1, <2>3, <2>4, <2>5 DEF EmOk, EmPlaces
    <2>7. QED BY <1>1, <1>8, <2>2, <2>6, EmTurns DEF EmCalm
<1>9. CASE emProc[p].found = {} /\ emNow >= Em!Deadline(p) /\ Em!Fail(p)
    <2>1. Em!Deadline(p) = EmDeadline(emProc[p]) BY DEF Em!Deadline, EmDeadline, Em!Cmd
    <2>2. ASSUME NEW m \in Em!InScope(p), ~emProc[p].cmd.fixture, Em!Matches(p, m),
                 emChanged[m] + Slow < Em!Deadline(p)
          PROVE  FALSE
        <3>1. m \in Message /\ EmWanted(emProc[p], emIndex, m) BY <2>2, EmWantedMatches
        <3>2. emChanged[m] \in Nat BY <3>1 DEF EmInv
        <3>3. emChanged[m] + emProc[p].timer < emNow
            BY <1>2, <1>3, <1>4, <1>5, <1>6, <1>9, <2>1, <2>2, <3>2
        <3>4. QED BY <1>1, <1>2, <1>9, <2>2, <3>1, <3>3 DEF EmOk, EmLooked
    <2>3. {m \in Em!InScope(p) : /\ ~Em!Cmd(p).fixture /\ Em!Matches(p, m)
                                 /\ emChanged[m] + Slow < Em!Deadline(p)} = {}
        BY <2>2 DEF Em!Cmd
    <2>4. emMissed' = emMissed BY <1>9, <2>3 DEF Em!Fail
    <2>5. Em!Becomes(p, Em!Idle) BY <1>9 DEF Em!Fail, Em!Finish
    <2>6. QED BY <1>1, <2>4, <2>5, EmTurns DEF EmCalm
<1>10. QED BY <1>7, <1>8, <1>9 DEF Em!Check

LEMMA EmWakes ==
    ASSUME EmInv, NEW p \in Reader, Em!Wake(p)
    PROVE  EmInv'
<1> DEFINE r == [emProc[p] EXCEPT !.at = "query"]
<1>1. /\ emProc[p].at = "sleep" /\ EmCalm /\ Em!Becomes(p, r)
      /\ emProc[p].timer = EmPause(emProc[p])
    BY DEF Em!Wake, Em!At, Em!Mail, EmCalm, EmPause, Em!Cmd
<1>2. EmOk(emProc[p], emNow, emIndex, emChanged) /\ emNow \in Nat BY <1>1, EmAt DEF EmInv
<1>3. emProc[p].cmd.op \in Em!Waits BY <1>1, <1>2 DEF EmOk
<1>4. emNow < EmDeadline(emProc[p]) + EmPause(emProc[p])
    BY <1>1, <1>2, <1>3 DEF EmOk, EmWaiting, EmInTime
<1>5. /\ DOMAIN r = DOMAIN emProc[p] /\ r.at = "query" /\ r.cmd = emProc[p].cmd
      /\ r.timer = emProc[p].timer /\ r.start = emProc[p].start
    BY <1>2 DEF EmOk
<1> HIDE DEF r
<1>6. EmWaiting(r, emNow)
    BY <1>2, <1>4, <1>5 DEF EmOk, EmWaiting, EmInTime, EmDeadline, EmPause
<1>7. EmLooked(r, emNow, emIndex, emChanged) BY <1>5 DEF EmLooked
<1>8. EmHolds(r) BY <1>2, <1>5 DEF EmHolds, EmOk
<1>9. EmOk(r, emNow, emIndex, emChanged) BY <1>2, <1>5, <1>6, <1>7, <1>8 DEF EmOk, EmPlaces
<1>10. QED BY <1>1, <1>9, EmTurns

LEMMA EmGets ==
    ASSUME EmInv, NEW p \in Reader, Em!Get(p)
    PROVE  EmInv'
<1>1. emProc[p].at = "query" /\ EmCalm /\ emProc[p].cmd.op \in Em!Single
    BY DEF Em!Get, Em!At, Em!Mail, EmCalm, Em!Cmd
<1>2. EmOk(emProc[p], emNow, emIndex, emChanged) BY <1>1, EmAt
<1>3. CASE Em!Finish(p) BY <1>1, <1>3, EmTurns DEF Em!Finish
<1>4. ASSUME NEW m \in Em!InScope(p),
             Em!Becomes(p, [emProc[p] EXCEPT !.at = "hydrate", !.row = Em!Rows(p)[m]])
      PROVE  EmInv'
    <2> DEFINE r == [emProc[p] EXCEPT !.at = "hydrate", !.row = Em!Rows(p)[m]]
    <2>1. /\ DOMAIN r = DOMAIN emProc[p] /\ r.at = "hydrate" /\ r.cmd = emProc[p].cmd
          /\ r.timer = emProc[p].timer /\ r.start = emProc[p].start /\ r.row = Em!Rows(p)[m]
        BY <1>2 DEF EmOk
    <2>2. Em!Becomes(p, r) BY <1>4
    <2> HIDE DEF r
    <2>3. m \in Message /\ Em!Rows(p)[m] # None BY <1>4 DEF Em!InScope
    <2>4. EmRow(r.row)
        <3>1. CASE emProc[p].cmd.fixture
            BY <1>1, <1>2, <2>1, <2>3, <3>1 DEF EmOk, EmHolds, Em!Rows, Em!Cmd
        <3>2. CASE ~emProc[p].cmd.fixture
            BY <2>1, <2>3, <3>2 DEF EmInv, Em!Rows, Em!Cmd
        <3>3. QED BY <3>1, <3>2
    <2>5. EmWaiting(r, emNow)
        BY <1>2, <2>1 DEF EmOk, EmWaiting, EmInTime
    <2>6. EmLooked(r, emNow, emIndex, emChanged) BY <2>1 DEF EmLooked
    <2>7. EmHolds(r)
        <3>1. r.cmd.op \in Em!Single /\ r.cmd.fixture =>
                 \A o \in Message : Fixture[o] = None \/ EmRow(Fixture[o])
            BY <1>2, <2>1 DEF EmOk, EmHolds
        <3>2. QED BY <1>1, <2>1, <2>4, <3>1 DEF EmHolds, EmRow
    <2>8. EmOk(r, emNow, emIndex, emChanged) BY <1>2, <2>1, <2>5, <2>6, <2>7 DEF EmOk, EmPlaces
    <2>9. QED BY <1>1, <2>2, <2>8, EmTurns
<1>5. QED BY <1>3, <1>4 DEF Em!Get, Em!Cmd

LEMMA EmHydrates ==
    ASSUME EmInv, NEW p \in Reader, Em!Hydrate(p)
    PROVE  EmInv'
<1>1. emProc[p].at = "hydrate" /\ EmCalm BY DEF Em!Hydrate, Em!At, Em!Mail, EmCalm
<1>2. EmOk(emProc[p], emNow, emIndex, emChanged) BY <1>1, EmAt
<1>3. /\ emProc[p].cmd.op \in Em!Single /\ DOMAIN emProc[p].row = {"body", "source", "unread"}
      /\ EmRow(emProc[p].row) \/ emProc[p].fetched
    BY <1>1, <1>2 DEF EmOk, EmHolds
<1>4. ASSUME NEW r, Em!Becomes(p, r), DOMAIN r = DOMAIN emProc[p], r.at = "export",
             r.cmd = emProc[p].cmd, r.timer = emProc[p].timer, r.start = emProc[p].start,
             DOMAIN r.row = {"body", "source", "unread"}, EmRow(r.row) \/ r.fetched
      PROVE  EmInv'
    <2>1. EmWaiting(r, emNow) BY <1>2, <1>4 DEF EmOk, EmWaiting, EmInTime
    <2>2. EmLooked(r, emNow, emIndex, emChanged) BY <1>4 DEF EmLooked
    <2>3. EmHolds(r)
        <3>1. r.cmd.op \in Em!Single /\ r.cmd.fixture =>
                 \A o \in Message : Fixture[o] = None \/ EmRow(Fixture[o])
            BY <1>2, <1>4 DEF EmOk, EmHolds
        <3>2. QED BY <1>3, <1>4, <3>1 DEF EmHolds
    <2>4. EmOk(r, emNow, emIndex, emChanged) BY <1>2, <1>4, <2>1, <2>2, <2>3 DEF EmOk, EmPlaces
    <2>5. QED BY <1>1, <1>4, <2>4, EmTurns
<1>5. CASE Em!Becomes(p, [emProc[p] EXCEPT !.at = "export"])
    <2> DEFINE r == [emProc[p] EXCEPT !.at = "export"]
    <2>1. /\ DOMAIN r = DOMAIN emProc[p] /\ r.at = "export" /\ r.cmd = emProc[p].cmd
          /\ r.timer = emProc[p].timer /\ r.start = emProc[p].start
          /\ r.row = emProc[p].row /\ r.fetched = emProc[p].fetched
        BY <1>2 DEF EmOk
    <2>2. Em!Becomes(p, r) BY <1>5
    <2> HIDE DEF r
    <2>3. EmRow(r.row) \/ r.fetched BY <1>3, <2>1
    <2>4. QED BY <1>3, <1>4, <2>1, <2>2, <2>3
<1>6. ASSUME NEW body,
             Em!Becomes(p, [emProc[p] EXCEPT !.at = "export", !.fetched = TRUE, !.row.source = TRUE,
                                             !.row.body = body])
      PROVE  EmInv'
    <2> DEFINE r == [emProc[p] EXCEPT !.at = "export", !.fetched = TRUE, !.row.source = TRUE,
                                      !.row.body = body]
    <2>1. /\ DOMAIN r = DOMAIN emProc[p] /\ r.at = "export" /\ r.cmd = emProc[p].cmd
          /\ r.timer = emProc[p].timer /\ r.start = emProc[p].start
          /\ DOMAIN r.row = {"body", "source", "unread"} /\ r.fetched
        BY <1>2, <1>3 DEF EmOk
    <2>2. Em!Becomes(p, r) BY <1>6
    <2> HIDE DEF r
    <2>3. QED BY <1>4, <2>1, <2>2
<1>7. \/ Em!Becomes(p, [emProc[p] EXCEPT !.at = "export"])
      \/ \E body : Em!Becomes(p, [emProc[p] EXCEPT !.at = "export", !.fetched = TRUE,
                                                   !.row.source = TRUE, !.row.body = body])
    BY DEF Em!Hydrate
<1>8. QED BY <1>5, <1>6, <1>7

\* What is exported is a summary only where that is allowed, or was fetched.
LEMMA EmExports ==
    ASSUME EmInv, NEW p \in Reader, Em!Export(p)
    PROVE  EmInv'
<1>1. emProc[p].at = "export" /\ UNCHANGED <<emNow, emIndex, emChanged, emMissed>>
    BY DEF Em!Export, Em!At, Em!Mail
<1>2. EmOk(emProc[p], emNow, emIndex, emChanged) BY <1>1, EmAt
<1>3. EmRow(emProc[p].row) \/ emProc[p].fetched BY <1>1, <1>2 DEF EmOk, EmHolds
<1>4. Em!Becomes(p, Em!Idle) BY DEF Em!Export, Em!Finish
<1> DEFINE new == [format |-> Em!Cmd(p).format, allow |-> Em!Cmd(p).allow, content |-> Em!Content(p),
                   fetched |-> emProc[p].fetched,
                   summary |-> Em!State(emProc[p].row) = "summary_only"]
<1>5. emExported' = emExported \/ (Em!Content(p) # None /\ emExported' = emExported \cup {new})
    BY DEF Em!Export
<1>6. ASSUME Em!Content(p) # None, Em!Content(p) = "summary", ~emProc[p].fetched
      PROVE  /\ Em!State(emProc[p].row) = "summary_only"
             /\ Em!Cmd(p).format = "json" \/ Em!Cmd(p).allow
    <2>1. EmRow(emProc[p].row) BY <1>3, <1>6
    <2>2. emProc[p].row.body = "summary"
        <3>1. CASE Em!Cmd(p).format = "json" BY <1>6, <3>1 DEF Em!Content
        <3>2. CASE Em!Cmd(p).format = "eml" BY <1>6, <3>2 DEF Em!Content
        <3>3. CASE Em!Cmd(p).format \notin {"json", "eml"}
            BY <1>6, <3>3 DEF Em!Content, Em!TextOf
        <3>4. QED BY <3>1, <3>2, <3>3
    <2>3. ~emProc[p].row.source BY <2>1, <2>2 DEF EmRow
    <2>4. Em!State(emProc[p].row) = "summary_only" BY <2>2, <2>3 DEF Em!State
    <2>5. Em!Cmd(p).format = "json" \/ Em!Cmd(p).allow
        BY <1>6, <2>2, <2>4 DEF Em!Content, Em!TextOf
    <2>6. QED BY <2>4, <2>5
<1>7. /\ new.format = Em!Cmd(p).format /\ new.allow = Em!Cmd(p).allow
      /\ new.content = Em!Content(p) /\ new.fetched = emProc[p].fetched
      /\ new.summary = (Em!State(emProc[p].row) = "summary_only")
    OBVIOUS
<1> HIDE DEF new
<1>8. Em!Content(p) # None /\ new.content = "summary" /\ ~new.fetched =>
        new.summary /\ (new.format = "json" \/ new.allow)
    BY <1>6, <1>7
<1>9. \A x \in emExported' : x.content = "summary" /\ ~x.fetched =>
        x.summary /\ (x.format = "json" \/ x.allow)
    BY <1>5, <1>8 DEF EmInv, Em!SummariesAreNamed
<1>10. Em!SummariesAreNamed' BY <1>9 DEF Em!SummariesAreNamed
<1>11. emMissed' = {} BY <1>1 DEF EmInv
<1>12. QED BY <1>1, <1>4, <1>10, <1>11, EmStep

\* What Mail changes now, no query that is over could have found.
LEMMA EmArrives ==
    ASSUME EmInv, Em!MailChanges
    PROVE  EmInv'
<1>1. UNCHANGED <<emNow, emProc, emMissed, emExported>> BY DEF Em!MailChanges
<1>0. PICK m \in Message : \E row :
        /\ row = None \/ EmRow(row)
        /\ emIndex' = [emIndex EXCEPT ![m] = row] /\ emChanged' = [emChanged EXCEPT ![m] = emNow]
    <2>1. \A s, u : EmRow(Em!Indexed(s, u)) BY DEF EmRow, Em!Indexed, Em!Row
    <2>2. PICK m \in Message :
            /\ \/ emIndex[m] = None /\ \E s \in BOOLEAN : emIndex' = [emIndex EXCEPT ![m] = Em!Indexed(s, TRUE)]
               \/ emIndex[m] # None /\ \E r \in {None, Em!Indexed(TRUE, emIndex[m].unread),
                        Em!Indexed(emIndex[m].body = "summary", FALSE)} :
                    r # emIndex[m] /\ emIndex' = [emIndex EXCEPT ![m] = r]
            /\ emChanged' = [emChanged EXCEPT ![m] = emNow]
        BY DEF Em!MailChanges
    <2>3. \E row : (row = None \/ EmRow(row)) /\ emIndex' = [emIndex EXCEPT ![m] = row]
        BY <2>1, <2>2
    <2>4. QED BY <2>2, <2>3
<1>2. PICK row :
        /\ row = None \/ EmRow(row)
        /\ emIndex' = [emIndex EXCEPT ![m] = row] /\ emChanged' = [emChanged EXCEPT ![m] = emNow]
    BY <1>0
<1>3. /\ emNow \in Nat /\ emNow' = emNow
      /\ DOMAIN emIndex' = Message /\ \A o \in Message : emIndex'[o] = None \/ EmRow(emIndex'[o])
      /\ DOMAIN emChanged' = Message
      /\ \A o \in Message : emChanged'[o] \in Nat /\ emChanged'[o] <= emNow'
    BY <1>1, <1>2 DEF EmInv
<1>4. emChanged'[m] = emNow /\ \A o \in Message \ {m} : emChanged'[o] = emChanged[o] /\ emIndex'[o] = emIndex[o]
    BY <1>2 DEF EmInv
<1>5. ASSUME NEW q \in Reader
      PROVE  emProc'[q] = Em!Idle \/ EmOk(emProc'[q], emNow', emIndex', emChanged')
    <2>1. emProc'[q] = emProc[q] BY <1>1
    <2>2. CASE emProc[q] = Em!Idle BY <2>1, <2>2
    <2>3. CASE EmOk(emProc[q], emNow, emIndex, emChanged)
        <3>1. EmWaiting(emProc[q], emNow') BY <1>3, <2>3 DEF EmOk
        <3>2. EmLooked(emProc[q], emNow', emIndex', emChanged')
            <4>1. SUFFICES ASSUME emProc[q].at = "check", ~emProc[q].cmd.fixture, emProc[q].found = {},
                                  NEW o \in Message, emChanged'[o] + emProc[q].timer < emNow'
                           PROVE  ~EmWanted(emProc[q], emIndex', o)
                BY DEF EmLooked
            <4>2. emProc[q].timer \in Nat BY <2>3 DEF EmOk
            <4>3. o # m BY <1>3, <1>4, <4>1, <4>2
            <4>4. emChanged'[o] = emChanged[o] /\ emIndex'[o] = emIndex[o] BY <1>4, <4>3
            <4>5. ~EmWanted(emProc[q], emIndex, o) BY <1>3, <2>3, <4>1, <4>4 DEF EmOk, EmLooked
            <4>6. QED BY <4>4, <4>5 DEF EmWanted
        <3>3. EmOk(emProc[q], emNow', emIndex', emChanged') BY <2>3, <3>1, <3>2 DEF EmOk
        <3>4. QED BY <2>1, <3>3
    <2>4. QED BY <2>2, <2>3 DEF EmInv
<1>6. EmAll' BY <1>5, EmAllNext
<1>7. (/\ emNow \in Nat
       /\ DOMAIN emIndex = Message /\ \A o \in Message : emIndex[o] = None \/ EmRow(emIndex[o])
       /\ DOMAIN emChanged = Message /\ \A o \in Message : emChanged[o] \in Nat /\ emChanged[o] <= emNow)'
    BY <1>3 DEF EmRow
<1>8. /\ DOMAIN emProc' = Reader /\ emMissed' = {} /\ Em!SummariesAreNamed'
    BY <1>1 DEF EmInv, Em!SummariesAreNamed
<1>9. QED BY <1>6, <1>7, <1>8 DEF EmInv, EmAll

\* Time passes in queries and in pauses.
LEMMA EmTicks ==
    ASSUME EmInv, Em!Tick
    PROVE  EmInv'
<1>1. /\ emNow' = emNow + 1 /\ UNCHANGED <<emIndex, emChanged, emMissed, emExported>>
      /\ emProc' = [p \in Reader |-> IF emProc[p].at = "idle" THEN Em!Idle
                                     ELSE [emProc[p] EXCEPT !.timer = emProc[p].timer + 1]]
    BY DEF Em!Tick, Em!Mail, Em!At
<1>2. emNow \in Nat BY DEF EmInv
<1>3. ASSUME NEW q \in Reader, emProc[q].at # "idle"
      PROVE  EmOk([emProc[q] EXCEPT !.timer = emProc[q].timer + 1], emNow + 1, emIndex, emChanged)
    <2> DEFINE r == [emProc[q] EXCEPT !.timer = emProc[q].timer + 1]
    <2>1. EmOk(emProc[q], emNow, emIndex, emChanged) BY <1>3, EmAt
    <2>2. /\ DOMAIN r = DOMAIN emProc[q] /\ r.at = emProc[q].at /\ r.cmd = emProc[q].cmd
          /\ r.timer = emProc[q].timer + 1 /\ r.start = emProc[q].start
          /\ r.found = emProc[q].found /\ r.boxes = emProc[q].boxes
        BY <2>1 DEF EmOk
    <2> HIDE DEF r
    <2>3. \/ emProc[q].at = "check" /\ emProc[q].timer < Slow
          \/ emProc[q].at = "sleep" /\ emProc[q].timer < EmPause(emProc[q])
        BY <1>3 DEF Em!Tick, Em!At, EmPause, Em!Cmd
    <2>4. emProc[q].cmd.op \in Em!Waits /\ emProc[q].timer \in Nat BY <2>1, <2>3 DEF EmOk
    <2>5. EmDeadline(r) = EmDeadline(emProc[q]) /\ EmPause(r) = EmPause(emProc[q])
        BY <2>2 DEF EmDeadline, EmPause
    <2>6. EmDeadline(r) \in Nat /\ EmPause(r) \in Nat
        BY <1>2, <2>1, <2>4, <2>5, EmNumbers DEF EmOk
    <2>7. EmWaiting(r, emNow + 1)
        <3>1. CASE emProc[q].at = "check"
            <4>1. emNow < EmDeadline(r) + EmPause(r) + emProc[q].timer
                BY <2>1, <2>4, <2>5, <3>1 DEF EmOk, EmWaiting, EmInTime
            <4>2. r.timer <= Slow /\ emNow + 1 < EmDeadline(r) + EmPause(r) + r.timer
                BY <1>2, <2>2, <2>3, <2>4, <2>6, <3>1, <4>1, MailAssumption
            <4>3. QED BY <2>1, <2>2, <2>4, <3>1, <4>2 DEF EmOk, EmWaiting, EmInTime
        <3>2. CASE emProc[q].at = "sleep"
            <4>1. emNow < EmDeadline(r) + emProc[q].timer
                BY <2>1, <2>4, <2>5, <3>2 DEF EmOk, EmWaiting, EmInTime
            <4>2. r.timer <= EmPause(r) /\ emNow + 1 < EmDeadline(r) + r.timer
                BY <1>2, <2>2, <2>3, <2>4, <2>5, <2>6, <3>2, <4>1
            <4>3. QED BY <2>1, <2>2, <2>4, <3>2, <4>2 DEF EmOk, EmWaiting, EmInTime
        <3>3. QED BY <2>3, <3>1, <3>2
    <2>8. EmLooked(r, emNow + 1, emIndex, emChanged)
        <3>1. SUFFICES ASSUME r.at = "check", ~r.cmd.fixture, r.found = {},
                              NEW o \in Message, emChanged[o] + r.timer < emNow + 1
                       PROVE  ~EmWanted(r, emIndex, o)
            BY DEF EmLooked
        <3>2. emChanged[o] \in Nat BY DEF EmInv
        <3>3. emChanged[o] + emProc[q].timer < emNow BY <1>2, <2>2, <2>4, <3>1, <3>2
        <3>4. ~EmWanted(emProc[q], emIndex, o) BY <2>1, <2>2, <3>1, <3>3 DEF EmOk, EmLooked
        <3>5. QED BY <2>2, <3>4 DEF EmWanted
    <2>9. EmHolds(r) BY <2>1, <2>2, <2>3 DEF EmHolds, EmOk
    <2>10. EmOk(r, emNow + 1, emIndex, emChanged)
        BY <2>1, <2>2, <2>4, <2>7, <2>8, <2>9 DEF EmOk
    <2>11. QED BY <2>10 DEF r
<1>4. ASSUME NEW q \in Reader
      PROVE  emProc'[q] = Em!Idle \/ EmOk(emProc'[q], emNow', emIndex', emChanged')
    <2>1. CASE emProc[q].at = "idle" BY <1>1, <2>1
    <2>2. CASE emProc[q].at # "idle"
        <3>1. emProc'[q] = [emProc[q] EXCEPT !.timer = emProc[q].timer + 1] BY <1>1, <2>2
        <3>2. emNow' = emNow + 1 /\ emIndex' = emIndex /\ emChanged' = emChanged BY <1>1
        <3>3. EmOk([emProc[q] EXCEPT !.timer = emProc[q].timer + 1], emNow + 1, emIndex, emChanged)
            BY <1>3, <2>2
        <3>4. EmOk(emProc'[q], emNow', emIndex', emChanged') BY <3>1, <3>2, <3>3
        <3>5. QED BY <3>4
    <2>3. QED BY <2>1, <2>2
<1>5. EmAll' BY <1>4, EmAllNext
<1>6. (/\ emNow \in Nat
       /\ DOMAIN emIndex = Message /\ \A o \in Message : emIndex[o] = None \/ EmRow(emIndex[o])
       /\ DOMAIN emChanged = Message)'
    BY <1>1, <1>2 DEF EmInv, EmRow
<1>7. (\A o \in Message : emChanged[o] \in Nat /\ emChanged[o] <= emNow)'
    <2>1. \A o \in Message : emChanged[o] \in Nat /\ emChanged[o] <= emNow BY DEF EmInv
    <2>2. QED BY <1>1, <1>2, <2>1
<1>8. /\ DOMAIN emProc' = Reader /\ emMissed' = {} /\ Em!SummariesAreNamed'
    BY <1>1 DEF EmInv, Em!SummariesAreNamed
<1>9. QED BY <1>5, <1>6, <1>7, <1>8 DEF EmInv, EmAll

LEMMA EmEnds ==
    ASSUME EmInv, NEW p \in Reader, Em!Printed(p) \/ Em!Kill(p)
    PROVE  EmInv'
BY EmTurns DEF Em!Printed, Em!Kill, Em!Finish, EmCalm, Em!Mail

LEMMA EmNext ==
    ASSUME EmInv, Em!Next
    PROVE  EmInv'
BY EmTicks, EmArrives, EmStarts, EmLists, EmQueries, EmChecks, EmWakes, EmEnds, EmGets, EmHydrates,
   EmExports DEF Em!Next

LEMMA EmInit ==
    ASSUME Em!Init
    PROVE  EmInv
BY DEF Em!Init, EmInv, Em!SummariesAreNamed

LEMMA EmStays ==
    ASSUME EmInv, UNCHANGED emState
    PROVE  EmInv'
<1>1. ASSUME NEW q \in Reader
      PROVE  emProc'[q] = Em!Idle \/ EmOk(emProc'[q], emNow', emIndex', emChanged')
    <2>1. emProc' = emProc /\ emNow' = emNow /\ emIndex' = emIndex /\ emChanged' = emChanged
        BY DEF emState
    <2>2. emProc[q] = Em!Idle \/ EmOk(emProc[q], emNow, emIndex, emChanged) BY DEF EmInv
    <2>3. QED BY <2>1, <2>2
<1>2. EmAll' BY <1>1, EmAllNext
<1>3. (/\ emNow \in Nat
       /\ DOMAIN emIndex = Message /\ \A o \in Message : emIndex[o] = None \/ EmRow(emIndex[o])
       /\ DOMAIN emChanged = Message
       /\ \A o \in Message : emChanged[o] \in Nat /\ emChanged[o] <= emNow)'
    BY DEF EmInv, EmRow, emState
<1>4. /\ DOMAIN emProc' = Reader /\ emMissed' = {} /\ Em!SummariesAreNamed'
    BY DEF EmInv, Em!SummariesAreNamed, emState
<1>5. QED BY <1>2, <1>3, <1>4 DEF EmInv, EmAll

\* No wait is too late.
LEMMA EmLate ==
    ASSUME EmInv
    PROVE  Em!WaitsEndInTime
<1>1. SUFFICES ASSUME NEW p \in Reader, emProc[p].at # "idle", emProc[p].cmd.op \in Em!Waits
               PROVE  emNow < EmDeadline(emProc[p]) + EmPause(emProc[p]) + Slow
    BY DEF Em!WaitsEndInTime, Em!At, Em!Cmd, Em!Deadline, EmDeadline, EmPause
<1>2. EmOk(emProc[p], emNow, emIndex, emChanged) /\ emNow \in Nat BY <1>1, EmAt DEF EmInv
<1>3. EmDeadline(emProc[p]) \in Nat /\ EmPause(emProc[p]) \in Nat BY <1>1, <1>2, EmNumbers DEF EmOk
<1>4. emProc[p].at \in {"boxes", "query", "check", "sleep", "found"} /\ emProc[p].timer \in Nat
    BY <1>1, <1>2 DEF EmOk, EmPlaces, EmHolds, Em!Waits, Em!Single
<1>5. EmInTime(emProc[p], emNow) BY <1>1, <1>2 DEF EmOk, EmWaiting
<1>6. QED BY <1>2, <1>3, <1>4, <1>5, MailAssumption DEF EmInTime

\* The inductive invariant of agent-email.
THEOREM MailInvariant == ViewsSpec => [](tool = "email" => EmInv)
<1> DEFINE I == tool = "email" => EmInv
<1>1. ViewsInit => I BY EmInit DEF ViewsInit
<1>2. I /\ [ViewsNext]_viewsVars => I'
    <2>1. SUFFICES ASSUME I, [ViewsNext]_viewsVars, tool' = "email" PROVE EmInv'
        OBVIOUS
    <2>2. tool = "email" /\ (Em!Next \/ UNCHANGED emState) BY <2>1, ViewsDo
    <2>3. QED BY <2>1, <2>2, EmNext, EmStays
<1>3. QED BY <1>1, <1>2, PTL DEF ViewsSpec

\* agent-email: a wait that gave up has missed no message it could have found a query's
\* time before its deadline, every wait ends within its time, a pause and a query, and
\* no summary is exported as the text of a message that was not fetched.
THEOREM WaitsMissNothing == ViewsSpec => []NothingIsMissed
<1>1. (tool = "email" => EmInv) => NothingIsMissed
    BY EmLate DEF EmInv, NothingIsMissed, Em!NothingIsMissed
<1>2. QED BY <1>1, MailInvariant, PTL

-----------------------------------------------------------------------------
(* agent-vision.                                                           *)

VsPlaces == {"loaded", "round", "capture", "judge", "detect", "detected", "pause", "record",
             "recording", "written", "save", "rewrite"}
VsFields == {"at", "cmd", "s", "timer", "elapsed", "frame", "last", "seen", "names"}

\* How late a watch may be where it is.
VsInTime(r) ==
    LET T == r.cmd.timeout IN
    /\ r.at \in VsPlaces \ {"record", "recording", "written", "save", "rewrite"}
    /\ r.at = "loaded" => r.elapsed = 0
    /\ r.at = "round" => r.elapsed <= T + 2 * VsLimit + 1
    /\ r.at = "capture" => r.timer <= VsLimit /\ r.elapsed <= T + r.timer
    /\ r.at = "judge" => r.elapsed <= T + VsLimit
    /\ r.at = "detect" => r.timer <= VsLimit /\ r.elapsed <= T + VsLimit + r.timer
    /\ r.at = "detected" => r.elapsed <= T + 2 * VsLimit
    /\ r.at = "pause" => r.timer <= 1 /\ r.elapsed <= T + 2 * VsLimit + r.timer

VsOk(r) ==
    /\ DOMAIN r = VsFields /\ r.at \in VsPlaces
    /\ r.timer \in Nat /\ r.elapsed \in Nat
    /\ DOMAIN r.s = {"source", "count"}
    /\ r.cmd.op = "watch" /\ r.cmd.timeout # 0 => r.cmd.timeout \in Nat /\ VsInTime(r)
    /\ r.at = "record" => r.cmd.op = "record"

\* While commands come one after another, the session of the one that runs names the
\* source that was set last, unless it is about to set another.
VsKeeps(r, source) ==
    ~(r.at \in {"save", "rewrite"} /\ r.cmd.op \in {"source", "disconnect"}) => r.s.source = source

VsAtPeace ==
    /\ \A p, q \in Proc : vsProc[p].at # "idle" /\ vsProc[q].at # "idle" => p = q
    /\ \A p \in Proc : vsProc[p].at # "idle" => VsKeeps(vsProc[p], vsChosen)
    /\ (\A p \in Proc : vsProc[p].at # "rewrite") => vsSession.source = vsChosen

VsInv ==
    /\ DOMAIN vsProc = Proc /\ DOMAIN vsSession = {"source", "count"} /\ vsAlone \in BOOLEAN
    /\ \A p \in Proc : vsProc[p] = Vs!Idle \/ VsOk(vsProc[p])
    /\ vsAlone => VsAtPeace

LEMMA VsAt ==
    ASSUME VsInv, NEW p \in Proc, vsProc[p].at # "idle"
    PROVE  VsOk(vsProc[p])
BY DEF VsInv, Vs!Idle

LEMMA VsPlain == Vs!Idle.at = "idle" /\ \A r : VsOk(r) => r.at # "idle"
BY DEF Vs!Idle, VsOk, VsPlaces

\* A step of one command.
LEMMA VsStep ==
    ASSUME VsInv, NEW p \in Proc, NEW r, Vs!Becomes(p, r), r = Vs!Idle \/ VsOk(r),
           DOMAIN vsSession' = {"source", "count"}, vsAlone' \in BOOLEAN,
           vsAlone' => VsAtPeace'
    PROVE  VsInv'
<1>1. /\ DOMAIN vsProc' = Proc /\ vsProc'[p] = r
      /\ \A q \in Proc \ {p} : vsProc'[q] = vsProc[q]
    BY DEF VsInv, Vs!Becomes
<1>2. ASSUME NEW q \in Proc
      PROVE  vsProc'[q] = Vs!Idle \/ VsOk(vsProc'[q])
    <2>1. CASE q = p BY <1>1, <2>1
    <2>2. CASE q # p
        <3>1. vsProc'[q] = vsProc[q] BY <1>1, <2>2
        <3>2. CASE vsProc[q] = Vs!Idle BY <3>1, <3>2
        <3>3. CASE VsOk(vsProc[q]) BY <3>1, <3>3
        <3>4. QED BY <3>2, <3>3 DEF VsInv
    <2>3. QED BY <2>1, <2>2
<1>3. (\A q \in Proc : vsProc[q] = Vs!Idle \/ VsOk(vsProc[q]))'
    BY <1>2 DEF VsOk, Vs!Idle, VsPlaces, VsFields, VsInTime
<1>4. QED BY <1>1, <1>3 DEF VsInv

\* The only command that runs goes on, and does not write yet.
LEMMA VsPeace ==
    ASSUME VsInv, NEW p \in Proc, NEW r, Vs!Becomes(p, r), r = Vs!Idle \/ VsOk(r),
           vsProc[p].at \notin {"idle", "save", "rewrite"}, r.at # "rewrite",
           r = Vs!Idle \/ r.s.source = vsProc[p].s.source
               \/ (r.at = "save" /\ r.cmd.op \in {"source", "disconnect"}),
           UNCHANGED <<vsSession, vsChosen, vsAlone>>, vsAlone'
    PROVE  VsAtPeace'
<1>1. /\ vsProc'[p] = r /\ \A q \in Proc \ {p} : vsProc'[q] = vsProc[q]
    BY DEF VsInv, Vs!Becomes
<1>2. VsAtPeace BY DEF VsInv
<1>3. \A q \in Proc \ {p} : vsProc[q].at = "idle" /\ vsProc'[q].at = "idle"
    BY <1>1, <1>2 DEF VsAtPeace
<1>4. vsProc[p].s.source = vsChosen BY <1>2 DEF VsAtPeace, VsKeeps
<1>5. \A q \in Proc : vsProc[q].at # "rewrite" BY <1>3
<1>6. vsSession'.source = vsChosen' BY <1>2, <1>5 DEF VsAtPeace
<1>7. \A q, o \in Proc : vsProc'[q].at # "idle" /\ vsProc'[o].at # "idle" => q = o BY <1>3
<1>8. r # Vs!Idle => VsKeeps(r, vsChosen') BY <1>4, VsPlain DEF VsKeeps
<1>9. \A q \in Proc : vsProc'[q].at # "idle" => VsKeeps(vsProc'[q], vsChosen')
    <2>1. SUFFICES ASSUME NEW q \in Proc, vsProc'[q].at # "idle" PROVE VsKeeps(vsProc'[q], vsChosen')
        OBVIOUS
    <2>2. q = p BY <1>3, <2>1
    <2>3. QED BY <1>1, <1>8, <2>1, <2>2, VsPlain
<1>10. (\A q \in Proc : vsProc[q].at # "idle" => VsKeeps(vsProc[q], vsChosen))'
    BY <1>9 DEF VsKeeps
<1>11. QED BY <1>6, <1>7, <1>10 DEF VsAtPeace

LEMMA VsTurns ==
    ASSUME VsInv, NEW p \in Proc, NEW r, Vs!Becomes(p, r), r = Vs!Idle \/ VsOk(r),
           vsProc[p].at \notin {"idle", "save", "rewrite"}, r.at # "rewrite",
           r = Vs!Idle \/ r.s.source = vsProc[p].s.source
               \/ (r.at = "save" /\ r.cmd.op \in {"source", "disconnect"}),
           UNCHANGED <<vsSession, vsChosen, vsAlone>>
    PROVE  VsInv'
<1>1. DOMAIN vsSession' = {"source", "count"} /\ vsAlone' \in BOOLEAN BY DEF VsInv
<1>2. vsAlone' => VsAtPeace' BY VsPeace
<1>3. QED BY <1>1, <1>2, VsStep

LEMMA VsEnds ==
    ASSUME VsInv, NEW p \in Proc, Vs!Finish(p), vsProc[p].at \notin {"idle", "save", "rewrite"},
           UNCHANGED <<vsSession, vsChosen, vsAlone>>
    PROVE  VsInv'
BY VsTurns, VsPlain DEF Vs!Finish

\* A command that goes on with the session it loaded.
LEMMA VsMoves ==
    ASSUME VsInv, NEW p \in Proc, NEW r, Vs!Becomes(p, r), DOMAIN r = VsFields,
           vsProc[p].at \notin {"idle", "save", "rewrite"},
           r.at \in VsPlaces \ {"save", "rewrite"}, r.timer \in Nat,
           r.cmd = vsProc[p].cmd, r.s = vsProc[p].s, r.elapsed = vsProc[p].elapsed,
           r.at = "record" => r.cmd.op = "record",
           r.cmd.op = "watch" /\ r.cmd.timeout # 0 => VsInTime(r),
           UNCHANGED <<vsSession, vsChosen, vsAlone>>
    PROVE  VsInv'
<1>1. VsOk(vsProc[p]) BY VsAt
<1>2. VsOk(r) BY <1>1 DEF VsOk
<1>3. QED BY <1>2, VsTurns

LEMMA VsGoes ==
    ASSUME VsInv, NEW p \in Proc, NEW at \in VsPlaces \ {"save", "rewrite"}, Vs!Goes(p, at),
           vsProc[p].at \notin {"idle", "save", "rewrite"},
           at = "record" => vsProc[p].cmd.op = "record",
           \A r : r.at = at /\ r.timer = 0 /\ r.elapsed = vsProc[p].elapsed /\ r.cmd = vsProc[p].cmd
                  /\ r.cmd.op = "watch" /\ r.cmd.timeout # 0 => VsInTime(r),
           UNCHANGED <<vsSession, vsChosen, vsAlone>>
    PROVE  VsInv'
<1> DEFINE r == [vsProc[p] EXCEPT !.at = at, !.timer = 0]
<1>1. VsOk(vsProc[p]) BY VsAt
<1>2. /\ DOMAIN r = VsFields /\ r.at = at /\ r.timer = 0 /\ r.cmd = vsProc[p].cmd
      /\ r.s = vsProc[p].s /\ r.elapsed = vsProc[p].elapsed
    BY <1>1 DEF VsOk, VsFields
<1>3. Vs!Becomes(p, r) BY DEF Vs!Goes
<1> HIDE DEF r
<1>4. r.cmd.op = "watch" /\ r.cmd.timeout # 0 => VsInTime(r) BY <1>2
<1>5. QED BY <1>2, <1>3, <1>4, VsMoves

LEMMA VsLoads ==
    ASSUME VsInv, NEW p \in Proc, NEW c \in VsAsked[p], Vs!Load(p, c)
    PROVE  VsInv'
<1> DEFINE r == [at |-> "loaded", cmd |-> c, s |-> vsSession, timer |-> 0, elapsed |-> 0,
                 frame |-> None, last |-> None, seen |-> FALSE, names |-> {}]
<1>1. Vs!Becomes(p, r) /\ vsProc[p].at = "idle" BY DEF Vs!Load, Vs!At
<1>2. /\ DOMAIN r = VsFields /\ r.at = "loaded" /\ r.cmd = c /\ r.s = vsSession
      /\ r.timer = 0 /\ r.elapsed = 0
    BY DEF VsFields
<1> HIDE DEF r
<1>3. UNCHANGED <<vsSession, vsChosen>> BY DEF Vs!Load, Vs!Files
<1>4. DOMAIN vsSession = {"source", "count"} /\ vsAlone \in BOOLEAN BY DEF VsInv
<1>5. VsOk(r)
    BY <1>2, <1>4, VisionAssumption DEF VsOk, VsPlaces, VsInTime
<1>6. vsAlone' = (vsAlone /\ \A q \in Proc : vsProc[q].at = "idle") BY DEF Vs!Load, Vs!At
<1>7. ASSUME vsAlone' PROVE VsAtPeace'
    <2>1. vsAlone /\ \A q \in Proc : vsProc[q].at = "idle" BY <1>6, <1>7
    <2>2. vsSession.source = vsChosen BY <2>1 DEF VsInv, VsAtPeace
    <2>3. vsProc'[p] = r /\ \A q \in Proc \ {p} : vsProc'[q] = vsProc[q]
        BY <1>1 DEF VsInv, Vs!Becomes
    <2>4. \A q \in Proc : vsProc'[q].at # "idle" => q = p BY <2>1, <2>3
    <2>5. VsKeeps(vsProc'[p], vsChosen') BY <1>2, <1>3, <2>2, <2>3 DEF VsKeeps
    <2>6. (\A q \in Proc : vsProc[q].at # "idle" => VsKeeps(vsProc[q], vsChosen))'
        BY <2>4, <2>5 DEF VsKeeps
    <2>7. vsSession'.source = vsChosen' BY <1>3, <2>2
    <2>8. QED BY <2>4, <2>6, <2>7 DEF VsAtPeace
<1>8. vsAlone' \in BOOLEAN BY <1>6
<1>9. QED BY <1>1, <1>3, <1>4, <1>5, <1>7, <1>8, VsStep

\* A command that is about to save.
LEMMA VsSaves ==
    ASSUME VsInv, NEW p \in Proc, NEW s, Vs!Saving(p, s), DOMAIN s = {"source", "count"},
           vsProc[p].at \notin {"idle", "save", "rewrite"}, vsProc[p].cmd.op # "watch",
           s.source = vsProc[p].s.source \/ vsProc[p].cmd.op \in {"source", "disconnect"},
           UNCHANGED <<vsSession, vsChosen, vsAlone>>
    PROVE  VsInv'
<1> DEFINE r == [vsProc[p] EXCEPT !.at = "save", !.s = s]
<1>1. VsOk(vsProc[p]) BY VsAt
<1>2. /\ DOMAIN r = VsFields /\ r.at = "save" /\ r.timer = vsProc[p].timer
      /\ r.cmd = vsProc[p].cmd /\ r.s = s /\ r.elapsed = vsProc[p].elapsed
    BY <1>1 DEF VsOk, VsFields
<1>3. Vs!Becomes(p, r) BY DEF Vs!Saving
<1> HIDE DEF r
<1>4. VsOk(r) BY <1>1, <1>2 DEF VsOk, VsPlaces
<1>5. QED BY <1>2, <1>3, <1>4, VsTurns

LEMMA VsCommands ==
    ASSUME VsInv, NEW p \in Proc,
           Vs!Show(p) \/ Vs!SetSource(p) \/ Vs!Disconnect(p) \/ Vs!Snapshot(p) \/ Vs!Look(p)
    PROVE  VsInv'
<1>1. UNCHANGED <<vsSession, vsChosen, vsAlone>> /\ vsProc[p].at \in {"loaded", "judge"}
    BY DEF Vs!Show, Vs!SetSource, Vs!Disconnect, Vs!Snapshot, Vs!Look, Vs!Files, Vs!At
<1>2. VsOk(vsProc[p]) BY <1>1, VsAt
<1>3. CASE Vs!Finish(p) BY <1>1, <1>3, VsEnds
<1>4. CASE Vs!SetSource(p) /\ ~Vs!Finish(p)
    <2>1. PICK s : s = [source |-> vsProc[p].cmd.arg, count |-> 0] OBVIOUS
    <2>2. Vs!Saving(p, s) /\ vsProc[p].cmd.op = "source" /\ DOMAIN s = {"source", "count"}
        BY <1>4, <2>1 DEF Vs!SetSource, Vs!Cmd, Vs!Op
    <2>3. QED BY <1>1, <2>2, VsSaves
<1>5. CASE Vs!Disconnect(p)
    <2>1. PICK s : s = [vsProc[p].s EXCEPT !.source = None] OBVIOUS
    <2>2. Vs!Saving(p, s) /\ vsProc[p].cmd.op = "disconnect" /\ DOMAIN s = {"source", "count"}
        BY <1>2, <1>5, <2>1 DEF Vs!Disconnect, Vs!Op, VsOk
    <2>3. QED BY <1>1, <2>2, VsSaves
<1>6. CASE Vs!Snapshot(p)
    <2>1. PICK s : s = [vsProc[p].s EXCEPT !.count = @ + 1] OBVIOUS
    <2>2. /\ Vs!Saving(p, s) /\ vsProc[p].cmd.op = "snapshot" /\ DOMAIN s = {"source", "count"}
          /\ s.source = vsProc[p].s.source
        BY <1>2, <1>6, <2>1 DEF Vs!Snapshot, Vs!Op, VsOk
    <2>3. QED BY <1>1, <2>2, VsSaves
<1>7. QED BY <1>3, <1>4, <1>5, <1>6 DEF Vs!Show, Vs!Look

LEMMA VsLearns ==
    ASSUME VsInv, NEW p \in Proc, Vs!LearnFace(p) \/ Vs!Stalled(p)
    PROVE  VsInv'
<1>1. UNCHANGED <<vsSession, vsChosen, vsAlone>> /\ Vs!Finish(p)
    BY DEF Vs!LearnFace, Vs!Stalled, Vs!Files
<1>2. vsProc[p].at \notin {"idle", "save", "rewrite"}
    BY DEF Vs!LearnFace, Vs!Stalled, Vs!At, Vs!Taking
<1>3. QED BY <1>1, <1>2, VsEnds

LEMMA VsBegins ==
    ASSUME VsInv, NEW p \in Proc, Vs!Begin(p)
    PROVE  VsInv'
<1>1. UNCHANGED <<vsSession, vsChosen, vsAlone>> /\ vsProc[p].at = "loaded"
    BY DEF Vs!Begin, Vs!Files, Vs!At
<1>2. VsOk(vsProc[p]) BY <1>1, VsAt
<1>3. CASE Vs!Finish(p) BY <1>1, <1>3, VsEnds
<1>4. CASE ~Vs!Finish(p)
    <2>1. PICK at : at = IF vsProc[p].cmd.op = "watch" THEN "round"
                         ELSE IF vsProc[p].cmd.op = "record" THEN "record" ELSE "capture"
        OBVIOUS
    <2>2. Vs!Goes(p, at) BY <1>4, <2>1 DEF Vs!Begin, Vs!Op
    <2>3. at \in VsPlaces \ {"save", "rewrite"} BY <2>1 DEF VsPlaces
    <2>4. ASSUME NEW r, r.at = at, r.timer = 0, r.elapsed = vsProc[p].elapsed, r.cmd = vsProc[p].cmd,
                 r.cmd.op = "watch" /\ r.cmd.timeout # 0
          PROVE  VsInTime(r)
        BY <1>1, <1>2, <2>1, <2>3, <2>4, VisionAssumption DEF VsOk, VsInTime
    <2>5. QED BY <1>1, <2>1, <2>2, <2>3, <2>4, VsGoes
<1>5. QED BY <1>3, <1>4

LEMMA VsPauses ==
    ASSUME VsInv, NEW p \in Proc, Vs!Round(p) \/ Vs!Pause(p) \/ Vs!Written(p)
    PROVE  VsInv'
<1>1. UNCHANGED <<vsSession, vsChosen, vsAlone>> /\ vsProc[p].at \in {"round", "pause", "written"}
    BY DEF Vs!Round, Vs!Pause, Vs!Written, Vs!Files, Vs!At
<1>2. VsOk(vsProc[p]) BY <1>1, VsAt
<1>3. CASE Vs!Finish(p) BY <1>1, <1>3, VsEnds
<1>4. CASE Vs!Round(p) /\ ~Vs!Finish(p)
    <2>1. Vs!Goes(p, "capture") /\ vsProc[p].at = "round" /\ ~Vs!TimeIsUp(p)
        BY <1>4 DEF Vs!Round, Vs!At
    <2>2. ~(vsProc[p].cmd.timeout > 0 /\ vsProc[p].elapsed > vsProc[p].cmd.timeout)
        BY <2>1 DEF Vs!TimeIsUp, Vs!Cmd
    <2>3. ASSUME NEW r, r.at = "capture", r.timer = 0, r.elapsed = vsProc[p].elapsed,
                 r.cmd = vsProc[p].cmd, r.cmd.op = "watch" /\ r.cmd.timeout # 0
          PROVE  VsInTime(r)
        BY <1>2, <2>2, <2>3, VisionAssumption DEF VsOk, VsInTime, VsPlaces
    <2>4. QED BY <1>1, <2>1, <2>3, VsGoes DEF VsPlaces
<1>5. CASE Vs!Pause(p)
    <2>1. PICK at : at = IF vsProc[p].cmd.op = "record" THEN "recording" ELSE "round" OBVIOUS
    <2>2. Vs!Goes(p, at) /\ vsProc[p].at = "pause" BY <1>5, <2>1 DEF Vs!Pause, Vs!Op, Vs!At
    <2>3. at \in VsPlaces \ {"save", "rewrite"} BY <2>1 DEF VsPlaces
    <2>4. ASSUME NEW r, r.at = at, r.timer = 0, r.elapsed = vsProc[p].elapsed, r.cmd = vsProc[p].cmd,
                 r.cmd.op = "watch" /\ r.cmd.timeout # 0
          PROVE  VsInTime(r)
        BY <1>2, <2>1, <2>2, <2>3, <2>4, VisionAssumption DEF VsOk, VsInTime
    <2>5. QED BY <1>1, <2>1, <2>2, <2>3, <2>4, VsGoes
<1>6. CASE Vs!Written(p) /\ ~Vs!Finish(p)
    <2>1. PICK at : at = IF vsProc[p].cmd.kind = "until" THEN "detect" ELSE "pause" OBVIOUS
    <2>2. Vs!Goes(p, at) /\ vsProc[p].at = "written" BY <1>6, <2>1 DEF Vs!Written, Vs!Cmd, Vs!At
    <2>3. at \in VsPlaces \ {"save", "rewrite", "record"} BY <2>1 DEF VsPlaces
    <2>4. ~(vsProc[p].cmd.op = "watch" /\ vsProc[p].cmd.timeout # 0)
        BY <1>2, <2>2 DEF VsOk, VsInTime
    <2>5. QED BY <1>1, <2>2, <2>3, <2>4, VsGoes
<1>7. QED BY <1>3, <1>4, <1>5, <1>6

LEMMA VsFrames ==
    ASSUME VsInv, NEW p \in Proc, Vs!Frame(p)
    PROVE  VsInv'
<1>1. /\ UNCHANGED <<vsSession, vsChosen, vsAlone>>
      /\ vsProc[p].at \in {"capture", "detect", "record", "recording"}
      /\ Vs!Got(p, vsScene) \/ Vs!Got(p, None)
    BY DEF Vs!Frame, Vs!Files, Vs!Taking
<1>2. VsOk(vsProc[p]) BY <1>1, VsAt
<1>3. CASE Vs!Finish(p) BY <1>1, <1>3, VsEnds
<1>4. CASE Vs!Goes(p, "pause") /\ (vsProc[p].cmd.op = "watch" \/ vsProc[p].at = "detect")
    <2>1. ASSUME NEW r, r.at = "pause", r.timer = 0, r.elapsed = vsProc[p].elapsed,
                 r.cmd = vsProc[p].cmd, r.cmd.op = "watch" /\ r.cmd.timeout # 0
          PROVE  VsInTime(r)
        <3>1. VsInTime(vsProc[p]) /\ r.cmd.timeout \in Nat /\ vsProc[p].timer \in Nat
              /\ vsProc[p].elapsed \in Nat
            BY <1>2, <2>1 DEF VsOk
        <3>2. vsProc[p].at \in {"capture", "detect"} BY <1>1, <3>1 DEF VsInTime
        <3>3. QED BY <2>1, <3>1, <3>2, VisionAssumption DEF VsInTime, VsPlaces
    <2>2. QED BY <1>1, <1>4, <2>1, VsGoes DEF VsPlaces
<1>5. CASE Vs!Goes(p, "recording") /\ vsProc[p].at = "recording"
    <2>1. ~(vsProc[p].cmd.op = "watch" /\ vsProc[p].cmd.timeout # 0)
        BY <1>2, <1>5 DEF VsOk, VsInTime
    <2>2. QED BY <1>1, <1>5, <2>1, VsGoes DEF VsPlaces
<1>6. CASE \E frame :
             Vs!Becomes(p, [vsProc[p] EXCEPT !.frame = frame,
                              !.at = CASE Vs!At(p, "detect") -> "detected"
                                       [] Vs!At(p, "record") -> "recording"
                                       [] Vs!At(p, "recording") -> "written"
                                       [] OTHER -> "judge",
                              !.timer = 0])
    <2>1. PICK frame :
             Vs!Becomes(p, [vsProc[p] EXCEPT !.frame = frame,
                              !.at = CASE Vs!At(p, "detect") -> "detected"
                                       [] Vs!At(p, "record") -> "recording"
                                       [] Vs!At(p, "recording") -> "written"
                                       [] OTHER -> "judge",
                              !.timer = 0])
        BY <1>6
    <2>2. PICK at : at = CASE Vs!At(p, "detect") -> "detected"
                           [] Vs!At(p, "record") -> "recording"
                           [] Vs!At(p, "recording") -> "written"
                           [] OTHER -> "judge"
        OBVIOUS
    <2>3. /\ vsProc[p].at = "detect" => at = "detected"
          /\ vsProc[p].at = "record" => at = "recording"
          /\ vsProc[p].at = "recording" => at = "written"
          /\ vsProc[p].at = "capture" => at = "judge"
        BY <2>2 DEF Vs!At
    <2> DEFINE r == [vsProc[p] EXCEPT !.frame = frame, !.at = at, !.timer = 0]
    <2>4. Vs!Becomes(p, r) BY <2>1, <2>2
    <2>5. /\ DOMAIN r = VsFields /\ r.at = at /\ r.timer = 0 /\ r.cmd = vsProc[p].cmd
          /\ r.s = vsProc[p].s /\ r.elapsed = vsProc[p].elapsed
        BY <1>2 DEF VsOk, VsFields
    <2> HIDE DEF r
    <2>6. at \in VsPlaces \ {"save", "rewrite", "record"} BY <1>1, <2>3 DEF VsPlaces
    <2>7. ASSUME r.cmd.op = "watch" /\ r.cmd.timeout # 0 PROVE VsInTime(r)
        <3>1. VsInTime(vsProc[p]) /\ r.cmd.timeout \in Nat /\ vsProc[p].timer \in Nat
              /\ vsProc[p].elapsed \in Nat
            BY <1>2, <2>5, <2>7 DEF VsOk
        <3>2. vsProc[p].at \in {"capture", "detect"} BY <1>1, <3>1 DEF VsInTime
        <3>3. CASE vsProc[p].at = "capture"
            <4>1. at = "judge" BY <2>3, <3>3
            <4>2. r.elapsed <= r.cmd.timeout + VsLimit
                BY <2>5, <3>1, <3>3, VisionAssumption DEF VsInTime
            <4>3. QED BY <2>5, <2>6, <4>1, <4>2 DEF VsInTime
        <3>4. CASE vsProc[p].at = "detect"
            <4>1. at = "detected" BY <2>3, <3>4
            <4>2. r.elapsed <= r.cmd.timeout + 2 * VsLimit
                BY <2>5, <3>1, <3>4, VisionAssumption DEF VsInTime
            <4>3. QED BY <2>5, <2>6, <4>1, <4>2 DEF VsInTime
        <3>5. QED BY <3>2, <3>3, <3>4
    <2>8. QED BY <1>1, <2>4, <2>5, <2>6, <2>7, VsMoves
<1>7. QED BY <1>1, <1>3, <1>4, <1>5, <1>6 DEF Vs!Got, Vs!Op, Vs!At

LEMMA VsJudges ==
    ASSUME VsInv, NEW p \in Proc, Vs!Judge(p) \/ Vs!Detected(p)
    PROVE  VsInv'
<1>1. UNCHANGED <<vsSession, vsChosen, vsAlone>> /\ vsProc[p].at \in {"judge", "detected"}
    BY DEF Vs!Judge, Vs!Detected, Vs!Files, Vs!At
<1>2. VsOk(vsProc[p]) BY <1>1, VsAt
<1>3. CASE Vs!Finish(p) BY <1>1, <1>3, VsEnds
<1>4. ASSUME NEW r, Vs!Becomes(p, r), DOMAIN r = VsFields, r.timer = 0, r.cmd = vsProc[p].cmd,
             r.s = vsProc[p].s, r.elapsed = vsProc[p].elapsed,
             r.at = "pause" \/ (r.at = "detect" /\ vsProc[p].at = "judge")
      PROVE  VsInv'
    <2>1. ASSUME r.cmd.op = "watch" /\ r.cmd.timeout # 0 PROVE VsInTime(r)
        <3>1. VsInTime(vsProc[p]) /\ r.cmd.timeout \in Nat /\ vsProc[p].elapsed \in Nat
            BY <1>2, <1>4, <2>1 DEF VsOk
        <3>2. QED BY <1>1, <1>4, <3>1, VisionAssumption DEF VsInTime, VsPlaces
    <2>2. QED BY <1>1, <1>4, <2>1, VsMoves DEF VsPlaces
<1>5. CASE Vs!Judge(p) /\ ~Vs!Finish(p)
    <2> DEFINE r == [vsProc[p] EXCEPT !.timer = 0,
                       !.last = IF vsProc[p].cmd.kind = "motion" THEN vsProc[p].frame ELSE @,
                       !.names = IF vsProc[p].cmd.kind = "face" THEN Vs!Names(p) ELSE @,
                       !.at = IF vsProc[p].cmd.kind \in {"object", "enter", "exit"} THEN "detect" ELSE "pause"]
    <2>1. Vs!Becomes(p, r) /\ vsProc[p].at = "judge" BY <1>5 DEF Vs!Judge, Vs!Cmd, Vs!At
    <2>2. /\ DOMAIN r = VsFields /\ r.timer = 0 /\ r.cmd = vsProc[p].cmd /\ r.s = vsProc[p].s
          /\ r.elapsed = vsProc[p].elapsed /\ r.at \in {"detect", "pause"}
        BY <1>2 DEF VsOk, VsFields
    <2> HIDE DEF r
    <2>3. QED BY <1>4, <2>1, <2>2
<1>6. CASE Vs!Detected(p) /\ ~Vs!Finish(p)
    <2>1. CASE Vs!Goes(p, "pause")
        <3> DEFINE r == [vsProc[p] EXCEPT !.at = "pause", !.timer = 0]
        <3>1. Vs!Becomes(p, r) BY <2>1 DEF Vs!Goes
        <3>2. /\ DOMAIN r = VsFields /\ r.timer = 0 /\ r.cmd = vsProc[p].cmd /\ r.s = vsProc[p].s
              /\ r.elapsed = vsProc[p].elapsed /\ r.at = "pause"
            BY <1>2 DEF VsOk, VsFields
        <3> HIDE DEF r
        <3>3. QED BY <1>4, <3>1, <3>2
    <2>2. CASE ~Vs!Goes(p, "pause")
        <3> DEFINE r == [vsProc[p] EXCEPT !.at = "pause", !.timer = 0, !.seen = Vs!There(p)]
        <3>1. Vs!Becomes(p, r) BY <1>6, <2>2 DEF Vs!Detected
        <3>2. /\ DOMAIN r = VsFields /\ r.timer = 0 /\ r.cmd = vsProc[p].cmd /\ r.s = vsProc[p].s
              /\ r.elapsed = vsProc[p].elapsed /\ r.at = "pause"
            BY <1>2 DEF VsOk, VsFields
        <3> HIDE DEF r
        <3>3. QED BY <1>4, <3>1, <3>2
    <2>3. QED BY <2>1, <2>2
<1>7. QED BY <1>3, <1>5, <1>6

LEMMA VsTruncates ==
    ASSUME VsInv, NEW p \in Proc, Vs!Truncate(p)
    PROVE  VsInv'
<1> DEFINE r == [vsProc[p] EXCEPT !.at = "rewrite", !.timer = 0]
<1>1. /\ UNCHANGED <<vsChosen, vsAlone>> /\ vsProc[p].at = "save" /\ Vs!Becomes(p, r)
      /\ vsSession' = Vs!Blank
    BY DEF Vs!Truncate, Vs!Goes, Vs!At
<1>2. VsOk(vsProc[p]) BY <1>1, VsAt
<1>3. /\ DOMAIN r = VsFields /\ r.at = "rewrite" /\ r.timer = 0 /\ r.cmd = vsProc[p].cmd
      /\ r.s = vsProc[p].s /\ r.elapsed = vsProc[p].elapsed
    BY <1>2 DEF VsOk, VsFields
<1> HIDE DEF r
<1>4. VsOk(r) BY <1>1, <1>2, <1>3 DEF VsOk, VsPlaces, VsInTime
<1>5. DOMAIN vsSession' = {"source", "count"} BY <1>1 DEF Vs!Blank
<1>6. /\ vsProc'[p] = r /\ \A q \in Proc \ {p} : vsProc'[q] = vsProc[q]
    BY <1>1 DEF VsInv, Vs!Becomes
<1>7. ASSUME vsAlone' PROVE VsAtPeace'
    <2>1. VsAtPeace BY <1>1, <1>7 DEF VsInv
    <2>2. \A q \in Proc \ {p} : vsProc'[q].at = "idle" BY <1>1, <1>6, <2>1 DEF VsAtPeace
    <2>3. VsKeeps(vsProc[p], vsChosen) BY <1>1, <2>1 DEF VsAtPeace
    <2>4. VsKeeps(vsProc'[p], vsChosen') BY <1>1, <1>3, <1>6, <2>3 DEF VsKeeps
    <2>5. (\A q \in Proc : vsProc[q].at # "idle" => VsKeeps(vsProc[q], vsChosen))'
        BY <2>2, <2>4 DEF VsKeeps
    <2>6. vsProc'[p].at = "rewrite" BY <1>3, <1>6
    <2>7. QED BY <2>2, <2>5, <2>6 DEF VsAtPeace
<1>8. vsAlone' \in BOOLEAN BY <1>1 DEF VsInv
<1>9. QED BY <1>1, <1>4, <1>5, <1>7, <1>8, VsStep

LEMMA VsWrites ==
    ASSUME VsInv, NEW p \in Proc, Vs!Save(p)
    PROVE  VsInv'
<1>1. /\ vsAlone' = vsAlone /\ vsProc[p].at = "rewrite" /\ Vs!Becomes(p, Vs!Idle)
      /\ vsSession' = vsProc[p].s
      /\ vsChosen' = IF vsProc[p].cmd.op \in {"source", "disconnect"} THEN vsProc[p].s.source ELSE vsChosen
    BY DEF Vs!Save, Vs!Finish, Vs!At, Vs!Op
<1>2. VsOk(vsProc[p]) BY <1>1, VsAt
<1>3. DOMAIN vsSession' = {"source", "count"} /\ vsAlone' \in BOOLEAN BY <1>1, <1>2 DEF VsOk, VsInv
<1>4. vsProc'[p] = Vs!Idle /\ \A q \in Proc \ {p} : vsProc'[q] = vsProc[q]
    BY <1>1 DEF VsInv, Vs!Becomes
<1>5. ASSUME vsAlone' PROVE VsAtPeace'
    <2>1. VsAtPeace BY <1>1, <1>5 DEF VsInv
    <2>2. \A q \in Proc : vsProc'[q].at = "idle" BY <1>1, <1>4, <2>1, VsPlain DEF VsAtPeace
    <2>3. VsKeeps(vsProc[p], vsChosen) BY <1>1, <2>1 DEF VsAtPeace
    <2>4. vsSession'.source = vsChosen' BY <1>1, <2>3 DEF VsKeeps
    <2>5. (\A q \in Proc : vsProc[q].at # "idle" => VsKeeps(vsProc[q], vsChosen))'
        BY <2>2
    <2>6. QED BY <2>2, <2>4, <2>5 DEF VsAtPeace
<1>6. QED BY <1>1, <1>3, <1>5, VsStep

LEMMA VsKilled ==
    ASSUME VsInv, NEW p \in Proc, Vs!Kill(p)
    PROVE  VsInv'
<1>1. Vs!Becomes(p, Vs!Idle) /\ vsSession' = vsSession /\ vsAlone' = FALSE
    BY DEF Vs!Kill, Vs!Finish, Vs!Files
<1>2. DOMAIN vsSession' = {"source", "count"} BY <1>1 DEF VsInv
<1>3. QED BY <1>1, <1>2, VsStep

LEMMA VsTicks ==
    ASSUME VsInv, Vs!Tick
    PROVE  VsInv'
<1>1. /\ UNCHANGED <<vsSession, vsChosen, vsAlone>>
      /\ vsProc' = [p \in Proc |-> IF vsProc[p].at = "idle" THEN Vs!Idle ELSE
             [vsProc[p] EXCEPT !.timer = vsProc[p].timer + 1,
                 !.elapsed = IF vsProc[p].elapsed < MaxElapsed THEN vsProc[p].elapsed + 1
                             ELSE vsProc[p].elapsed]]
    BY DEF Vs!Tick, Vs!Files, Vs!At
<1>2. ASSUME NEW p \in Proc, vsProc[p].at # "idle"
      PROVE  /\ VsOk(vsProc'[p]) /\ vsProc'[p].at = vsProc[p].at
             /\ vsProc'[p].cmd = vsProc[p].cmd /\ vsProc'[p].s = vsProc[p].s
    <2> DEFINE e == IF vsProc[p].elapsed < MaxElapsed THEN vsProc[p].elapsed + 1
                    ELSE vsProc[p].elapsed
    <2> DEFINE r == [vsProc[p] EXCEPT !.timer = vsProc[p].timer + 1, !.elapsed = e]
    <2>1. VsOk(vsProc[p]) BY <1>2, VsAt
    <2>2. vsProc'[p] = r BY <1>1, <1>2
    <2>3. /\ DOMAIN r = VsFields /\ r.at = vsProc[p].at /\ r.timer = vsProc[p].timer + 1
          /\ r.cmd = vsProc[p].cmd /\ r.s = vsProc[p].s /\ r.elapsed = e
        BY <2>1 DEF VsOk, VsFields
    <2>4. e = vsProc[p].elapsed \/ e = vsProc[p].elapsed + 1 OBVIOUS
    <2> HIDE DEF r, e
    <2>5. \/ vsProc[p].at \in {"capture", "detect", "record", "recording"} /\ vsProc[p].timer < VsLimit
          \/ vsProc[p].at = "pause" /\ vsProc[p].timer < 1
        BY <1>2 DEF Vs!Tick, Vs!Waits, Vs!At, Vs!Taking
    <2>6. vsProc[p].timer \in Nat /\ vsProc[p].elapsed \in Nat BY <2>1 DEF VsOk
    <2>7. ASSUME r.cmd.op = "watch" /\ r.cmd.timeout # 0 PROVE r.cmd.timeout \in Nat /\ VsInTime(r)
        <3>1. VsInTime(vsProc[p]) /\ r.cmd.timeout \in Nat BY <2>1, <2>3, <2>7 DEF VsOk
        <3>2. CASE vsProc[p].at = "capture"
            BY <2>3, <2>4, <2>5, <2>6, <3>1, <3>2, VisionAssumption DEF VsInTime, VsPlaces
        <3>3. CASE vsProc[p].at = "detect"
            BY <2>3, <2>4, <2>5, <2>6, <3>1, <3>3, VisionAssumption DEF VsInTime, VsPlaces
        <3>4. CASE vsProc[p].at = "pause"
            BY <2>3, <2>4, <2>5, <2>6, <3>1, <3>4, VisionAssumption DEF VsInTime, VsPlaces
        <3>5. QED BY <2>5, <3>1, <3>2, <3>3, <3>4 DEF VsInTime
    <2>8. VsOk(r) BY <2>1, <2>3, <2>4, <2>6, <2>7 DEF VsOk
    <2>9. QED BY <2>2, <2>3, <2>8
<1>3. \A p \in Proc : vsProc[p].at = "idle" => vsProc'[p] = Vs!Idle BY <1>1
<1>4. (\A p \in Proc : vsProc[p] = Vs!Idle \/ VsOk(vsProc[p]))'
    BY <1>2, <1>3 DEF VsOk, VsPlaces, VsFields, VsInTime, Vs!Idle
<1>5. ASSUME vsAlone' PROVE VsAtPeace'
    <2>1. VsAtPeace BY <1>1, <1>5 DEF VsInv
    <2>2. \A p \in Proc : vsProc'[p].at = vsProc[p].at BY <1>2, <1>3, VsPlain
    <2>3. (\A p, q \in Proc : vsProc[p].at # "idle" /\ vsProc[q].at # "idle" => p = q)'
        BY <2>1, <2>2 DEF VsAtPeace
    <2>4. ASSUME NEW p \in Proc, vsProc'[p].at # "idle" PROVE VsKeeps(vsProc'[p], vsChosen')
        BY <1>1, <1>2, <2>1, <2>2, <2>4 DEF VsAtPeace, VsKeeps
    <2>5. (\A p \in Proc : vsProc[p].at # "idle" => VsKeeps(vsProc[p], vsChosen))'
        BY <2>4 DEF VsKeeps
    <2>6. ((\A p \in Proc : vsProc[p].at # "rewrite") => vsSession.source = vsChosen)'
        BY <1>1, <2>1, <2>2 DEF VsAtPeace
    <2>7. QED BY <2>3, <2>5, <2>6 DEF VsAtPeace
<1>6. DOMAIN vsProc' = Proc /\ DOMAIN vsSession' = {"source", "count"} /\ vsAlone' \in BOOLEAN
    BY <1>1 DEF VsInv
<1>7. QED BY <1>4, <1>5, <1>6 DEF VsInv

LEMMA VsStays ==
    ASSUME VsInv, UNCHANGED <<vsSession, vsProc, vsChosen, vsAlone>>
    PROVE  VsInv'
BY DEF VsInv, VsAtPeace, VsKeeps, VsOk, VsPlaces, VsFields, VsInTime, Vs!Idle

LEMMA VsNext ==
    ASSUME VsInv, Vs!Next
    PROVE  VsInv'
<1>1. Vs!Changes => VsInv' BY VsStays DEF Vs!Changes, Vs!Files
<1>2. QED
    BY <1>1, VsTicks, VsLoads, VsCommands, VsLearns, VsBegins, VsPauses, VsFrames, VsJudges,
       VsTruncates, VsWrites, VsKilled DEF Vs!Next

LEMMA VsInit ==
    ASSUME Vs!Init
    PROVE  VsInv
BY DEF Vs!Init, Vs!Blank, Vs!Idle, VsInv, VsAtPeace, VsKeeps

\* The inductive invariant of agent-vision.
THEOREM VisionInvariant == ViewsSpec => [](tool = "vision" => VsInv)
<1> DEFINE I == tool = "vision" => VsInv
<1>1. ViewsInit => I BY VsInit DEF ViewsInit
<1>2. I /\ [ViewsNext]_viewsVars => I'
    <2>1. SUFFICES ASSUME I, [ViewsNext]_viewsVars, tool' = "vision" PROVE VsInv'
        OBVIOUS
    <2>2. tool = "vision" /\ (Vs!Next \/ UNCHANGED vsState) BY <2>1, ViewsDo
    <2>3. QED BY <2>1, <2>2, VsNext, VsStays DEF vsState
<1>3. QED BY <1>1, <1>2, PTL DEF ViewsSpec

\* No watch is too late.
LEMMA VsLate ==
    ASSUME VsInv
    PROVE  Vs!WatchIsInTime
<1>1. SUFFICES ASSUME NEW p \in Proc, vsProc[p].at # "idle", vsProc[p].cmd.op = "watch",
                      vsProc[p].cmd.timeout > 0
               PROVE  vsProc[p].elapsed <= vsProc[p].cmd.timeout + 2 * VsLimit + 1
    BY DEF Vs!WatchIsInTime, Vs!At, Vs!Op, Vs!Cmd
<1>2. VsOk(vsProc[p]) BY <1>1, VsAt
<1>3. vsProc[p].cmd.timeout # 0 BY <1>1
<1>4. /\ vsProc[p].cmd.timeout \in Nat /\ VsInTime(vsProc[p])
      /\ vsProc[p].elapsed \in Nat /\ vsProc[p].timer \in Nat
    BY <1>1, <1>2, <1>3 DEF VsOk
<1>5. QED BY <1>4, VisionAssumption DEF VsInTime, VsPlaces

\* agent-vision: a watch ends at most two captures and a pause after its time, whatever
\* its source does; the session names the source that was set last while commands come
\* one after another.
THEOREM WatchesEndInTime == ViewsSpec => []WatchIsInTime
<1>1. (tool = "vision" => VsInv) => WatchIsInTime
    BY VsLate DEF WatchIsInTime, Vs!SourceIsKept, Vs!At, VsInv, VsAtPeace
<1>2. QED BY <1>1, VisionInvariant, PTL

-----------------------------------------------------------------------------
(* agent-notion.                                                           *)

\* What became of a block up to a time, and the last of it.
NtBefore(L, b, t) == {c \in L : c.block = b /\ c.at <= t}
NtAlive(L, b, t) == NtBefore(L, b, t) # {} /\ Nt!Latest(NtBefore(L, b, t)).alive
NtText(L, b, t) == Nt!Latest(NtBefore(L, b, t)).at

\* There is one change of the workspace at every time up to n.
NtTimed(L, n) ==
    /\ n \in Nat /\ {c.at : c \in L} = 1..n
    /\ \A c, d \in L : c.at = d.at => c = d

\* The pages of some tables are not ahead of their blocks.
NtReaches(tables, L) == \A b \in Block :
    LET t == tables.pages[PageOf[b]] IN
    t > 0 /\ NtAlive(L, b, t) /\ (\A c \in L : c.block = b /\ c.at > t => c.alive)
        => tables.blocks[b] >= NtText(L, b, t)

\* Tables hold what was in the workspace once.
NtTables(tables, L, n) ==
    /\ DOMAIN tables = {"pages", "blocks", "fts", "vectors"}
    /\ DOMAIN tables.pages = Page /\ \A g \in Page : tables.pages[g] \in 0..n
    /\ \A b \in Block : tables.blocks[b] = 0
            \/ \E c \in L : c.block = b /\ c.at = tables.blocks[b]
    /\ NtReaches(tables, L)

\* A sync that writes has the lock, and its tables are not behind the committed ones.
NtOk(r, L, n, cache, writer, p) ==
    \/ r.at \in {"texts", "embedded"}
    \/ /\ r.at \in {"found", "writing"} /\ DOMAIN r = {"at", "todo", "view", "stamp"}
       /\ r.todo \subseteq Page /\ \A g \in r.todo : r.stamp[g] \in 0..n
       /\ r.at = "writing" =>
            /\ writer = p /\ NtTables(r.view, L, n)
            /\ \A b \in Block : r.view.blocks[b] >= cache.blocks[b]

NtAll == \A p \in Proc : ntProc[p] = Nt!Idle \/ NtOk(ntProc[p], ntLog, Nt!Now, ntCache, ntWriter, p)

NtInv ==
    /\ NtTimed(ntLog, Nt!Now) /\ NtTables(ntCache, ntLog, Nt!Now)
    /\ DOMAIN ntProc = Proc /\ NtAll

\* The last of some changes is one of them, and no other is later.
LEMMA NtLatest ==
    ASSUME NEW L, NEW n, NtTimed(L, n), NEW S \in SUBSET L, S # {}
    PROVE  /\ Nt!Latest(S) \in S /\ Nt!Latest(S).at \in 1..n
           /\ \A d \in S : d.at <= Nt!Latest(S).at
<1> DEFINE R == {n - c.at : c \in S}
<1>1. \A c \in L : c.at \in 1..n BY DEF NtTimed
<1>2. n \in Nat BY DEF NtTimed
<1>3. R \in SUBSET Nat /\ R # {} BY <1>1, <1>2
<1>4. PICK i \in R : \A j \in R : i <= j BY <1>3, LeastElement
<1>5. PICK c \in S : i = n - c.at BY <1>4
<1>6. ASSUME NEW d \in S PROVE d.at <= c.at
    <2>1. n - c.at <= n - d.at BY <1>4, <1>5
    <2>2. c.at \in 1..n /\ d.at \in 1..n BY <1>1
    <2>3. QED BY <1>2, <2>1, <2>2
<1> HIDE DEF R
<1>7. Nt!Latest(S) \in S /\ \A d \in S : d.at <= Nt!Latest(S).at
    BY <1>6 DEF Nt!Latest
<1>8. QED BY <1>1, <1>7

\* The text of a block at a time is one it was given, and not later than a later one.
LEMMA NtTextIs ==
    ASSUME NEW L, NEW n, NtTimed(L, n), NEW b, NEW t \in Nat, NtBefore(L, b, t) # {}
    PROVE  /\ \E c \in L : c.block = b /\ c.at = NtText(L, b, t)
           /\ NtText(L, b, t) \in 1..n /\ NtText(L, b, t) <= t
           /\ \A c \in L : c.block = b /\ c.at <= t => c.at <= NtText(L, b, t)
           /\ \A c \in L : c.at = NtText(L, b, t) => c = Nt!Latest(NtBefore(L, b, t))
<1>1. NtBefore(L, b, t) \in SUBSET L BY DEF NtBefore
<1>2. /\ Nt!Latest(NtBefore(L, b, t)) \in NtBefore(L, b, t)
      /\ Nt!Latest(NtBefore(L, b, t)).at \in 1..n
      /\ \A d \in NtBefore(L, b, t) : d.at <= Nt!Latest(NtBefore(L, b, t)).at
    BY <1>1, NtLatest
<1>3. PICK last : last = Nt!Latest(NtBefore(L, b, t)) OBVIOUS
<1>4. last \in L /\ last.block = b /\ last.at <= t BY <1>2, <1>3 DEF NtBefore
<1>5. \A d \in L : d.block = b /\ d.at <= t => d.at <= last.at BY <1>2, <1>3 DEF NtBefore
<1>6. NtText(L, b, t) = last.at BY <1>3 DEF NtText
<1>7. \A c \in L : c.at = last.at => c = last BY <1>4 DEF NtTimed
<1>8. QED BY <1>2, <1>3, <1>4, <1>5, <1>6, <1>7

\* What is read now is what the block is as of a time before, if it was not deleted.
LEMMA NtReads ==
    ASSUME NEW L, NEW n, NtTimed(L, n), NEW b, NEW t \in 0..n, NtAlive(L, b, t),
           \A c \in L : c.block = b /\ c.at > t => c.alive
    PROVE  NtAlive(L, b, n) /\ NtText(L, b, n) >= NtText(L, b, t)
<1>1. n \in Nat /\ t \in Nat /\ \A c \in L : c.at \in 1..n BY DEF NtTimed
<1>2. NtBefore(L, b, t) # {} /\ Nt!Latest(NtBefore(L, b, t)).alive BY DEF NtAlive
<1>3. NtBefore(L, b, t) \subseteq NtBefore(L, b, n) BY <1>1 DEF NtBefore
<1>4. NtBefore(L, b, n) # {} BY <1>2, <1>3
<1>5. NtBefore(L, b, n) \in SUBSET L BY DEF NtBefore
<1>6. PICK last : last = Nt!Latest(NtBefore(L, b, n)) OBVIOUS
<1>7. last \in NtBefore(L, b, n) /\ \A d \in NtBefore(L, b, n) : d.at <= last.at
    BY <1>4, <1>5, <1>6, NtLatest
<1>8. last \in L /\ last.block = b /\ last.at \in 1..n BY <1>1, <1>7 DEF NtBefore
<1>9. PICK c \in L : c.block = b /\ c.at = NtText(L, b, t) BY <1>1, <1>2, NtTextIs
<1>10. NtText(L, b, t) \in 1..n /\ NtText(L, b, t) <= t BY <1>1, <1>2, NtTextIs
<1>11. c \in NtBefore(L, b, n) BY <1>1, <1>9, <1>10 DEF NtBefore
<1>12. NtText(L, b, n) = last.at /\ c.at <= last.at BY <1>6, <1>7, <1>11 DEF NtText
<1>13. last.alive
    <2>1. CASE last.at > t BY <1>8, <2>1
    <2>2. CASE last.at <= t
        <3>1. last.at <= NtText(L, b, t) BY <1>1, <1>2, <1>8, <2>2, NtTextIs
        <3>2. last.at = NtText(L, b, t) BY <1>1, <1>8, <1>9, <1>10, <1>12, <3>1
        <3>3. last = Nt!Latest(NtBefore(L, b, t)) BY <1>1, <1>2, <1>8, <3>2, NtTextIs
        <3>4. QED BY <1>2, <3>3
    <2>3. QED BY <1>1, <1>8, <2>1, <2>2
<1>14. QED BY <1>1, <1>4, <1>6, <1>8, <1>9, <1>10, <1>12, <1>13 DEF NtAlive

\* Numbers in the tables.
LEMMA NtNumbers ==
    ASSUME NEW L, NEW n, NtTimed(L, n), NEW tables, NtTables(tables, L, n), NEW b \in Block
    PROVE  /\ tables.blocks[b] \in 0..n /\ PageOf[b] \in Page /\ tables.pages[PageOf[b]] \in 0..n
           /\ n \in Nat
<1>1. n \in Nat /\ \A c \in L : c.at \in 1..n BY DEF NtTimed
<1>2. tables.blocks[b] = 0 \/ \E c \in L : c.at = tables.blocks[b] BY DEF NtTables
<1>3. PageOf[b] \in Page BY NotionAssumption
<1>4. QED BY <1>1, <1>2, <1>3 DEF NtTables

LEMMA NtAt ==
    ASSUME NtInv, NEW p \in Proc, ntProc[p].at # "idle"
    PROVE  NtOk(ntProc[p], ntLog, Nt!Now, ntCache, ntWriter, p)
BY DEF NtInv, NtAll, Nt!Idle

LEMMA NtSame ==
    ASSUME ntLog' = ntLog
    PROVE  Nt!Now' = Nt!Now
BY DEF Nt!Now, Nt!Cardinality

\* A step of one command, while no other one writes or nothing of it is committed.
LEMMA NtStep ==
    ASSUME NtInv, NEW p \in Proc, NEW r, Nt!Becomes(p, r), ntLog' = ntLog,
           NtTables(ntCache', ntLog, Nt!Now),
           r = Nt!Idle \/ NtOk(r, ntLog, Nt!Now, ntCache', ntWriter', p),
           \A q \in Proc \ {p} : ntProc[q].at = "writing" => ntWriter' = q /\ ntCache' = ntCache
    PROVE  NtInv'
<1>1. /\ DOMAIN ntProc' = Proc /\ ntProc'[p] = r /\ \A q \in Proc \ {p} : ntProc'[q] = ntProc[q]
    BY DEF NtInv, Nt!Becomes
<1>2. Nt!Now' = Nt!Now BY NtSame
<1>3. ASSUME NEW q \in Proc
      PROVE  ntProc'[q] = Nt!Idle \/ NtOk(ntProc'[q], ntLog', Nt!Now', ntCache', ntWriter', q)
    <2>1. CASE q = p
        <3>1. r = Nt!Idle \/ NtOk(r, ntLog', Nt!Now', ntCache', ntWriter', p) BY <1>2
        <3>2. QED BY <1>1, <2>1, <3>1
    <2>2. CASE q # p /\ ntProc[q].at # "idle"
        <3>1. NtOk(ntProc[q], ntLog, Nt!Now, ntCache, ntWriter, q) BY <2>2, NtAt
        <3>2. NtOk(ntProc[q], ntLog, Nt!Now, ntCache', ntWriter', q)
            BY <2>2, <3>1 DEF NtOk
        <3>3. NtOk(ntProc[q], ntLog', Nt!Now', ntCache', ntWriter', q) BY <1>2, <3>2
        <3>4. QED BY <1>1, <2>2, <3>3
    <2>3. CASE q # p /\ ntProc[q].at = "idle"
        <3>1. ntProc[q] = Nt!Idle BY <2>3 DEF NtInv, NtAll, NtOk
        <3>2. QED BY <1>1, <2>3, <3>1
    <2>4. QED BY <2>1, <2>2, <2>3
<1>4. NtAll' BY <1>3 DEF NtAll, Nt!Idle
<1>5. NtTimed(ntLog', Nt!Now') /\ NtTables(ntCache', ntLog', Nt!Now') BY <1>2 DEF NtInv
<1>6. QED BY <1>1, <1>4, <1>5 DEF NtInv

LEMMA NtCardinality == \A S : Nt!Cardinality(S) = Cardinality(S)
BY DEF Nt!Cardinality, Cardinality

\* Time goes on by one with every change.
LEMMA NtGrows ==
    ASSUME NEW L, NEW n, NtTimed(L, n), NEW d, d.at = n + 1
    PROVE  NtTimed(L \cup {d}, n + 1)
<1>1. n \in Nat /\ \A c \in L : c.at \in 1..n BY DEF NtTimed
<1>2. {c.at : c \in L \cup {d}} = {c.at : c \in L} \cup {n + 1} OBVIOUS
<1>3. {c.at : c \in L \cup {d}} = 1..(n + 1) BY <1>1, <1>2 DEF NtTimed
<1>4. \A c, e \in L \cup {d} : c.at = e.at => c = e BY <1>1 DEF NtTimed
<1>5. QED BY <1>1, <1>3, <1>4 DEF NtTimed

LEMMA NtClock ==
    ASSUME NEW L, NEW n, NtTimed(L, n)
    PROVE  Nt!Cardinality({c.at : c \in L}) = n
<1>1. n \in Nat /\ {c.at : c \in L} = 1..n BY DEF NtTimed
<1>2. Cardinality(1..n) = n BY <1>1, FS_Interval
<1>3. QED BY <1>1, <1>2, NtCardinality

\* What tables say of the past stays true.
LEMMA NtTablesStay ==
    ASSUME NEW L, NEW n, NtTimed(L, n), NEW d, d.at = n + 1, NEW tables, NtTables(tables, L, n)
    PROVE  NtTables(tables, L \cup {d}, n + 1)
<1>1. n \in Nat /\ \A c \in L : c.at \in 1..n BY DEF NtTimed
<1>2. \A g \in Page : tables.pages[g] \in 0..(n + 1) BY <1>1 DEF NtTables
<1>3. \A b \in Block : tables.blocks[b] = 0 \/ \E c \in L \cup {d} : c.block = b /\ c.at = tables.blocks[b]
    BY DEF NtTables
<1>4. NtReaches(tables, L \cup {d})
    <2>1. SUFFICES ASSUME NEW b \in Block, NEW t, t = tables.pages[PageOf[b]], t > 0,
                          NtAlive(L \cup {d}, b, t),
                          \A c \in L \cup {d} : c.block = b /\ c.at > t => c.alive
                   PROVE  tables.blocks[b] >= NtText(L \cup {d}, b, t)
        BY DEF NtReaches
    <2>2. t \in 0..n BY <2>1, NtNumbers
    <2>3. NtBefore(L \cup {d}, b, t) = NtBefore(L, b, t) BY <1>1, <2>2 DEF NtBefore
    <2>4. NtAlive(L, b, t) /\ NtText(L \cup {d}, b, t) = NtText(L, b, t)
        BY <2>1, <2>3 DEF NtAlive, NtText
    <2>5. QED BY <2>1, <2>4 DEF NtTables, NtReaches
<1>5. QED BY <1>2, <1>3, <1>4 DEF NtTables

LEMMA NtChanges ==
    ASSUME NtInv, NEW b \in Block, Nt!ChangeBlock(b)
    PROVE  NtInv'
<1>1. PICK d : ntLog' = ntLog \cup {d} /\ d.at = Nt!Now + 1
    <2>1. PICK alive \in BOOLEAN :
              ntLog' = ntLog \cup {[block |-> b, at |-> Nt!Now + 1, alive |-> alive]}
        BY DEF Nt!ChangeBlock
    <2>2. [block |-> b, at |-> Nt!Now + 1, alive |-> alive].at = Nt!Now + 1 OBVIOUS
    <2>3. QED BY <2>1, <2>2
<1>2. UNCHANGED <<ntCache, ntWriter, ntProc>> BY DEF Nt!ChangeBlock
<1>3. NtTimed(ntLog, Nt!Now) BY DEF NtInv
<1>4. NtTimed(ntLog', Nt!Now + 1) BY <1>1, <1>3, NtGrows
<1>5. Nt!Now' = Nt!Cardinality({c.at : c \in ntLog'}) BY DEF Nt!Now, Nt!Cardinality
<1>6. Nt!Now' = Nt!Now + 1 BY <1>4, <1>5, NtClock
<1>7. ASSUME NEW tables, NtTables(tables, ntLog, Nt!Now) PROVE NtTables(tables, ntLog', Nt!Now')
    BY <1>1, <1>3, <1>6, <1>7, NtTablesStay
<1>8. ASSUME NEW q \in Proc
      PROVE  ntProc'[q] = Nt!Idle \/ NtOk(ntProc'[q], ntLog', Nt!Now', ntCache', ntWriter', q)
    <2>1. CASE ntProc[q].at = "idle" BY <1>2, <2>1 DEF NtInv, NtAll, NtOk
    <2>2. CASE ntProc[q].at # "idle"
        <3>1. NtOk(ntProc[q], ntLog, Nt!Now, ntCache, ntWriter, q) BY <2>2, NtAt
        <3>2. Nt!Now \in Nat BY <1>3 DEF NtTimed
        <3>3. \A i \in 0..Nt!Now : i \in 0..Nt!Now' BY <1>6, <3>2
        <3>4. NtOk(ntProc[q], ntLog', Nt!Now', ntCache, ntWriter, q)
            BY <1>7, <3>1, <3>3 DEF NtOk
        <3>5. QED BY <1>2, <3>4
    <2>3. QED BY <2>1, <2>2
<1>9. NtAll' BY <1>8 DEF NtAll, Nt!Idle
<1>10. NtTimed(ntLog', Nt!Now') /\ NtTables(ntCache', ntLog', Nt!Now')
    BY <1>2, <1>4, <1>6, <1>7 DEF NtInv
<1>11. QED BY <1>2, <1>9, <1>10 DEF NtInv

\* A command ends, or goes on, and leaves the cache and its lock alone.
LEMMA NtEnds ==
    ASSUME NtInv, NEW p \in Proc, NEW r, Nt!Becomes(p, r), UNCHANGED <<ntLog, ntCache>>,
           r = Nt!Idle \/ NtOk(r, ntLog, Nt!Now, ntCache, ntWriter', p),
           ntWriter' = ntWriter \/ (ntWriter = p /\ ntWriter' = None)
    PROVE  NtInv'
<1>1. ASSUME NEW q \in Proc \ {p}, ntProc[q].at = "writing" PROVE ntWriter' = q
    <2>1. NtOk(ntProc[q], ntLog, Nt!Now, ntCache, ntWriter, q) BY <1>1, NtAt
    <2>2. ntWriter = q BY <1>1, <2>1 DEF NtOk
    <2>3. QED BY <2>2
<1>2. NtTables(ntCache', ntLog, Nt!Now) BY DEF NtInv
<1>3. NtOk(r, ntLog, Nt!Now, ntCache, ntWriter', p) => NtOk(r, ntLog, Nt!Now, ntCache', ntWriter', p)
    OBVIOUS
<1>4. QED BY <1>1, <1>2, <1>3, NtStep

LEMMA NtSearches ==
    ASSUME NtInv, NEW p \in Proc, Nt!Search(p)
    PROVE  NtInv'
<1>1. PICK hits \in SUBSET Page :
        Nt!Becomes(p, [at |-> "found", todo |-> hits, view |-> None,
                       stamp |-> [g \in hits |-> Nt!Edited(g, Nt!Now)]])
    BY DEF Nt!Search
<1>2. ASSUME NEW g \in hits PROVE Nt!Edited(g, Nt!Now) \in 0..Nt!Now
    <2>1. NtTimed(ntLog, Nt!Now) /\ Nt!Now \in Nat BY DEF NtInv, NtTimed
    <2>2. PICK S : S = {c \in ntLog : PageOf[c.block] = g /\ c.at <= Nt!Now} OBVIOUS
    <2>3. S \in SUBSET ntLog BY <2>2
    <2>4. Nt!Edited(g, Nt!Now) = IF S = {} THEN 0 ELSE Nt!Latest(S).at BY <2>2 DEF Nt!Edited
    <2>5. S # {} => Nt!Latest(S).at \in 1..Nt!Now BY <2>1, <2>3, NtLatest
    <2>6. QED BY <2>1, <2>4, <2>5
<1> DEFINE r == [at |-> "found", todo |-> hits, view |-> None,
                 stamp |-> [g \in hits |-> Nt!Edited(g, Nt!Now)]]
<1>3. /\ DOMAIN r = {"at", "todo", "view", "stamp"} /\ r.at = "found" /\ r.todo = hits
      /\ \A g \in hits : r.stamp[g] = Nt!Edited(g, Nt!Now)
    OBVIOUS
<1> HIDE DEF r
<1>4. NtOk(r, ntLog, Nt!Now, ntCache, ntWriter', p) BY <1>2, <1>3 DEF NtOk
<1>5. QED BY <1>1, <1>4, NtEnds DEF Nt!Search, r

LEMMA NtOpens ==
    ASSUME NtInv, NEW p \in Proc, Nt!OpenTransaction(p)
    PROVE  NtInv'
<1> DEFINE r == [ntProc[p] EXCEPT !.at = "writing", !.view = ntCache]
<1>1. /\ ntProc[p].at = "found" /\ ntWriter = None /\ ntWriter' = p /\ Nt!Becomes(p, r)
      /\ UNCHANGED <<ntLog, ntCache>>
    BY DEF Nt!OpenTransaction, Nt!At
<1>2. NtOk(ntProc[p], ntLog, Nt!Now, ntCache, ntWriter, p) BY <1>1, NtAt
<1>3. /\ DOMAIN r = {"at", "todo", "view", "stamp"} /\ r.at = "writing"
      /\ r.todo = ntProc[p].todo /\ r.stamp = ntProc[p].stamp /\ r.view = ntCache
    BY <1>1, <1>2 DEF NtOk
<1> HIDE DEF r
<1>4. NtTimed(ntLog, Nt!Now) /\ NtTables(ntCache, ntLog, Nt!Now) BY DEF NtInv
<1>5. \A b \in Block : ntCache.blocks[b] \in 0..Nt!Now /\ Nt!Now \in Nat BY <1>4, NtNumbers
<1>6. \A b \in Block : r.view.blocks[b] >= ntCache.blocks[b] BY <1>3, <1>5
<1>7. NtOk(r, ntLog, Nt!Now, ntCache, ntWriter', p) BY <1>1, <1>2, <1>3, <1>4, <1>6 DEF NtOk
<1>8. \A q \in Proc \ {p} : ntProc[q].at # "writing"
    <2>1. SUFFICES ASSUME NEW q \in Proc \ {p}, ntProc[q].at = "writing" PROVE FALSE
        OBVIOUS
    <2>2. NtOk(ntProc[q], ntLog, Nt!Now, ntCache, ntWriter, q) BY <2>1, NtAt
    <2>3. ntWriter = q BY <2>1, <2>2 DEF NtOk
    <2>4. QED BY <1>1, <2>3, NotionAssumption
<1>9. NtTables(ntCache', ntLog, Nt!Now) BY <1>1, <1>4
<1>10. NtOk(r, ntLog, Nt!Now, ntCache', ntWriter', p) BY <1>1, <1>7
<1>11. QED BY <1>1, <1>8, <1>9, <1>10, NtStep

\* A page is synced: what its blocks were when it was found is read, or later.
LEMMA NtSyncs ==
    ASSUME NtInv, NEW p \in Proc, Nt!SyncPage(p)
    PROVE  NtInv'
<1>1. /\ ntProc[p].at = "writing" /\ UNCHANGED <<ntLog, ntCache, ntWriter>> BY DEF Nt!SyncPage, Nt!At
<1>2. /\ ntProc[p].todo \subseteq Page /\ \A g \in ntProc[p].todo : ntProc[p].stamp[g] \in 0..Nt!Now
      /\ DOMAIN ntProc[p] = {"at", "todo", "view", "stamp"} /\ ntWriter = p
      /\ NtTables(ntProc[p].view, ntLog, Nt!Now)
      /\ \A b \in Block : ntProc[p].view.blocks[b] >= ntCache.blocks[b]
    BY <1>1, NtAt DEF NtOk
<1>3. PICK old : old = ntProc[p].view OBVIOUS
<1>4. PICK n : n = Nt!Now OBVIOUS
<1>5. NtTimed(ntLog, n) /\ n \in Nat BY <1>4 DEF NtInv, NtTimed
<1>6. PICK g \in ntProc[p].todo :
        Nt!Becomes(p, [ntProc[p] EXCEPT
            !.todo = @ \ {g},
            !.view.pages[g] = ntProc[p].stamp[g],
            !.view.blocks = [b \in Block |-> IF b \in Nt!ReadBlocks(g) THEN Nt!TextAt(b, Nt!Now) ELSE @[b]]])
    BY DEF Nt!SyncPage
<1>7. PICK blocks : blocks = [b \in Block |-> IF b \in Nt!ReadBlocks(g) THEN Nt!TextAt(b, Nt!Now) ELSE old.blocks[b]]
    OBVIOUS
<1>8. PICK view : view = [old EXCEPT !.pages = [old.pages EXCEPT ![g] = ntProc[p].stamp[g]], !.blocks = blocks]
    OBVIOUS
<1> DEFINE r == [ntProc[p] EXCEPT !.todo = ntProc[p].todo \ {g}, !.view = view]
<1>9. Nt!Becomes(p, r)
    <2>1. r = [ntProc[p] EXCEPT
            !.todo = @ \ {g},
            !.view.pages[g] = ntProc[p].stamp[g],
            !.view.blocks = [b \in Block |-> IF b \in Nt!ReadBlocks(g) THEN Nt!TextAt(b, Nt!Now) ELSE @[b]]]
        BY <1>2, <1>3, <1>7, <1>8 DEF NtTables
    <2>2. QED BY <1>6, <2>1
<1>10. /\ DOMAIN r = {"at", "todo", "view", "stamp"} /\ r.at = "writing" /\ r.view = view
       /\ r.todo = ntProc[p].todo \ {g} /\ r.stamp = ntProc[p].stamp
    BY <1>1, <1>2
<1> HIDE DEF r
<1>11. /\ DOMAIN view = {"pages", "blocks", "fts", "vectors"} /\ view.blocks = blocks
       /\ DOMAIN view.pages = Page /\ view.pages[g] = ntProc[p].stamp[g]
       /\ \A h \in Page : h # g => view.pages[h] = old.pages[h]
    BY <1>2, <1>3, <1>8 DEF NtTables
<1>12. ASSUME NEW b \in Block
       PROVE  IF PageOf[b] = g /\ NtAlive(ntLog, b, n) THEN blocks[b] = NtText(ntLog, b, n)
              ELSE blocks[b] = old.blocks[b]
    BY <1>4, <1>7 DEF Nt!ReadBlocks, Nt!Alive, Nt!TextAt, Nt!Before, NtAlive, NtText, NtBefore
<1>13. NtTables(view, ntLog, n) /\ \A b \in Block : blocks[b] >= old.blocks[b]
    <2>1. \A h \in Page : view.pages[h] \in 0..n BY <1>2, <1>3, <1>4, <1>11 DEF NtTables
    <2>2. ASSUME NEW b \in Block
          PROVE  /\ blocks[b] = 0 \/ \E c \in ntLog : c.block = b /\ c.at = blocks[b]
                 /\ blocks[b] >= old.blocks[b]
        <3>1. NtTables(old, ntLog, n) BY <1>2, <1>3, <1>4
        <3>2. old.blocks[b] \in 0..n BY <1>5, <3>1, NtNumbers
        <3>3. old.blocks[b] = 0 \/ \E c \in ntLog : c.block = b /\ c.at = old.blocks[b]
            BY <3>1 DEF NtTables
        <3>4. CASE PageOf[b] = g /\ NtAlive(ntLog, b, n)
            <4>1. NtBefore(ntLog, b, n) # {} BY <3>4 DEF NtAlive
            <4>2. /\ \E c \in ntLog : c.block = b /\ c.at = NtText(ntLog, b, n)
                  /\ NtText(ntLog, b, n) \in 1..n
                  /\ \A c \in ntLog : c.block = b /\ c.at <= n => c.at <= NtText(ntLog, b, n)
                BY <1>5, <4>1, NtTextIs
            <4>3. old.blocks[b] <= NtText(ntLog, b, n) BY <1>5, <3>2, <3>3, <4>2
            <4>4. QED BY <1>5, <1>12, <3>2, <3>4, <4>2, <4>3
        <3>5. CASE ~(PageOf[b] = g /\ NtAlive(ntLog, b, n)) BY <1>5, <1>12, <3>2, <3>3, <3>5
        <3>6. QED BY <3>4, <3>5
    <2>3. NtReaches(view, ntLog)
        <3>1. SUFFICES ASSUME NEW b \in Block, NEW t, t = view.pages[PageOf[b]], t > 0,
                              NtAlive(ntLog, b, t),
                              \A c \in ntLog : c.block = b /\ c.at > t => c.alive
                       PROVE  view.blocks[b] >= NtText(ntLog, b, t)
            BY DEF NtReaches
        <3>2. PageOf[b] \in Page BY NotionAssumption
        <3>3. t \in 0..n BY <2>1, <3>1, <3>2
        <3>4. CASE PageOf[b] = g
            <4>1. NtAlive(ntLog, b, n) /\ NtText(ntLog, b, n) >= NtText(ntLog, b, t)
                BY <1>5, <3>1, <3>3, NtReads
            <4>2. QED BY <1>11, <1>12, <3>4, <4>1
        <3>5. CASE PageOf[b] # g
            <4>1. t = old.pages[PageOf[b]] BY <1>11, <3>1, <3>2, <3>5
            <4>2. old.blocks[b] >= NtText(ntLog, b, t)
                BY <1>2, <1>3, <3>1, <4>1 DEF NtTables, NtReaches
            <4>3. QED BY <1>11, <1>12, <3>5, <4>2
        <3>6. QED BY <3>4, <3>5
    <2>4. QED BY <1>11, <2>1, <2>2, <2>3 DEF NtTables
<1>14. ASSUME NEW b \in Block PROVE view.blocks[b] >= ntCache.blocks[b]
    <2>1. ntCache.blocks[b] \in 0..n /\ old.blocks[b] \in 0..n /\ blocks[b] \in 0..n
        <3>1. NtTables(ntCache, ntLog, n) /\ NtTables(old, ntLog, n) /\ NtTables(view, ntLog, n)
            BY <1>2, <1>3, <1>4, <1>13 DEF NtInv
        <3>2. QED BY <1>5, <1>11, <3>1, NtNumbers
    <2>2. old.blocks[b] >= ntCache.blocks[b] /\ blocks[b] >= old.blocks[b] BY <1>2, <1>3, <1>13
    <2>3. QED BY <1>5, <1>11, <2>1, <2>2
<1>15. NtOk(r, ntLog, Nt!Now, ntCache, ntWriter', p)
    BY <1>1, <1>2, <1>4, <1>10, <1>13, <1>14 DEF NtOk
<1>16. QED BY <1>1, <1>9, <1>15, NtEnds

\* What a sync commits has the pages and blocks it wrote.
LEMMA NtCommits ==
    ASSUME NtInv, NEW p \in Proc, Nt!CommitSync(p)
    PROVE  NtInv' /\ Nt!BlocksStepForward
<1>1. /\ ntProc[p].at = "writing" /\ ntLog' = ntLog /\ Nt!Becomes(p, Nt!Idle)
      /\ ntCache' = Nt!Rebuilt(ntProc[p].view)
    BY DEF Nt!CommitSync, Nt!Finish, Nt!At
<1>2. /\ ntWriter = p /\ NtTables(ntProc[p].view, ntLog, Nt!Now)
      /\ \A b \in Block : ntProc[p].view.blocks[b] >= ntCache.blocks[b]
    BY <1>1, NtAt DEF NtOk
<1>3. /\ DOMAIN ntCache' = {"pages", "blocks", "fts", "vectors"}
      /\ ntCache'.pages = ntProc[p].view.pages /\ ntCache'.blocks = ntProc[p].view.blocks
    BY <1>1, <1>2 DEF NtTables, Nt!Rebuilt
<1>4. NtTables(ntCache', ntLog, Nt!Now) BY <1>2, <1>3 DEF NtTables, NtReaches
<1>5. \A q \in Proc \ {p} : ntProc[q].at # "writing"
    <2>1. SUFFICES ASSUME NEW q \in Proc \ {p}, ntProc[q].at = "writing" PROVE FALSE
        OBVIOUS
    <2>2. NtOk(ntProc[q], ntLog, Nt!Now, ntCache, ntWriter, q) BY <2>1, NtAt
    <2>3. ntWriter = q BY <2>1, <2>2 DEF NtOk
    <2>4. QED BY <1>2, <2>3
<1>6. NtInv' BY <1>1, <1>4, <1>5, NtStep
<1>7. Nt!BlocksStepForward BY <1>2, <1>3 DEF Nt!BlocksStepForward
<1>8. QED BY <1>6, <1>7

\* A step that leaves the texts in the cache alone takes none back.
LEMMA NtKeeps ==
    ASSUME NtInv, ntCache'.blocks = ntCache.blocks
    PROVE  Nt!BlocksStepForward
<1>1. ASSUME NEW b \in Block PROVE ntCache'.blocks[b] >= ntCache.blocks[b]
    <2>1. ntCache.blocks[b] \in 0..Nt!Now /\ Nt!Now \in Nat BY NtNumbers DEF NtInv
    <2>2. QED BY <2>1
<1>2. QED BY <1>1 DEF Nt!BlocksStepForward

LEMMA NtStores ==
    ASSUME NtInv, NEW p \in Proc, Nt!StoreVectors(p)
    PROVE  NtInv' /\ Nt!BlocksStepForward
<1>1. /\ ntWriter = None /\ UNCHANGED <<ntLog, ntWriter>> /\ Nt!Becomes(p, Nt!Idle)
      /\ \E v : ntCache' = [ntCache EXCEPT !.vectors = v]
    BY DEF Nt!StoreVectors, Nt!Finish
<1>2. NtTables(ntCache, ntLog, Nt!Now) BY DEF NtInv
<1>3. /\ DOMAIN ntCache' = {"pages", "blocks", "fts", "vectors"}
      /\ ntCache'.pages = ntCache.pages /\ ntCache'.blocks = ntCache.blocks
    BY <1>1, <1>2 DEF NtTables
<1>4. NtTables(ntCache', ntLog, Nt!Now) BY <1>2, <1>3 DEF NtTables, NtReaches
<1>5. \A q \in Proc : ntProc[q].at # "writing"
    <2>1. SUFFICES ASSUME NEW q \in Proc, ntProc[q].at = "writing" PROVE FALSE
        OBVIOUS
    <2>2. NtOk(ntProc[q], ntLog, Nt!Now, ntCache, ntWriter, q) BY <2>1, NtAt
    <2>3. ntWriter = q BY <2>1, <2>2 DEF NtOk
    <2>4. QED BY <1>1, <2>3, NotionAssumption
<1>6. NtInv' BY <1>1, <1>4, <1>5, NtStep
<1>7. QED BY <1>3, <1>6, NtKeeps

LEMMA NtRests ==
    ASSUME NtInv, NEW p \in Proc,
           Nt!TransactionBusy(p) \/ Nt!Abort(p) \/ Nt!Candidates(p) \/ Nt!Embed(p)
    PROVE  NtInv'
<1>1. /\ UNCHANGED <<ntLog, ntCache>>
      /\ ntWriter' = ntWriter \/ (ntWriter = p /\ ntWriter' = None)
    BY DEF Nt!TransactionBusy, Nt!Abort, Nt!Candidates, Nt!Embed
<1>2. CASE Nt!Becomes(p, Nt!Idle) BY <1>1, <1>2, NtEnds
<1>3. CASE Nt!Candidates(p)
    <2>1. PICK rows : Nt!Becomes(p, [at |-> "texts", rows |-> rows]) BY <1>3 DEF Nt!Candidates
    <2>2. [at |-> "texts", rows |-> rows].at = "texts" OBVIOUS
    <2>3. QED BY <1>1, <2>1, <2>2, NtEnds DEF NtOk
<1>4. CASE Nt!Embed(p)
    <2>1. PICK rows : Nt!Becomes(p, [at |-> "embedded", rows |-> rows]) BY <1>4 DEF Nt!Embed
    <2>2. [at |-> "embedded", rows |-> rows].at = "embedded" OBVIOUS
    <2>3. QED BY <1>1, <2>1, <2>2, NtEnds DEF NtOk
<1>5. QED BY <1>2, <1>3, <1>4 DEF Nt!TransactionBusy, Nt!Abort, Nt!Finish

LEMMA NtNext ==
    ASSUME NtInv, Nt!Next
    PROVE  NtInv' /\ Nt!BlocksStepForward
<1>1. ASSUME NEW b \in Block, Nt!ChangeBlock(b) PROVE NtInv' /\ Nt!BlocksStepForward
    BY <1>1, NtChanges, NtKeeps DEF Nt!ChangeBlock
<1>2. ASSUME NEW p \in Proc,
             Nt!Search(p) \/ Nt!OpenTransaction(p) \/ Nt!TransactionBusy(p) \/ Nt!SyncPage(p)
             \/ Nt!Abort(p) \/ Nt!Candidates(p) \/ Nt!Embed(p)
      PROVE  NtInv' /\ Nt!BlocksStepForward
    <2>1. ntCache' = ntCache
        BY <1>2 DEF Nt!Search, Nt!OpenTransaction, Nt!TransactionBusy, Nt!SyncPage, Nt!Abort,
                    Nt!Candidates, Nt!Embed
    <2>2. NtInv' BY <1>2, NtSearches, NtOpens, NtSyncs, NtRests
    <2>3. QED BY <2>1, <2>2, NtKeeps
<1>3. QED BY <1>1, <1>2, NtCommits, NtStores DEF Nt!Next

LEMMA NtInit ==
    ASSUME Nt!Init
    PROVE  NtInv
<1>1. ntLog = {} /\ ntProc = [p \in Proc |-> Nt!Idle] BY DEF Nt!Init
<1>2. /\ DOMAIN ntCache = {"pages", "blocks", "fts", "vectors"}
      /\ ntCache.pages = [g \in Page |-> 0] /\ ntCache.blocks = [b \in Block |-> 0]
    BY DEF Nt!Init
<1>3. NtTimed({}, 0) BY DEF NtTimed
<1>4. Nt!Now = 0 BY <1>1, <1>3, NtClock DEF Nt!Now
<1>5. NtReaches(ntCache, ntLog) BY <1>2, NotionAssumption DEF NtReaches
<1>6. NtTables(ntCache, ntLog, 0) BY <1>2, <1>5 DEF NtTables
<1>7. QED BY <1>1, <1>3, <1>4, <1>6 DEF NtInv, NtAll

LEMMA NtStays ==
    ASSUME NtInv, UNCHANGED ntState
    PROVE  NtInv' /\ Nt!BlocksStepForward
<1>1. ntLog' = ntLog /\ ntCache' = ntCache /\ ntWriter' = ntWriter /\ ntProc' = ntProc
    BY DEF ntState
<1>2. Nt!Now' = Nt!Now BY <1>1, NtSame
<1>3. ASSUME NEW q \in Proc
      PROVE  ntProc'[q] = Nt!Idle \/ NtOk(ntProc'[q], ntLog', Nt!Now', ntCache', ntWriter', q)
    BY <1>1, <1>2 DEF NtInv, NtAll
<1>4. NtAll' BY <1>3 DEF NtAll, Nt!Idle
<1>5. NtTimed(ntLog', Nt!Now') /\ NtTables(ntCache', ntLog', Nt!Now') BY <1>1, <1>2 DEF NtInv
<1>6. DOMAIN ntProc' = Proc BY <1>1 DEF NtInv
<1>7. QED BY <1>1, <1>4, <1>5, <1>6, NtKeeps DEF NtInv

\* The pages of the cache are not ahead of their blocks.
LEMMA NtPages ==
    ASSUME NtInv
    PROVE  Nt!BlocksReachThePage
<1>1. NtReaches(ntCache, ntLog) BY DEF NtInv, NtTables
<1>2. QED BY <1>1 DEF NtReaches, Nt!BlocksReachThePage, Nt!Alive, Nt!TextAt, Nt!Before,
                      NtAlive, NtText, NtBefore

\* The inductive invariant of agent-notion.
THEOREM CacheInvariant == ViewsSpec => [](tool = "notion" => NtInv)
<1> DEFINE I == tool = "notion" => NtInv
<1>1. ViewsInit => I BY NtInit DEF ViewsInit
<1>2. I /\ [ViewsNext]_viewsVars => I'
    <2>1. SUFFICES ASSUME I, [ViewsNext]_viewsVars, tool' = "notion" PROVE NtInv'
        OBVIOUS
    <2>2. tool = "notion" /\ (Nt!Next \/ UNCHANGED ntState) BY <2>1, ViewsDo
    <2>3. QED BY <2>1, <2>2, NtNext, NtStays
<1>3. QED BY <1>1, <1>2, PTL DEF ViewsSpec

\* agent-notion: no text in the cache is replaced by an earlier one, and no page's row
\* is ahead of its blocks, however many syncs wait, fail and overlap with changes.
THEOREM TextsMoveForward == ViewsSpec => BlocksMoveForward
<1> DEFINE I == tool = "notion" => NtInv
<1>1. I /\ [ViewsNext]_viewsVars => (tool = "notion" => NtInv' /\ Nt!BlocksStepForward)
    <2>1. SUFFICES ASSUME I, [ViewsNext]_viewsVars, tool = "notion"
                   PROVE  NtInv' /\ Nt!BlocksStepForward
        OBVIOUS
    <2>2. Nt!Next \/ UNCHANGED ntState BY <2>1, ViewsDo
    <2>3. QED BY <2>1, <2>2, NtNext, NtStays
<1>2. NtInv => Nt!BlocksReachThePage BY NtPages
<1>3. (NtInv => Nt!BlocksReachThePage)' BY <1>2, PTL
<1>4. I /\ [ViewsNext]_viewsVars =>
      [tool = "notion" => Nt!BlocksStepForward /\ Nt!BlocksReachThePage']_viewsVars
    BY <1>1, <1>3
<1>5. QED BY <1>4, CacheInvariant, PTL DEF ViewsSpec, BlocksMoveForward

(***************************************************************************)
(* The index of a vault.                                                   *)
(***************************************************************************)

\* Where a command is that walked the vault and has not committed.
ViWalking == {"walked", "visit", "parsed", "upsert", "commit"}

\* What the variables of a command hold, wherever it is.
ViTyped(r) ==
    /\ DOMAIN viTx[r] = NotePath /\ DOMAIN viKnown[r] = NotePath
    /\ DOMAIN viHeld[r] = {"text", "stamp"}
    /\ viListed[r] \subseteq NotePath /\ viTodo[r] \subseteq NotePath
    /\ viPc[r] # "idle" => viCmd[r].kind \in Vi!Kind /\ viCmd[r].p \in NotePath
    /\ viPc[r] = "idle" => \A p \in NotePath : viTx[r][p] = Untouched
    /\ viPc[r] \in {"parsed", "upsert"} => viHeld[r].text \in Text
    /\ viPc[r] = "write" => viCmd[r].t \in Text
    /\ viPc[r] \in {"write", "record"} => viCmd[r].kind = "save"
    /\ viPc[r] \in {"walked", "visit"} => viCmd[r].kind # "save"
    /\ viPc[r] \in {"parsed", "upsert"} /\ viCmd[r].kind # "save" => viTodo[r] # {}

ViTypes ==
    /\ DOMAIN viFile = NotePath /\ DOMAIN viRow = NotePath
    /\ DOMAIN viPc = Indexer /\ DOMAIN viCmd = Indexer /\ DOMAIN viListed = Indexer
    /\ DOMAIN viKnown = Indexer /\ DOMAIN viTodo = Indexer /\ DOMAIN viHeld = Indexer
    /\ DOMAIN viTx = Indexer /\ DOMAIN viQuiet = Indexer
    /\ \A r \in Indexer : ViTyped(r)

\* A stamp tells the text of a note apart: no row, committed or not, and no note
\* that is being parsed has the stamp of the note and another text.
ViTold == ~viRaced =>
    /\ Vi!SkippedIsSame
    /\ \A r \in Indexer, p \in NotePath :
          viTx[r][p] \notin {None, Untouched} /\ viFile[p] # None
              /\ viTx[r][p].stamp = viFile[p].stamp => viTx[r][p].text = viFile[p].text
    /\ \A r \in Indexer : viPc[r] = "upsert" /\ viFile[Vi!Target(r)] # None
              /\ viHeld[r].stamp = viFile[Vi!Target(r)].stamp =>
                    viHeld[r].text = viFile[Vi!Target(r)].text

\* What is noted of the notes has a text and a stamp.
ViStamps ==
    /\ \A p \in NotePath :
          /\ viFile[p] # None => viFile[p].text \in Text /\ viFile[p].stamp \in Vi!Stamp
          /\ viRow[p] # None => viRow[p].stamp \in Vi!Stamp
    /\ \A r \in Indexer :
          /\ viPc[r] = "upsert" => viHeld[r].stamp \in Vi!Stamp
          /\ \A p \in NotePath : viTx[r][p] \notin {None, Untouched} => viTx[r][p].stamp \in Vi!Stamp

\* What a transaction will leave.
ViLeaves(row, tx, p) == IF tx[p] = Untouched THEN row[p] ELSE tx[p]

\* A refresh that nothing disturbed: the notes are those it has listed; those it
\* has visited are in the index as they are, or in its transaction; those that are
\* gone are in neither, or will be pruned; and a full one has resolved all it parsed.
ViWalk(kind, at, listed, known, todo, held, tx, file, row) ==
    LET there == {p \in NotePath : file[p] # None} IN
    /\ listed = there /\ todo \subseteq there
    /\ at = "walked" => todo = there /\ \A p \in NotePath : tx[p] = Untouched
    /\ at # "walked" => \A p \in NotePath :
          /\ p \in there \ todo => /\ ViLeaves(row, tx, p) # None
                                   /\ ViLeaves(row, tx, p).stamp = file[p].stamp
          /\ p \in todo => tx[p] = IF kind = "full" THEN None ELSE Untouched
          /\ p \notin there => /\ tx[p] \in {None, Untouched}
                               /\ at = "commit" => ViLeaves(row, tx, p) = None
          /\ kind # "full" => known[p] = IF row[p] = None THEN None ELSE row[p].stamp
          /\ kind = "full" => tx[p] # Untouched /\ known[p] = None
          /\ kind = "full" /\ tx[p] # None => tx[p].resolved = LinksOf[tx[p].text] \cap there
    /\ at = "upsert" => held.stamp = file[Vi!Least(todo)].stamp
    /\ at = "commit" => todo = {}

ViWalks == \A r \in Indexer :
    viPc[r] \in ViWalking /\ viCmd[r].kind # "save" /\ viQuiet[r] =>
        ViWalk(viCmd[r].kind, viPc[r], viListed[r], viKnown[r], viTodo[r], viHeld[r],
               viTx[r], viFile, viRow)

\* What a refresh leaves, until something is written.
ViFreshly ==
    /\ viFresh # "no" => \A p \in NotePath :
          /\ viRow[p] # None <=> viFile[p] # None
          /\ viRow[p] # None => viRow[p].stamp = viFile[p].stamp
    /\ viFresh = "full" => \A p \in NotePath : viRow[p] # None =>
          viRow[p].resolved = LinksOf[viRow[p].text] \cap Vi!Files

ViInv == ViTypes /\ ViTold /\ ViStamps /\ ViWalks /\ ViFreshly

LEMMA ViInit ==
    ASSUME Vi!Init
    PROVE  ViInv
<1>1. ViTypes BY VaultAssumption DEF Vi!Init, ViTypes, ViTyped, Vi!Nothing, Vi!AllKept, Vi!NoParse
<1>2. ViTold BY DEF Vi!Init, ViTold, Vi!SkippedIsSame, Vi!Rows, Vi!Nothing, Vi!AllKept
<1>3. ViWalks BY DEF Vi!Init, ViWalks, ViWalking
<1>4. ViFreshly BY DEF Vi!Init, ViFreshly
<1>5. ViStamps BY VaultAssumption DEF Vi!Init, ViStamps, Vi!Nothing, Vi!AllKept, Vi!Stamp
<1>6. QED BY <1>1, <1>2, <1>3, <1>4, <1>5 DEF ViInv

LEMMA ViStays ==
    ASSUME ViInv, UNCHANGED viState
    PROVE  ViInv'
BY DEF ViInv, viState, ViTypes, ViTyped, ViTold, ViStamps, ViWalks, ViFreshly, Vi!SkippedIsSame, Vi!Files,
       Vi!Rows, Vi!Target

-----------------------------------------------------------------------------
(* The other commands while one makes a step.                              *)

ViSame(s) ==
    /\ viPc'[s] = viPc[s] /\ viCmd'[s] = viCmd[s] /\ viListed'[s] = viListed[s]
    /\ viKnown'[s] = viKnown[s] /\ viTodo'[s] = viTodo[s] /\ viHeld'[s] = viHeld[s]
    /\ viTx'[s] = viTx[s]

\* A walk that is still quiet has missed nothing.
ViUndisturbed(s) == viQuiet'[s] =>
    viQuiet[s] /\ viFile' = viFile /\ \A p \in NotePath : viRow'[p] = viRow[p]

ViDomains ==
    /\ DOMAIN viFile = NotePath /\ DOMAIN viRow = NotePath
    /\ DOMAIN viPc = Indexer /\ DOMAIN viCmd = Indexer /\ DOMAIN viListed = Indexer
    /\ DOMAIN viKnown = Indexer /\ DOMAIN viTodo = Indexer /\ DOMAIN viHeld = Indexer
    /\ DOMAIN viTx = Indexer /\ DOMAIN viQuiet = Indexer

ViWalksAt(s) ==
    viPc[s] \in ViWalking /\ viCmd[s].kind # "save" /\ viQuiet[s] =>
        ViWalk(viCmd[s].kind, viPc[s], viListed[s], viKnown[s], viTodo[s], viHeld[s],
               viTx[s], viFile, viRow)

\* One makes a step, if any, and the others only see what it wrote.
ViStep(r) == \A s \in Indexer \ {r} : ViSame(s) /\ ViUndisturbed(s)

\* What is left to prove of a step.
LEMMA ViTurn ==
    ASSUME ViInv, NEW r, ViStep(r), ViDomains', r \in Indexer => ViTyped(r)' /\ ViWalksAt(r)',
           ViTold', ViStamps', ViFreshly'
    PROVE  ViInv'
<1>1. \A s \in Indexer \ {r} : ViTyped(s)' BY DEF ViInv, ViTypes, ViTyped, ViStep, ViSame
<1>2. \A s \in Indexer \ {r} : ViWalksAt(s)'
    <2>1. SUFFICES ASSUME NEW s \in Indexer \ {r} PROVE ViWalksAt(s)'
        OBVIOUS
    <2>2. ViWalksAt(s) BY DEF ViInv, ViWalks, ViWalksAt
    <2>3. ViSame(s) /\ ViUndisturbed(s) BY DEF ViStep
    <2>4. QED BY <2>2, <2>3 DEF ViWalksAt, ViSame, ViUndisturbed, ViWalk, ViLeaves
<1>3. ViTypes' BY <1>1 DEF ViTypes, ViDomains
<1>4. ViWalks' BY <1>2 DEF ViWalks, ViWalksAt
<1>5. QED BY <1>3, <1>4 DEF ViInv

\* A step that writes neither a note nor a row, and parses none, keeps what is
\* told of them.
LEMMA ViKeeps ==
    ASSUME ViInv, UNCHANGED <<viFile, viRow, viFresh, viRaced>>,
           \A s \in Indexer :
             /\ \A p \in NotePath : viTx'[s][p] = viTx[s][p] \/ viTx'[s][p] \in {None, Untouched}
             /\ viPc'[s] = "upsert" => /\ viPc[s] = "upsert" /\ viHeld'[s] = viHeld[s]
                                       /\ viCmd'[s] = viCmd[s] /\ viTodo'[s] = viTodo[s]
    PROVE  ViTold' /\ ViStamps' /\ ViFreshly'
<1>1. ViTold'
    <2>1. SUFFICES ASSUME ~viRaced PROVE ViTold'
        BY DEF ViTold
    <2>2. Vi!SkippedIsSame'
        BY <2>1 DEF ViInv, ViTold, Vi!SkippedIsSame, Vi!Files, Vi!Rows
    <2>3. \A s \in Indexer, p \in NotePath :
             viTx'[s][p] \notin {None, Untouched} /\ viFile'[p] # None
                 /\ viTx'[s][p].stamp = viFile'[p].stamp => viTx'[s][p].text = viFile'[p].text
        BY <2>1 DEF ViInv, ViTold
    <2>4. \A s \in Indexer : viPc'[s] = "upsert" => Vi!Target(s)' = Vi!Target(s)
        BY DEF Vi!Target
    <2>5. \A s \in Indexer : viPc'[s] = "upsert" /\ viFile'[Vi!Target(s)'] # None
              /\ viHeld'[s].stamp = viFile'[Vi!Target(s)'].stamp =>
                    viHeld'[s].text = viFile'[Vi!Target(s)'].text
        BY <2>1, <2>4 DEF ViInv, ViTold
    <2>6. QED BY <2>2, <2>3, <2>5 DEF ViTold
<1>2. ViStamps' BY DEF ViInv, ViStamps
<1>3. ViFreshly' BY DEF ViInv, ViFreshly, Vi!Files
<1>4. QED BY <1>1, <1>2, <1>3

LEMMA ViNoStamp == None \notin Vi!Stamp
BY VaultAssumption DEF Vi!Stamp

\* The least of some paths is one of them.
LEMMA ViLeast ==
    ASSUME NEW S \in SUBSET NotePath, S # {}
    PROVE  Vi!Least(S) \in S /\ Vi!Least(S) \in NotePath
<1>1. S \in SUBSET Nat BY VaultAssumption
<1>2. \E i \in S : \A j \in S : i <= j BY <1>1, LeastElement
<1>3. QED BY <1>2 DEF Vi!Least

LEMMA ViTargets ==
    ASSUME ViInv, NEW r \in Indexer, viPc[r] \in {"parsed", "upsert"}
    PROVE  /\ Vi!Target(r) \in NotePath
           /\ viCmd[r].kind # "save" => Vi!Target(r) = Vi!Least(viTodo[r]) /\ Vi!Target(r) \in viTodo[r]
<1>1. ViTyped(r) BY DEF ViInv, ViTypes
<1>2. QED BY <1>1, ViLeast DEF ViTyped, Vi!Target

-----------------------------------------------------------------------------
(* The steps that write nothing.                                           *)

LEMMA ViCommand ==
    ASSUME ViInv, NEW r \in Indexer, Vi!Command(r)
    PROVE  ViInv'
<1>1. PICK k \in Vi!Kind, p \in NotePath, t \in Text :
         /\ viCmd' = [viCmd EXCEPT ![r] = [kind |-> k, p |-> p, t |-> t]]
         /\ IF k = "save" THEN Vi!Goto(r, "write") /\ UNCHANGED <<viListed, viTodo, viQuiet>>
                          ELSE Vi!Walk(r)
    BY DEF Vi!Command
<1>2. ViTyped(r) /\ ViDomains BY DEF ViInv, ViTypes, ViDomains
<1>3. viPc[r] = "idle" BY DEF Vi!Command
<1>4. UNCHANGED <<viFile, viRow, viVec, viDb, viKnown, viHeld, viTx, viFresh, viRaced, viEdits>>
    BY DEF Vi!Command
<1>5. /\ viPc' = [viPc EXCEPT ![r] = IF k = "save" THEN "write" ELSE "walked"]
      /\ k # "save" => /\ viListed' = [viListed EXCEPT ![r] = Vi!Files]
                       /\ viTodo' = [viTodo EXCEPT ![r] = Vi!Files]
                       /\ viQuiet' = [viQuiet EXCEPT ![r] = TRUE]
      /\ k = "save" => UNCHANGED <<viListed, viTodo, viQuiet>>
    BY <1>1 DEF Vi!Goto, Vi!Walk
<1>6. ViStep(r) BY <1>1, <1>2, <1>4, <1>5 DEF ViStep, ViSame, ViUndisturbed, ViDomains
<1>7. ViDomains' BY <1>1, <1>2, <1>4, <1>5 DEF ViDomains
<1>8. ViTyped(r)' BY <1>1, <1>2, <1>4, <1>5 DEF ViTyped, ViDomains, Vi!Kind, Vi!Files
<1>9. ViWalksAt(r)'
    <2>1. CASE k = "save" BY <1>1, <1>2, <2>1 DEF ViWalksAt, ViDomains
    <2>2. CASE k # "save"
        <3>1. \A q \in NotePath : viTx[r][q] = Untouched
            BY <1>2, <1>3 DEF ViTyped
        <3>2. QED BY <1>1, <1>2, <1>4, <1>5, <2>2, <3>1 DEF ViWalksAt, ViDomains, ViWalk, Vi!Files
    <2>3. QED BY <2>1, <2>2
<1>10. ViTold' /\ ViStamps' /\ ViFreshly'
    <2>1. \A s \in Indexer : viPc'[s] = "upsert" => viPc[s] = "upsert" /\ s # r
        BY <1>2, <1>5 DEF ViDomains
    <2>2. QED BY <1>1, <1>2, <1>4, <1>5, <2>1, ViKeeps DEF ViStep, ViSame, ViDomains
<1>11. QED BY <1>6, <1>7, <1>8, <1>9, <1>10, ViTurn

LEMMA ViSelect ==
    ASSUME ViInv, NEW r \in Indexer, Vi!Select(r)
    PROVE  ViInv'
<1>1. ViTyped(r) /\ ViDomains BY DEF ViInv, ViTypes, ViDomains
<1>2. viPc[r] = "walked" /\ viPc' = [viPc EXCEPT ![r] = "visit"] BY DEF Vi!Select, Vi!Goto
<1>3. UNCHANGED <<viFile, viRow, viVec, viCmd, viListed, viTodo, viHeld, viQuiet, viFresh, viRaced>>
    BY DEF Vi!Select
<1>4. /\ viCmd[r].kind = "full" => /\ viTx' = [viTx EXCEPT ![r] = Vi!Nothing]
                                   /\ viKnown' = [viKnown EXCEPT ![r] = Vi!Nothing]
      /\ viCmd[r].kind # "full" =>
            /\ viKnown' = [viKnown EXCEPT ![r] =
                   [p \in NotePath |-> IF viRow[p] = None THEN None ELSE viRow[p].stamp]]
            /\ viTx' = viTx
    BY DEF Vi!Select
<1>5. ViStep(r) BY <1>1, <1>2, <1>3, <1>4 DEF ViStep, ViSame, ViUndisturbed, ViDomains
<1>6. ViDomains' BY <1>1, <1>2, <1>3, <1>4 DEF ViDomains
<1>7. ViTyped(r)' BY <1>1, <1>2, <1>3, <1>4 DEF ViTyped, ViDomains, Vi!Nothing
<1>8. ViWalksAt(r)'
    <2>1. SUFFICES ASSUME viCmd[r].kind # "save", viQuiet[r] PROVE ViWalksAt(r)'
        BY <1>3 DEF ViWalksAt
    <2>2. ViWalksAt(r) BY DEF ViInv, ViWalks, ViWalksAt
    <2>3. /\ viListed[r] = Vi!Files /\ viTodo[r] = Vi!Files
          /\ \A p \in NotePath : viTx[r][p] = Untouched
        BY <1>2, <2>1, <2>2 DEF ViWalksAt, ViWalking, ViWalk, Vi!Files
    <2>4. \A p \in NotePath : viTx'[r][p] \in {None, Untouched}
        BY <1>1, <1>4, <2>3 DEF ViDomains, Vi!Nothing
    <2>5. CASE viCmd[r].kind = "full"
        <3>1. \A p \in NotePath : viTx'[r][p] = None /\ viKnown'[r][p] = None
            BY <1>1, <1>4, <2>5 DEF ViDomains, Vi!Nothing
        <3>2. QED BY <1>1, <1>2, <1>3, <2>3, <2>5, <3>1, VaultAssumption
              DEF ViWalksAt, ViWalk, ViDomains, Vi!Files
    <2>6. CASE viCmd[r].kind # "full"
        <3>1. \A p \in NotePath : /\ viTx'[r][p] = Untouched
                                  /\ viKnown'[r][p] = IF viRow[p] = None THEN None ELSE viRow[p].stamp
            BY <1>1, <1>4, <2>3, <2>6 DEF ViDomains
        <3>2. QED BY <1>1, <1>2, <1>3, <2>3, <2>6, <3>1 DEF ViWalksAt, ViWalk, ViDomains, Vi!Files
    <2>7. QED BY <2>5, <2>6
<1>9. ViTold' /\ ViStamps' /\ ViFreshly'
    <2>1. \A s \in Indexer : viPc'[s] = "upsert" => viPc[s] = "upsert"
        BY <1>1, <1>2 DEF ViDomains
    <2>2. \A s \in Indexer, p \in NotePath : viTx'[s][p] = viTx[s][p] \/ viTx'[s][p] \in {None, Untouched}
        BY <1>1, <1>4 DEF ViDomains, Vi!Nothing
    <2>3. QED BY <1>3, <2>1, <2>2, ViKeeps
<1>10. QED BY <1>5, <1>6, <1>7, <1>8, <1>9, ViTurn

LEMMA ViVisit ==
    ASSUME ViInv, NEW r \in Indexer, Vi!Visit(r)
    PROVE  ViInv'
<1> DEFINE p == Vi!Least(viTodo[r])
<1>1. ViTyped(r) /\ ViDomains BY DEF ViInv, ViTypes, ViDomains
<1>2. viPc[r] = "visit" /\ viTodo[r] # {} /\ viFile[p] # None BY DEF Vi!Visit
<1>3. UNCHANGED <<viFile, viRow, viVec, viDb, viCmd, viListed, viKnown, viTx, viQuiet, viFresh, viRaced>>
    BY DEF Vi!Visit
<1>4. \/ /\ viFile[p].stamp = viKnown[r][p]
         /\ viTodo' = [viTodo EXCEPT ![r] = @ \ {p}] /\ UNCHANGED <<viPc, viHeld>>
      \/ /\ viFile[p].stamp # viKnown[r][p]
         /\ viHeld' = [viHeld EXCEPT ![r].text = viFile[p].text]
         /\ viPc' = [viPc EXCEPT ![r] = "parsed"] /\ UNCHANGED viTodo
    BY DEF Vi!Visit, Vi!Goto
<1>5. p \in NotePath /\ p \in viTodo[r] BY <1>1, <1>2, ViLeast DEF ViTyped
<1> HIDE DEF p
<1>6. ViStep(r) BY <1>1, <1>3, <1>4 DEF ViStep, ViSame, ViUndisturbed, ViDomains
<1>7. ViDomains' BY <1>1, <1>3, <1>4 DEF ViDomains
<1>8. ViTyped(r)'
    <2>1. viFile[p].text \in Text BY <1>2, <1>5 DEF ViInv, ViStamps
    <2>2. QED BY <1>1, <1>2, <1>3, <1>4, <2>1 DEF ViTyped, ViDomains
<1>9. ViWalksAt(r)'
    <2>1. SUFFICES ASSUME viCmd[r].kind # "save", viQuiet[r] PROVE ViWalksAt(r)'
        BY <1>3 DEF ViWalksAt
    <2>2. ViWalk(viCmd[r].kind, "visit", viListed[r], viKnown[r], viTodo[r], viHeld[r],
                 viTx[r], viFile, viRow)
        BY <1>2, <2>1 DEF ViInv, ViWalks, ViWalking
    <2>3. CASE viFile[p].stamp = viKnown[r][p] /\ viPc' = viPc
                 /\ viTodo' = [viTodo EXCEPT ![r] = @ \ {p}] /\ viHeld' = viHeld
        <3>1. viFile[p].stamp # None BY <1>2, <1>5, ViNoStamp DEF ViInv, ViStamps
        <3>2. viCmd[r].kind # "full" BY <1>5, <2>2, <2>3, <3>1 DEF ViWalk
        <3>3. viRow[p] # None /\ viRow[p].stamp = viFile[p].stamp
            BY <1>5, <2>2, <2>3, <3>1, <3>2 DEF ViWalk
        <3>4. viTx[r][p] = Untouched BY <1>5, <2>2, <3>2 DEF ViWalk
        <3>5. QED BY <1>1, <1>2, <1>3, <1>5, <2>2, <2>3, <3>2, <3>3, <3>4
              DEF ViWalksAt, ViWalk, ViDomains, ViLeaves
    <2>4. CASE viPc' = [viPc EXCEPT ![r] = "parsed"] /\ viTodo' = viTodo
        BY <1>1, <1>3, <2>2, <2>4 DEF ViWalksAt, ViWalk, ViDomains
    <2>5. QED BY <1>4, <2>3, <2>4
<1>10. ViTold' /\ ViStamps' /\ ViFreshly'
    <2>1. \A s \in Indexer : viPc'[s] = "upsert" => /\ viPc[s] = "upsert" /\ viHeld'[s] = viHeld[s]
                                                    /\ viTodo'[s] = viTodo[s]
        BY <1>1, <1>2, <1>4 DEF ViDomains
    <2>2. QED BY <1>3, <2>1, ViKeeps
<1>11. QED BY <1>6, <1>7, <1>8, <1>9, <1>10, ViTurn

LEMMA ViPrune ==
    ASSUME ViInv, NEW r \in Indexer, Vi!Prune(r)
    PROVE  ViInv'
<1>1. ViTyped(r) /\ ViDomains BY DEF ViInv, ViTypes, ViDomains
<1>2. viPc[r] = "visit" /\ viTodo[r] = {} /\ viPc' = [viPc EXCEPT ![r] = "commit"]
    BY DEF Vi!Prune, Vi!Goto
<1>3. UNCHANGED <<viFile, viRow, viVec, viCmd, viListed, viKnown, viTodo, viHeld, viQuiet, viFresh, viRaced>>
    BY DEF Vi!Prune
<1>4. viTx' = [viTx EXCEPT ![r] =
        [p \in NotePath |-> IF viKnown[r][p] # None /\ p \notin viListed[r] THEN None ELSE viTx[r][p]]]
    BY DEF Vi!Prune
<1>5. ViStep(r) BY <1>1, <1>2, <1>3, <1>4 DEF ViStep, ViSame, ViUndisturbed, ViDomains
<1>6. ViDomains' BY <1>1, <1>2, <1>3, <1>4 DEF ViDomains
<1>7. ViTyped(r)' BY <1>1, <1>2, <1>3, <1>4 DEF ViTyped, ViDomains
<1>8. \A p \in NotePath : viTx'[r][p] = IF viKnown[r][p] # None /\ p \notin viListed[r]
                                        THEN None ELSE viTx[r][p]
    BY <1>1, <1>4 DEF ViDomains
<1>9. ViWalksAt(r)'
    <2>1. SUFFICES ASSUME viCmd[r].kind # "save", viQuiet[r] PROVE ViWalksAt(r)'
        BY <1>3 DEF ViWalksAt
    <2>2. ViWalk(viCmd[r].kind, "visit", viListed[r], viKnown[r], {}, viHeld[r],
                 viTx[r], viFile, viRow)
        BY <1>2, <2>1 DEF ViInv, ViWalks, ViWalking
    <2>3. \A p \in NotePath : viFile[p] # None => viTx'[r][p] = viTx[r][p]
        BY <1>8, <2>2 DEF ViWalk
    <2>4. \A p \in NotePath : viFile[p] = None => /\ viTx'[r][p] \in {None, Untouched}
                                                  /\ ViLeaves(viRow, viTx'[r], p) = None
        <3>1. SUFFICES ASSUME NEW p \in NotePath, viFile[p] = None
              PROVE  viTx'[r][p] \in {None, Untouched} /\ ViLeaves(viRow, viTx'[r], p) = None
            OBVIOUS
        <3>2. p \notin viListed[r] /\ viTx[r][p] \in {None, Untouched} BY <2>2, <3>1 DEF ViWalk
        <3>3. viKnown[r][p] = None => viRow[p] = None \/ viTx[r][p] = None
            BY <2>2, <3>2, ViNoStamp DEF ViWalk, ViInv, ViStamps
        <3>4. QED BY <1>8, <3>2, <3>3, VaultAssumption DEF ViLeaves
    <2>5. viPc'[r] = "commit" /\ viTodo'[r] = {} BY <1>1, <1>2, <1>3 DEF ViDomains
    <2>6. ViWalk(viCmd[r].kind, "commit", viListed[r], viKnown[r], {}, viHeld[r],
                 viTx'[r], viFile, viRow)
        <3>1. \A p \in NotePath : viCmd[r].kind = "full" =>
                /\ viTx'[r][p] # Untouched /\ viKnown[r][p] = None
                /\ viTx'[r][p] # None => viTx'[r][p].resolved =
                        LinksOf[viTx'[r][p].text] \cap {q \in NotePath : viFile[q] # None}
            BY <1>8, <2>2 DEF ViWalk
        <3>2. QED BY <2>2, <2>3, <2>4, <3>1 DEF ViWalk, ViLeaves
    <2>7. QED BY <1>3, <2>5, <2>6 DEF ViWalksAt
<1>10. ViTold' /\ ViStamps' /\ ViFreshly'
    <2>1. \A s \in Indexer : viPc'[s] = "upsert" => viPc[s] = "upsert"
        BY <1>1, <1>2 DEF ViDomains
    <2>2. \A s \in Indexer, p \in NotePath : viTx'[s][p] = viTx[s][p] \/ viTx'[s][p] \in {None, Untouched}
        BY <1>1, <1>4, <1>8 DEF ViDomains
    <2>3. QED BY <1>3, <2>1, <2>2, ViKeeps
<1>11. QED BY <1>5, <1>6, <1>7, <1>9, <1>10, ViTurn

\* The command of r ends, or goes on to the embeddings.
LEMMA ViLeave ==
    ASSUME ViInv, NEW r \in Indexer, NEW l \in {"idle", "embed"}, viPc[r] # "idle", Vi!Leave(r, l)
    PROVE  /\ ViDomains /\ (DOMAIN viQuiet' = Indexer /\ UNCHANGED <<viFile, viRow>> => ViDomains')
           /\ ViTyped(r)' /\ ViWalksAt(r)' /\ \A s \in Indexer \ {r} : ViSame(s)
           /\ \A s \in Indexer, p \in NotePath : viTx'[s][p] = viTx[s][p] \/ viTx'[s][p] = Untouched
           /\ \A s \in Indexer : viPc'[s] = "upsert" =>
                /\ viPc[s] = "upsert" /\ viHeld'[s] = viHeld[s]
                /\ viCmd'[s] = viCmd[s] /\ viTodo'[s] = viTodo[s]
           /\ DOMAIN viPc' = Indexer /\ DOMAIN viCmd' = Indexer /\ DOMAIN viListed' = Indexer
           /\ DOMAIN viKnown' = Indexer /\ DOMAIN viTodo' = Indexer /\ DOMAIN viHeld' = Indexer
           /\ DOMAIN viTx' = Indexer
<1>1. ViTyped(r) /\ ViDomains BY DEF ViInv, ViTypes, ViDomains
<1>2. /\ viPc' = [viPc EXCEPT ![r] = l]
      /\ viCmd' = IF l = "idle" THEN [viCmd EXCEPT ![r] = None] ELSE viCmd
      /\ viListed' = [viListed EXCEPT ![r] = {}]
      /\ viKnown' = [viKnown EXCEPT ![r] = [p \in NotePath |-> None]]
      /\ viTodo' = [viTodo EXCEPT ![r] = {}]
      /\ viHeld' = [viHeld EXCEPT ![r] = [text |-> None, stamp |-> None]]
      /\ viTx' = [viTx EXCEPT ![r] = [p \in NotePath |-> Untouched]]
    BY DEF Vi!Leave, Vi!Goto, Vi!Nothing, Vi!NoParse, Vi!AllKept
<1>3. ViTyped(r)' BY <1>1, <1>2 DEF ViTyped, ViDomains
<1>4. ViWalksAt(r)' BY <1>1, <1>2 DEF ViWalksAt, ViWalking, ViDomains
<1>5. \A s \in Indexer \ {r} : ViSame(s) BY <1>1, <1>2 DEF ViSame, ViDomains
<1>6. QED BY <1>1, <1>2, <1>3, <1>4, <1>5 DEF ViDomains

LEMMA ViAbort ==
    ASSUME ViInv, NEW r \in Indexer, Vi!Abort(r)
    PROVE  ViInv'
<1>1. /\ viPc[r] # "idle" /\ Vi!Leave(r, "idle")
      /\ UNCHANGED <<viFile, viRow, viVec, viQuiet, viFresh, viRaced>>
    BY DEF Vi!Abort
<1>2. /\ ViDomains' /\ ViTyped(r)' /\ ViWalksAt(r)' /\ ViStep(r)
      /\ \A s \in Indexer, p \in NotePath : viTx'[s][p] = viTx[s][p] \/ viTx'[s][p] = Untouched
      /\ \A s \in Indexer : viPc'[s] = "upsert" =>
           /\ viPc[s] = "upsert" /\ viHeld'[s] = viHeld[s]
           /\ viCmd'[s] = viCmd[s] /\ viTodo'[s] = viTodo[s]
    BY <1>1, ViLeave DEF ViStep, ViUndisturbed, ViDomains
<1>3. ViTold' /\ ViStamps' /\ ViFreshly' BY <1>1, <1>2, ViKeeps
<1>4. QED BY <1>2, <1>3, ViTurn

LEMMA ViStoreVectors ==
    ASSUME ViInv, NEW r \in Indexer, Vi!StoreVectors(r)
    PROVE  ViInv'
<1>1. /\ viPc[r] # "idle" /\ Vi!Leave(r, "idle")
      /\ UNCHANGED <<viFile, viRow, viQuiet, viFresh, viRaced>>
    BY DEF Vi!StoreVectors
<1>2. /\ ViDomains' /\ ViTyped(r)' /\ ViWalksAt(r)' /\ ViStep(r)
      /\ \A s \in Indexer, p \in NotePath : viTx'[s][p] = viTx[s][p] \/ viTx'[s][p] = Untouched
      /\ \A s \in Indexer : viPc'[s] = "upsert" =>
           /\ viPc[s] = "upsert" /\ viHeld'[s] = viHeld[s]
           /\ viCmd'[s] = viCmd[s] /\ viTodo'[s] = viTodo[s]
    BY <1>1, ViLeave DEF ViStep, ViUndisturbed, ViDomains
<1>3. ViTold' /\ ViStamps' /\ ViFreshly' BY <1>1, <1>2, ViKeeps
<1>4. QED BY <1>2, <1>3, ViTurn

LEMMA ViRecord ==
    ASSUME ViInv, NEW r \in Indexer, Vi!Record(r) \/ Vi!AskProvider(r)
    PROVE  ViInv'
<1>1. ViTyped(r) /\ ViDomains BY DEF ViInv, ViTypes, ViDomains
<1>2. /\ viPc[r] \in {"record", "embed"}
      /\ UNCHANGED <<viFile, viRow, viVec, viDb, viCmd, viKnown, viTodo, viTx, viQuiet, viFresh, viRaced>>
      /\ viListed' = viListed \/ viListed' = [viListed EXCEPT ![r] = Vi!Files]
      /\ \E t : /\ viHeld' = [viHeld EXCEPT ![r].text = t]
                /\ viPc[r] = "record" => viFile[viCmd[r].p] # None /\ t = viFile[viCmd[r].p].text
      /\ viPc' = [viPc EXCEPT ![r] = IF viPc[r] = "record" THEN "parsed" ELSE "vectors"]
    BY DEF Vi!Record, Vi!AskProvider, Vi!Goto
<1>3. ViStep(r) BY <1>1, <1>2 DEF ViStep, ViSame, ViUndisturbed, ViDomains
<1>4. ViDomains' BY <1>1, <1>2 DEF ViDomains
<1>5. ViTyped(r)'
    <2>1. viPc[r] = "record" => viFile[viCmd[r].p].text \in Text
        BY <1>1, <1>2 DEF ViInv, ViStamps, ViTyped
    <2>2. QED BY <1>1, <1>2, <2>1 DEF ViTyped, ViDomains, Vi!Files
<1>6. ViWalksAt(r)' BY <1>1, <1>2 DEF ViWalksAt, ViWalking, ViDomains, ViTyped
<1>7. ViTold' /\ ViStamps' /\ ViFreshly'
    <2>1. \A s \in Indexer : viPc'[s] = "upsert" => viPc[s] = "upsert" /\ viHeld'[s] = viHeld[s]
        BY <1>1, <1>2 DEF ViDomains
    <2>2. QED BY <1>2, <2>1, ViKeeps
<1>8. QED BY <1>3, <1>4, <1>5, <1>6, <1>7, ViTurn

-----------------------------------------------------------------------------
(* The parsed note, its row, and the commit.                               *)

LEMMA ViStat ==
    ASSUME ViInv, NEW r \in Indexer, Vi!Stat(r)
    PROVE  ViInv'
<1> DEFINE p == Vi!Target(r)
<1>1. ViTyped(r) /\ ViDomains BY DEF ViInv, ViTypes, ViDomains
<1>2. /\ viPc[r] = "parsed" /\ viFile[p] # None
      /\ viPc' = [viPc EXCEPT ![r] = "upsert"]
      /\ viHeld' = [viHeld EXCEPT ![r].stamp = viFile[p].stamp]
      /\ viRaced' = (viRaced \/ viFile[p].text # viHeld[r].text)
      /\ UNCHANGED <<viFile, viRow, viCmd, viListed, viKnown, viTodo, viTx, viQuiet, viFresh>>
    BY DEF Vi!Stat, Vi!Goto
<1>3. p \in NotePath /\ (viCmd[r].kind # "save" => p = Vi!Least(viTodo[r]))
    BY <1>2, ViTargets
<1>4. \A s \in Indexer : Vi!Target(s)' = Vi!Target(s) BY <1>2 DEF Vi!Target
<1> HIDE DEF p
<1>5. /\ viHeld'[r].text = viHeld[r].text /\ viHeld'[r].stamp = viFile[p].stamp
      /\ \A s \in Indexer \ {r} : viPc'[s] = viPc[s] /\ viHeld'[s] = viHeld[s]
      /\ viPc'[r] = "upsert"
    BY <1>1, <1>2 DEF ViTyped, ViDomains
<1>6. ViStep(r) BY <1>1, <1>2 DEF ViStep, ViSame, ViUndisturbed, ViDomains
<1>7. ViDomains' BY <1>1, <1>2 DEF ViDomains
<1>8. ViTyped(r)' BY <1>1, <1>2 DEF ViTyped, ViDomains
<1>9. ViWalksAt(r)'
    <2>1. SUFFICES ASSUME viCmd[r].kind # "save", viQuiet[r] PROVE ViWalksAt(r)'
        BY <1>2 DEF ViWalksAt
    <2>2. ViWalk(viCmd[r].kind, "parsed", viListed[r], viKnown[r], viTodo[r], viHeld[r],
                 viTx[r], viFile, viRow)
        BY <1>2, <2>1 DEF ViInv, ViWalks, ViWalking
    <2>3. viHeld'[r].stamp = viFile[Vi!Least(viTodo[r])].stamp BY <1>3, <1>5, <2>1
    <2>4. ViWalk(viCmd[r].kind, "upsert", viListed[r], viKnown[r], viTodo[r], viHeld'[r],
                 viTx[r], viFile, viRow)
        BY <2>2, <2>3 DEF ViWalk
    <2>5. QED BY <1>2, <1>5, <2>4 DEF ViWalksAt, ViWalk, Vi!Least
<1>10. ViTold'
    <2>1. SUFFICES ASSUME ~viRaced, viFile[p].text = viHeld[r].text PROVE ViTold'
        BY <1>2 DEF ViTold
    <2>2. Vi!SkippedIsSame'
        BY <1>2, <2>1 DEF ViInv, ViTold, Vi!SkippedIsSame, Vi!Files, Vi!Rows
    <2>3. \A s \in Indexer : viPc'[s] = "upsert" /\ viFile[Vi!Target(s)] # None
              /\ viHeld'[s].stamp = viFile[Vi!Target(s)].stamp =>
                    viHeld'[s].text = viFile[Vi!Target(s)].text
        BY <1>5, <2>1 DEF ViInv, ViTold, p
    <2>4. QED BY <1>2, <1>4, <2>1, <2>2, <2>3 DEF ViInv, ViTold
<1>11. ViStamps' BY <1>2, <1>3, <1>5 DEF ViInv, ViStamps
<1>12. ViFreshly' BY <1>2 DEF ViInv, ViFreshly, Vi!Files
<1>13. QED BY <1>6, <1>7, <1>8, <1>9, <1>10, <1>11, <1>12, ViTurn

LEMMA ViUpsert ==
    ASSUME ViInv, NEW r \in Indexer, Vi!Upsert(r)
    PROVE  ViInv'
<1> DEFINE p == Vi!Target(r)
           new == [text |-> viHeld[r].text, stamp |-> viHeld[r].stamp,
                   resolved |-> LinksOf[viHeld[r].text] \cap viListed[r]]
<1>1. ViTyped(r) /\ ViDomains BY DEF ViInv, ViTypes, ViDomains
<1>2. /\ viPc[r] = "upsert"
      /\ viTx' = [viTx EXCEPT ![r][p] = new]
      /\ viHeld' = [viHeld EXCEPT ![r] = [text |-> None, stamp |-> None]]
      /\ viTodo' = [viTodo EXCEPT ![r] = @ \ {p}]
      /\ viPc' = [viPc EXCEPT ![r] = IF viCmd[r].kind = "save" THEN "commit" ELSE "visit"]
      /\ UNCHANGED <<viFile, viRow, viCmd, viListed, viKnown, viQuiet, viFresh, viRaced>>
    BY DEF Vi!Upsert, Vi!Goto, Vi!Parsed, Vi!NoParse
<1>3. p \in NotePath /\ (viCmd[r].kind # "save" => p = Vi!Least(viTodo[r]) /\ p \in viTodo[r])
    BY <1>2, ViTargets
<1>4. \A s \in Indexer \ {r} : Vi!Target(s)' = Vi!Target(s) BY <1>1, <1>2 DEF Vi!Target, ViDomains
<1> HIDE DEF p
<1>5. /\ \A s \in Indexer \ {r} : viPc'[s] = viPc[s] /\ viHeld'[s] = viHeld[s] /\ viTx'[s] = viTx[s]
      /\ viPc'[r] = IF viCmd[r].kind = "save" THEN "commit" ELSE "visit"
      /\ viTx'[r][p] = new /\ \A q \in NotePath \ {p} : viTx'[r][q] = viTx[r][q]
      /\ viTodo'[r] = viTodo[r] \ {p}
    BY <1>1, <1>2, <1>3 DEF ViTyped, ViDomains
<1>6. new.text = viHeld[r].text /\ new.stamp = viHeld[r].stamp
      /\ new.resolved = LinksOf[new.text] \cap viListed[r]
    OBVIOUS
<1>7. ViStep(r) BY <1>1, <1>2 DEF ViStep, ViSame, ViUndisturbed, ViDomains
<1>8. ViDomains' BY <1>1, <1>2 DEF ViDomains
<1>9. ViTyped(r)' BY <1>1, <1>2 DEF ViTyped, ViDomains
<1> HIDE DEF new
<1>10. ViWalksAt(r)'
    <2>1. SUFFICES ASSUME viCmd[r].kind # "save", viQuiet[r] PROVE ViWalksAt(r)'
        BY <1>2 DEF ViWalksAt
    <2>2. ViWalk(viCmd[r].kind, "upsert", viListed[r], viKnown[r], viTodo[r], viHeld[r],
                 viTx[r], viFile, viRow)
        BY <1>2, <2>1 DEF ViInv, ViWalks, ViWalking
    <2>3. new.stamp = viFile[p].stamp /\ viFile[p] # None
        BY <1>3, <1>6, <2>1, <2>2 DEF ViWalk
    <2>4. new # None /\ new # Untouched
        <3>1. viHeld[r].text \in Text /\ viHeld[r].stamp \in Vi!Stamp
            BY <1>1, <1>2 DEF ViTyped, ViInv, ViStamps
        <3>2. new \in Vi!Row BY <1>1, <3>1 DEF new, Vi!Row, ViTyped
        <3>3. QED BY <3>2, VaultAssumption
    <2>5. QED BY <1>1, <1>2, <1>3, <1>5, <1>6, <2>1, <2>2, <2>3, <2>4
          DEF ViWalksAt, ViWalk, ViLeaves
<1>11. ViTold'
    <2>1. SUFFICES ASSUME ~viRaced PROVE ViTold'
        BY <1>2 DEF ViTold
    <2>2. Vi!SkippedIsSame'
        BY <1>2, <2>1 DEF ViInv, ViTold, Vi!SkippedIsSame, Vi!Files, Vi!Rows
    <2>3. viFile[p] # None /\ new.stamp = viFile[p].stamp => new.text = viFile[p].text
        BY <1>2, <1>6, <2>1 DEF ViInv, ViTold, p
    <2>4. \A s \in Indexer, q \in NotePath :
             viTx'[s][q] \notin {None, Untouched} /\ viFile[q] # None
                 /\ viTx'[s][q].stamp = viFile[q].stamp => viTx'[s][q].text = viFile[q].text
        BY <1>5, <2>1, <2>3 DEF ViInv, ViTold
    <2>5. \A s \in Indexer : viPc'[s] = "upsert" /\ viFile[Vi!Target(s)'] # None
              /\ viHeld'[s].stamp = viFile[Vi!Target(s)'].stamp =>
                    viHeld'[s].text = viFile[Vi!Target(s)'].text
        BY <1>4, <1>5, <2>1 DEF ViInv, ViTold
    <2>6. QED BY <1>2, <2>2, <2>4, <2>5 DEF ViTold
<1>12. ViStamps' BY <1>2, <1>3, <1>5, <1>6 DEF ViInv, ViStamps
<1>13. ViFreshly' BY <1>2 DEF ViInv, ViFreshly, Vi!Files
<1>14. QED BY <1>7, <1>8, <1>9, <1>10, <1>11, <1>12, <1>13, ViTurn

LEMMA ViCommit ==
    ASSUME ViInv, NEW r \in Indexer, Vi!Commit(r)
    PROVE  ViInv'
<1> DEFINE touched == {p \in NotePath : viTx[r][p] # Untouched}
           kind == viCmd[r].kind
<1>1. ViDomains BY DEF ViInv, ViTypes, ViDomains
<1>2. /\ viPc[r] = "commit"
      /\ viRow' = [p \in NotePath |-> IF p \in touched THEN viTx[r][p] ELSE viRow[p]]
      /\ viQuiet' = [s \in Indexer |-> viQuiet[s] /\ (s = r \/ touched = {})]
      /\ viFresh' = IF kind # "save" /\ viQuiet[r]
                    THEN (IF kind = "full" THEN "full" ELSE "refresh")
                    ELSE IF touched = {} THEN viFresh ELSE "no"
      /\ Vi!Leave(r, IF kind = "embed" THEN "embed" ELSE "idle")
      /\ UNCHANGED <<viFile, viRaced>>
    BY DEF Vi!Commit
<1>3. /\ DOMAIN viPc' = Indexer /\ DOMAIN viCmd' = Indexer /\ DOMAIN viListed' = Indexer
      /\ DOMAIN viKnown' = Indexer /\ DOMAIN viTodo' = Indexer /\ DOMAIN viHeld' = Indexer
      /\ DOMAIN viTx' = Indexer /\ ViTyped(r)' /\ ViWalksAt(r)' /\ \A s \in Indexer \ {r} : ViSame(s)
      /\ \A s \in Indexer, p \in NotePath : viTx'[s][p] = viTx[s][p] \/ viTx'[s][p] = Untouched
      /\ \A s \in Indexer : viPc'[s] = "upsert" =>
           /\ viPc[s] = "upsert" /\ viHeld'[s] = viHeld[s]
           /\ viCmd'[s] = viCmd[s] /\ viTodo'[s] = viTodo[s]
    BY <1>2, ViLeave
<1>4. ViDomains' BY <1>1, <1>2, <1>3 DEF ViDomains
<1>5. \A p \in NotePath : viRow'[p] = ViLeaves(viRow, viTx[r], p)
    BY <1>2 DEF ViLeaves
<1>6. touched = {} => \A p \in NotePath : viRow'[p] = viRow[p]
    BY <1>2
<1>7. ViStep(r) BY <1>2, <1>3, <1>6 DEF ViStep, ViUndisturbed
<1>8. \A s \in Indexer : viPc'[s] = "upsert" => Vi!Target(s)' = Vi!Target(s)
    BY <1>3 DEF Vi!Target
<1>9. ViTold'
    <2>1. SUFFICES ASSUME ~viRaced PROVE ViTold'
        BY <1>2 DEF ViTold
    <2>2. Vi!SkippedIsSame'
        <3>1. SUFFICES ASSUME NEW p \in NotePath, viFile[p] # None, viRow'[p] # None,
                              viRow'[p].stamp = viFile[p].stamp
              PROVE  viRow'[p].text = viFile[p].text
            BY <1>2 DEF Vi!SkippedIsSame, Vi!Files, Vi!Rows
        <3>2. CASE viTx[r][p] = Untouched
            BY <1>5, <2>1, <3>1, <3>2 DEF ViLeaves, ViInv, ViTold, Vi!SkippedIsSame, Vi!Files, Vi!Rows
        <3>3. CASE viTx[r][p] # Untouched
            BY <1>5, <2>1, <3>1, <3>3 DEF ViLeaves, ViInv, ViTold
        <3>4. QED BY <3>2, <3>3
    <2>3. \A s \in Indexer, p \in NotePath :
             viTx'[s][p] \notin {None, Untouched} /\ viFile[p] # None
                 /\ viTx'[s][p].stamp = viFile[p].stamp => viTx'[s][p].text = viFile[p].text
        BY <1>3, <2>1 DEF ViInv, ViTold
    <2>4. \A s \in Indexer : viPc'[s] = "upsert" /\ viFile[Vi!Target(s)'] # None
              /\ viHeld'[s].stamp = viFile[Vi!Target(s)'].stamp =>
                    viHeld'[s].text = viFile[Vi!Target(s)'].text
        BY <1>3, <1>8, <2>1 DEF ViInv, ViTold
    <2>5. QED BY <1>2, <2>2, <2>3, <2>4 DEF ViTold
<1>10. ViStamps'
    <2>1. \A p \in NotePath : viRow'[p] # None => viRow'[p].stamp \in Vi!Stamp
        BY <1>5 DEF ViLeaves, ViInv, ViStamps
    <2>2. QED BY <1>2, <1>3, <2>1 DEF ViInv, ViStamps
<1>11. ViFreshly'
    <2>1. CASE kind # "save" /\ viQuiet[r]
        <3>1. ViWalk(kind, "commit", viListed[r], viKnown[r], viTodo[r], viHeld[r],
                     viTx[r], viFile, viRow)
            BY <1>2, <2>1 DEF ViInv, ViWalks, ViWalking
        <3>2. \A p \in NotePath : /\ viRow'[p] # None <=> viFile[p] # None
                                  /\ viRow'[p] # None => viRow'[p].stamp = viFile[p].stamp
            BY <1>5, <3>1 DEF ViWalk
        <3>3. viFresh' = "full" => \A p \in NotePath : viRow'[p] # None =>
                 viRow'[p].resolved = LinksOf[viRow'[p].text] \cap Vi!Files
            BY <1>2, <1>5, <2>1, <3>1 DEF ViWalk, ViLeaves, Vi!Files
        <3>4. QED BY <1>2, <3>2, <3>3 DEF ViFreshly, Vi!Files
    <2>2. CASE ~(kind # "save" /\ viQuiet[r]) /\ touched = {}
        <3>1. viFresh' = viFresh BY <1>2, <2>2
        <3>2. QED BY <1>2, <1>6, <2>2, <3>1 DEF ViInv, ViFreshly, Vi!Files
    <2>3. CASE ~(kind # "save" /\ viQuiet[r]) /\ touched # {}
        BY <1>2, <2>3 DEF ViFreshly
    <2>4. QED BY <2>1, <2>2, <2>3
<1>12. QED BY <1>3, <1>4, <1>7, <1>9, <1>10, <1>11, ViTurn

-----------------------------------------------------------------------------
(* The notes change.                                                       *)

\* A note gets a stamp that no row, committed or not, and no parsed note has.
LEMMA ViWrite ==
    ASSUME ViInv, NEW p \in NotePath, NEW t \in Text, Vi!WriteFile(p, t),
           UNCHANGED <<viRow, viTx, viHeld, viTodo, viCmd, viRaced>>,
           \A s \in Indexer : viPc'[s] = "upsert" => viPc[s] = "upsert"
    PROVE  DOMAIN viFile' = NotePath /\ ViTold' /\ ViStamps'
<1>1. PICK f : f = Vi!Fresh OBVIOUS
<1>2. f \in 1..MaxStamp /\ f \notin Vi!Noted BY <1>1 DEF Vi!WriteFile, Vi!Fresh
<1>3. viFile' = [viFile EXCEPT ![p] = [text |-> t, stamp |-> f]] BY <1>1 DEF Vi!WriteFile
<1>4. ViDomains BY DEF ViInv, ViTypes, ViDomains
<1>5. /\ viFile'[p].text = t /\ viFile'[p].stamp = f
      /\ \A q \in NotePath \ {p} : viFile'[q] = viFile[q]
      /\ DOMAIN viFile' = NotePath
    BY <1>3, <1>4 DEF ViDomains
<1>6. /\ \A q \in NotePath : viRow[q] # None => viRow[q].stamp # f
      /\ \A s \in Indexer : viHeld[s].stamp # f
      /\ \A s \in Indexer, q \in NotePath : viTx[s][q] \notin {None, Untouched} => viTx[s][q].stamp # f
    <2>1. \A q \in NotePath : viRow[q] # None => viRow[q].stamp # f
        BY <1>2 DEF Vi!Noted, Vi!Rows
    <2>2. \A s \in Indexer : viHeld[s].stamp # f
        BY <1>2 DEF Vi!Noted
    <2>3. SUFFICES ASSUME NEW s \in Indexer, NEW q \in NotePath, viTx[s][q] \notin {None, Untouched}
          PROVE  viTx[s][q].stamp # f
        BY <2>1, <2>2
    <2>4. <<s, q>> \in {x \in Indexer \X NotePath : viTx[x[1]][x[2]] \notin {None, Untouched}}
        BY <2>3
    <2>5. viTx[<<s, q>>[1]][<<s, q>>[2]].stamp \in Vi!Noted
        BY <2>4 DEF Vi!Noted
    <2>6. QED BY <1>2, <2>5
<1>7. \A s \in Indexer : viPc'[s] = "upsert" => Vi!Target(s)' = Vi!Target(s) /\ Vi!Target(s) \in NotePath
    BY ViTargets DEF Vi!Target
<1>8. ViTold'
    <2>1. SUFFICES ASSUME ~viRaced PROVE ViTold'
        BY DEF ViTold
    <2>2. Vi!SkippedIsSame'
        BY <1>5, <1>6, <2>1 DEF ViInv, ViTold, Vi!SkippedIsSame, Vi!Files, Vi!Rows
    <2>3. \A s \in Indexer, q \in NotePath :
             viTx[s][q] \notin {None, Untouched} /\ viFile'[q] # None
                 /\ viTx[s][q].stamp = viFile'[q].stamp => viTx[s][q].text = viFile'[q].text
        BY <1>5, <1>6, <2>1 DEF ViInv, ViTold
    <2>4. \A s \in Indexer : viPc'[s] = "upsert" /\ viFile'[Vi!Target(s)] # None
              /\ viHeld[s].stamp = viFile'[Vi!Target(s)].stamp =>
                    viHeld[s].text = viFile'[Vi!Target(s)].text
        BY <1>5, <1>6, <1>7, <2>1 DEF ViInv, ViTold
    <2>5. QED BY <1>7, <2>2, <2>3, <2>4 DEF ViTold
<1>9. ViStamps'
    <2>1. f \in Vi!Stamp BY <1>2, VaultAssumption DEF Vi!Stamp
    <2>2. QED BY <1>5, <2>1 DEF ViInv, ViStamps
<1>10. QED BY <1>5, <1>8, <1>9

LEMMA ViSave ==
    ASSUME ViInv, NEW r \in Indexer, Vi!Save(r)
    PROVE  ViInv'
<1>1. ViTyped(r) /\ ViDomains BY DEF ViInv, ViTypes, ViDomains
<1>2. /\ viPc[r] = "write" /\ Vi!WriteFile(viCmd[r].p, viCmd[r].t)
      /\ viQuiet' = [s \in Indexer |-> s = r /\ viQuiet[s]] /\ viFresh' = "no"
      /\ viPc' = [viPc EXCEPT ![r] = "record"]
      /\ UNCHANGED <<viRow, viCmd, viListed, viKnown, viTodo, viHeld, viTx, viRaced>>
    BY DEF Vi!Save, Vi!Disturb, Vi!Goto
<1>3. viCmd[r].p \in NotePath /\ viCmd[r].t \in Text /\ viCmd[r].kind = "save"
    BY <1>1, <1>2 DEF ViTyped
<1>4. \A s \in Indexer : viPc'[s] = "upsert" => viPc[s] = "upsert"
    BY <1>1, <1>2 DEF ViDomains
<1>5. DOMAIN viFile' = NotePath /\ ViTold' /\ ViStamps' BY <1>2, <1>3, <1>4, ViWrite
<1>6. ViDomains' BY <1>1, <1>2, <1>5 DEF ViDomains
<1>7. ViStep(r) BY <1>1, <1>2 DEF ViStep, ViSame, ViUndisturbed, ViDomains
<1>8. ViTyped(r)' /\ ViWalksAt(r)'
    BY <1>1, <1>2, <1>3 DEF ViTyped, ViWalksAt, ViWalking, ViDomains
<1>9. ViFreshly' BY <1>2 DEF ViFreshly
<1>10. QED BY <1>5, <1>6, <1>7, <1>8, <1>9, ViTurn

LEMMA ViEdit ==
    ASSUME ViInv, NEW p \in NotePath, NEW t \in Text, Vi!EditNote(p, t)
    PROVE  ViInv'
<1>1. ViDomains BY DEF ViInv, ViTypes, ViDomains
<1>2. /\ Vi!WriteFile(p, t) /\ viFresh' = "no"
      /\ viQuiet' = [s \in Indexer |-> s = None /\ viQuiet[s]]
      /\ UNCHANGED <<viRow, viPc, viCmd, viListed, viKnown, viTodo, viHeld, viTx, viRaced>>
    BY DEF Vi!EditNote, Vi!Disturb, Vi!control
<1>3. DOMAIN viFile' = NotePath /\ ViTold' /\ ViStamps' BY <1>2, ViWrite
<1>4. ViDomains' BY <1>1, <1>2, <1>3 DEF ViDomains
<1>5. None \notin Indexer BY VaultAssumption
<1>6. ViStep(None) BY <1>2, <1>5 DEF ViStep, ViSame, ViUndisturbed
<1>7. ViFreshly' BY <1>2 DEF ViFreshly
<1>8. QED BY <1>3, <1>4, <1>5, <1>6, <1>7, ViTurn

LEMMA ViRemove ==
    ASSUME ViInv, NEW p \in NotePath, Vi!RemoveNote(p)
    PROVE  ViInv'
<1>1. ViDomains BY DEF ViInv, ViTypes, ViDomains
<1>2. /\ viFile' = [viFile EXCEPT ![p] = None] /\ viFresh' = "no"
      /\ viQuiet' = [s \in Indexer |-> s = None /\ viQuiet[s]]
      /\ UNCHANGED <<viRow, viPc, viCmd, viListed, viKnown, viTodo, viHeld, viTx, viRaced>>
    BY DEF Vi!RemoveNote, Vi!Disturb, Vi!control
<1>3. DOMAIN viFile' = NotePath /\ \A q \in NotePath : viFile'[q] = None \/ viFile'[q] = viFile[q]
    BY <1>1, <1>2 DEF ViDomains
<1>4. ViTold'
    <2>1. \A s \in Indexer : Vi!Target(s)' = Vi!Target(s) BY <1>2 DEF Vi!Target
    <2>2. \A s \in Indexer : viPc[s] = "upsert" => Vi!Target(s) \in NotePath BY ViTargets
    <2>3. QED BY <1>2, <1>3, <2>1, <2>2
          DEF ViInv, ViTold, Vi!SkippedIsSame, Vi!Files, Vi!Rows
<1>5. ViStamps' BY <1>2, <1>3 DEF ViInv, ViStamps
<1>6. ViDomains' BY <1>1, <1>2, <1>3 DEF ViDomains
<1>7. None \notin Indexer BY VaultAssumption
<1>8. ViStep(None) BY <1>2, <1>7 DEF ViStep, ViSame, ViUndisturbed
<1>9. ViFreshly' BY <1>2 DEF ViFreshly
<1>10. QED BY <1>4, <1>5, <1>6, <1>7, <1>8, <1>9, ViTurn

LEMMA ViNext ==
    ASSUME ViInv, Vi!Next
    PROVE  ViInv'
BY ViCommand, ViSelect, ViVisit, ViStat, ViUpsert, ViPrune, ViCommit, ViAbort, ViSave, ViRecord,
   ViStoreVectors, ViEdit, ViRemove DEF Vi!Next

\* A row that is skipped is as it was indexed, whatever transactions overlap; a refresh
\* that nothing disturbed has every note at its stamp, and a full one every link.
LEMMA ViFollows ==
    ASSUME ViInv
    PROVE  Vi!SkippedIsSame /\ Vi!RefreshCatchesUp
<1>1. DOMAIN viFile = NotePath /\ DOMAIN viRow = NotePath BY DEF ViInv, ViTypes
<1>2. Vi!SkippedIsSame BY DEF ViInv, ViTold, Vi!SkippedIsSame
<1>3. ASSUME viFresh # "no"
      PROVE  Vi!Rows = Vi!Files /\ \A p \in Vi!Files : viRow[p].stamp = viFile[p].stamp
    BY <1>3 DEF ViInv, ViFreshly, Vi!Rows, Vi!Files
<1>4. ASSUME viFresh = "full", ~viRaced, NEW p \in NotePath
      PROVE  Vi!Linked(p) = IF p \in Vi!Files THEN Vi!LinksTo(p) ELSE {}
    <2>1. Vi!Rows = Vi!Files /\ \A q \in Vi!Files : viRow[q].stamp = viFile[q].stamp
        BY <1>3, <1>4
    <2>2. \A q \in Vi!Files : viRow[q].text = viFile[q].text
        BY <1>2, <1>4, <2>1 DEF Vi!SkippedIsSame
    <2>3. \A q \in Vi!Rows : viRow[q].resolved = LinksOf[viRow[q].text] \cap Vi!Files
        BY <1>4 DEF ViInv, ViFreshly, Vi!Rows
    <2>4. QED BY <2>1, <2>2, <2>3 DEF Vi!Linked, Vi!LinksTo
<1>5. QED BY <1>2, <1>3, <1>4 DEF Vi!RefreshCatchesUp

\* The index of a vault: every stamp tells the text it was noted with, and the walk of a
\* refresh accounts for every note, as long as nothing disturbs it.
THEOREM IndexInvariant == ViewsSpec => [](tool = "vault" => ViInv)
<1> DEFINE I == tool = "vault" => ViInv
<1>1. ViewsInit => I BY ViInit DEF ViewsInit
<1>2. I /\ [ViewsNext]_viewsVars => I'
    <2>1. SUFFICES ASSUME I, [ViewsNext]_viewsVars, tool' = "vault" PROVE ViInv'
        OBVIOUS
    <2>2. tool = "vault" /\ (Vi!Next \/ UNCHANGED viState) BY <2>1, ViewsDo
    <2>3. QED BY <2>1, <2>2, ViNext, ViStays
<1>3. QED BY <1>1, <1>2, PTL DEF ViewsSpec

\* refresh and parse_note: a note that a refresh skips is as it was indexed, and a refresh
\* that nothing disturbs catches up with the vault.
THEOREM IndexAlwaysFollows == ViewsSpec => []IndexFollows
<1>1. (tool = "vault" => ViInv) => IndexFollows BY ViFollows DEF IndexFollows
<1>2. QED BY <1>1, IndexInvariant, PTL

-----------------------------------------------------------------------------
(* agent-screen.                                                           *)

LEMMA ScListed ==
    ASSUME scListed \in Arrangement
    PROVE  /\ Len(scListed) \in Nat /\ DOMAIN scListed = 1..Len(scListed)
           /\ \A i \in 1..Len(scListed) : scListed[i].id \in Display /\ scListed[i].x \in Int
           /\ \A i, j \in DOMAIN scListed : scListed[i].id = scListed[j].id => i = j
<1> DEFINE T == [id : Display, x : Int]
<1>1. scListed \in Seq(T) BY ScreenAssumption
<1>2. \A i \in 1..Len(scListed) : scListed[i] \in T
    <2> HIDE DEF T
    <2>1. QED BY <1>1
<1>3. \A i, j \in DOMAIN scListed : scListed[i].id = scListed[j].id => i = j BY ScreenAssumption
<1>4. QED BY <1>1, <1>2, <1>3

\* A display before another one in the sort has fewer displays before it.
LEMMA ScFewer ==
    ASSUME scListed \in Arrangement, NEW i \in DOMAIN scListed, NEW k \in Sc!Before(i)
    PROVE  /\ k \in DOMAIN scListed /\ IsFiniteSet(Sc!Before(i))
           /\ Cardinality(Sc!Before(k)) < Cardinality(Sc!Before(i))
<1> DEFINE N == Len(scListed)
<1>1. /\ N \in Nat /\ DOMAIN scListed = 1..N /\ \A j \in 1..N : scListed[j].x \in Int
    BY ScListed
<1>2. k \in 1..N BY <1>1 DEF Sc!Before
<1>3. IsFiniteSet(1..N) BY <1>1, FS_Interval
<1>4. Sc!Before(i) \in SUBSET (1..N) /\ Sc!Before(k) \in SUBSET (1..N) BY <1>1 DEF Sc!Before
<1>5. IsFiniteSet(Sc!Before(i)) /\ IsFiniteSet(Sc!Before(k)) BY <1>3, <1>4, FS_Subset
<1>6. k \notin Sc!Before(k) BY <1>1, <1>2 DEF Sc!Before
<1>7. Sc!Before(k) \cup {k} \in SUBSET Sc!Before(i)
    BY <1>1, <1>2 DEF Sc!Before
<1>8. Cardinality(Sc!Before(k) \cup {k}) = Cardinality(Sc!Before(k)) + 1
    BY <1>5, <1>6, FS_AddElement
<1>9. Cardinality(Sc!Before(k) \cup {k}) <= Cardinality(Sc!Before(i))
    BY <1>5, <1>7, FS_Subset
<1>10. Cardinality(Sc!Before(i)) \in Nat /\ Cardinality(Sc!Before(k)) \in Nat
    BY <1>5, FS_CardinalityType
<1>11. QED BY <1>1, <1>2, <1>5, <1>8, <1>9, <1>10

\* A display of the list L, with the index it has in the system's order.
ScEntries == [id : Display, x : Int, index : Nat]
ScEntry(d, L) == d.index \in DOMAIN L /\ d.id = L[d.index].id /\ d.x = L[d.index].x

LEMMA ScCardinality == \A S : Sc!Cardinality(S) = Cardinality(S)
BY DEF Sc!Cardinality, Cardinality

\* The sort by place makes no display up: every place has a display of the list.
LEMMA ScSorted ==
    ASSUME scListed \in Arrangement
    PROVE  /\ Sc!Displays \in Seq(ScEntries)
           /\ \A n \in DOMAIN Sc!Displays : ScEntry(Sc!Displays[n], scListed)
<1> DEFINE N == Len(scListed)
           Rank == [i \in 1..N |-> Cardinality(Sc!Before(i))]
<1>1. /\ N \in Nat /\ DOMAIN scListed = 1..N /\ \A j \in 1..N : scListed[j].x \in Int
    BY ScListed
<1>2. IsFiniteSet(1..N) /\ Cardinality(1..N) = N BY <1>1, FS_Interval
<1>3. IsFiniteSet(0..(N - 1)) /\ Cardinality(0..(N - 1)) = N BY <1>1, FS_Interval
<1>4. \A i \in 1..N : Rank[i] \in 0..(N - 1)
    <2>1. SUFFICES ASSUME NEW i \in 1..N PROVE Cardinality(Sc!Before(i)) \in 0..(N - 1)
        OBVIOUS
    <2>2. Sc!Before(i) \in SUBSET ((1..N) \ {i}) BY <1>1 DEF Sc!Before
    <2>3. IsFiniteSet((1..N) \ {i}) /\ Cardinality((1..N) \ {i}) = N - 1
        BY <1>2, FS_RemoveElement
    <2>4. IsFiniteSet(Sc!Before(i)) /\ Cardinality(Sc!Before(i)) <= N - 1
        BY <2>2, <2>3, FS_Subset
    <2>5. Cardinality(Sc!Before(i)) \in Nat BY <2>4, FS_CardinalityType
    <2>6. QED BY <1>1, <2>4, <2>5
<1>5. \A i, k \in 1..N : Rank[i] = Rank[k] => i = k
    <2>1. SUFFICES ASSUME NEW i \in 1..N, NEW k \in 1..N, i # k PROVE Rank[i] # Rank[k]
        OBVIOUS
    <2>2. k \in Sc!Before(i) \/ i \in Sc!Before(k) BY <1>1, <2>1 DEF Sc!Before
    <2>3. Rank[i] \in Int /\ Rank[k] \in Int BY <1>4
    <2>4. k \in Sc!Before(i) => Rank[k] < Rank[i] BY <1>1, ScFewer
    <2>5. i \in Sc!Before(k) => Rank[i] < Rank[k] BY <1>1, ScFewer
    <2>6. QED BY <2>2, <2>3, <2>4, <2>5
<1>6. Rank \in [1..N -> 0..(N - 1)] /\ IsInjective(Rank)
    BY <1>4, <1>5 DEF IsInjective
<1>7. Rank \in Surjection(1..N, 0..(N - 1))
    <2>1. Rank \in Injection(1..N, 0..(N - 1)) BY <1>6 DEF Injection
    <2>2. QED BY <1>2, <1>3, <2>1, FS_Injection
<1>8. ASSUME NEW n \in 1..N
      PROVE  Sc!Displays[n] \in ScEntries /\ ScEntry(Sc!Displays[n], scListed)
    <2>1. n - 1 \in 0..(N - 1) BY <1>1
    <2>2. \E i \in 1..N : Rank[i] = n - 1 BY <1>7, <2>1 DEF Surjection
    <2>3. \E i \in DOMAIN scListed : Sc!Cardinality(Sc!Before(i)) = n - 1
        BY <1>1, <2>2, ScCardinality
    <2>4. PICK i \in DOMAIN scListed : Sc!Displays[n] = Sc!Indexed[i]
        BY <1>1, <2>3 DEF Sc!Displays
    <2>5. Sc!Displays[n] = [id |-> scListed[i].id, x |-> scListed[i].x, index |-> i]
        BY <2>4 DEF Sc!Indexed
    <2>6. scListed[i].id \in Display /\ scListed[i].x \in Int /\ i \in Nat BY <1>1, ScListed
    <2>7. QED BY <2>5, <2>6 DEF ScEntries, ScEntry
<1>9. DOMAIN Sc!Displays = 1..N /\ Sc!Displays = [n \in 1..N |-> Sc!Displays[n]]
    BY <1>1 DEF Sc!Displays
<1>10. Sc!Displays \in Seq(ScEntries)
    <2> HIDE DEF N
    <2>1. QED BY <1>1, <1>8, <1>9
<1>11. QED BY <1>8, <1>9, <1>10

-----------------------------------------------------------------------------
ScPlaces == {"go", "one", "all", "capture", "read", "look", "elements", "save", "rewrite"}
ScFields == {"at", "cmd", "display", "s", "list", "todo", "caps", "found", "then"}
ScFiles == {"displays", "elements", "frame"}

\* What a command took: the files it names, and the places its displays were given.
ScCaps ==
    [name : {<<"snapshot", n>> : n \in Nat} \cup {<<"display", i, n>> : i \in Nat, n \in Nat},
     offset : Int \cup {None}]

\* The file of a capture shows the display it was taken of: another snapshot of all
\* displays may have replaced it, with the same display at the same place.
ScTrue(c, L, F, display) ==
    /\ c.name[1] = "snapshot" => display # None
    /\ c.name[1] = "display" => c.offset \in {None, L[c.name[2]].x}
    /\ c.offset # None =>
         /\ \E f \in F : f.name = c.name
         /\ \A f \in F : f.name = c.name => f.x = c.offset

ScOk(r, L, F) ==
    /\ DOMAIN r = ScFields /\ r.at \in ScPlaces /\ r.then \in ScPlaces \cup {"end"}
    /\ DOMAIN r.s = ScFiles /\ r.s.frame \in Nat
    /\ \A e \in r.s.elements : Sc!Right(e)
    /\ \A e \in r.found : Sc!Right(e)
    /\ r.list \in Seq(ScEntries) /\ r.todo \in Seq(ScEntries)
    /\ \A k \in DOMAIN r.list : ScEntry(r.list[k], L)
    /\ \A k \in DOMAIN r.todo : ScEntry(r.todo[k], L)
    /\ r.display \in (Nat \ {0}) \cup {None}
    /\ r.at = "one" => r.display # None
    /\ r.then = "one" => r.display # None
    /\ r.caps \in Seq(ScCaps)
    /\ \A k \in DOMAIN r.caps : ScTrue(r.caps[k], L, F, r.display)

\* While no display moves under a command and no snapshots of single displays
\* overlap, what is saved, what was clicked and what the commands hold is right.
ScSaved ==
    /\ DOMAIN scState = ScFiles /\ scState.frame \in Nat
    /\ \A e \in scState.elements : Sc!Right(e)
ScClick == scClicked # None => Sc!Right(scClicked)
ScCalm ==
    /\ ScSaved /\ ScClick
    /\ \A p \in Proc : scProc[p] = Sc!Idle \/ ScOk(scProc[p], scListed, scFrames)

ScInv ==
    /\ scListed \in Arrangement /\ DOMAIN scProc = Proc
    /\ scMoved \in BOOLEAN /\ scMixed \in BOOLEAN
    /\ ~scMoved /\ ~scMixed => ScCalm

LEMMA ScIdle == Sc!Idle.at = "idle" /\ \A r, L, F : ScOk(r, L, F) => r.at # "idle"
BY DEF Sc!Idle, ScOk, ScPlaces

LEMMA ScAt ==
    ASSUME ScCalm, NEW p \in Proc, scProc[p].at # "idle"
    PROVE  ScOk(scProc[p], scListed, scFrames)
BY DEF ScCalm, Sc!Idle

LEMMA ScStays ==
    ASSUME ScInv, UNCHANGED <<scListed, scFrames, scState, scProc, scClicked, scMoved, scMixed>>
    PROVE  ScInv'
<1>1. SUFFICES ASSUME ~scMoved', ~scMixed' PROVE ScCalm'
    BY DEF ScInv
<1>2. ScCalm BY <1>1 DEF ScInv
<1>3. ScSaved' /\ ScClick'
    BY <1>2 DEF ScCalm, ScSaved, ScClick, Sc!Right
<1>4. \A q \in Proc : scProc'[q] = Sc!Idle \/ ScOk(scProc'[q], scListed', scFrames')
    BY <1>2 DEF ScCalm
<1>5. (\A q \in Proc : scProc[q] = Sc!Idle \/ ScOk(scProc[q], scListed, scFrames))'
    BY <1>4 DEF Sc!Idle, ScOk, ScTrue, ScEntry, Sc!Right
<1>6. QED BY <1>3, <1>5 DEF ScCalm

\* A step of one command, which may write a frame or the state.
LEMMA ScStep ==
    ASSUME ScInv, NEW p \in Proc, NEW r, Sc!Becomes(p, r), UNCHANGED <<scListed, scMoved>>,
           scMixed' \in BOOLEAN, scMixed => scMixed',
           ScCalm /\ ~scMixed' =>
               /\ r = Sc!Idle \/ ScOk(r, scListed, scFrames')
               /\ \A q \in Proc \ {p} :
                      scProc[q] = Sc!Idle \/ ScOk(scProc[q], scListed, scFrames')
               /\ ScSaved' /\ ScClick'
    PROVE  ScInv'
<1>1. /\ DOMAIN scProc' = Proc /\ scProc'[p] = r
      /\ \A q \in Proc \ {p} : scProc'[q] = scProc[q]
    BY DEF ScInv, Sc!Becomes
<1>2. SUFFICES ASSUME ~scMoved', ~scMixed' PROVE ScCalm'
    BY <1>1 DEF ScInv
<1>3. ScCalm BY <1>2 DEF ScInv
<1>4. ASSUME NEW q \in Proc
      PROVE  scProc'[q] = Sc!Idle \/ ScOk(scProc'[q], scListed', scFrames')
    <2>1. scListed' = scListed OBVIOUS
    <2>2. CASE q = p BY <1>1, <1>2, <1>3, <2>1, <2>2
    <2>3. CASE q # p
        <3>1. scProc'[q] = scProc[q] BY <1>1, <2>3
        <3>2. scProc[q] = Sc!Idle \/ ScOk(scProc[q], scListed, scFrames')
            BY <1>2, <1>3, <2>3
        <3>3. QED BY <2>1, <3>1, <3>2
    <2>4. QED BY <2>2, <2>3
<1>5. (\A q \in Proc : scProc[q] = Sc!Idle \/ ScOk(scProc[q], scListed, scFrames))'
    BY <1>4 DEF Sc!Idle, ScOk, ScTrue, ScEntry, Sc!Right
<1>6. QED BY <1>2, <1>3, <1>5 DEF ScCalm

\* A step of one command that leaves the files alone.
LEMMA ScGoes ==
    ASSUME ScInv, NEW p \in Proc, NEW r, Sc!Becomes(p, r),
           UNCHANGED <<Sc!World, scFrames, scState, scMixed>>,
           scClicked' = scClicked \/ (ScCalm => Sc!Right(scClicked')),
           ScCalm => r = Sc!Idle \/ ScOk(r, scListed, scFrames)
    PROVE  ScInv'
<1>1. ASSUME ScCalm
      PROVE  /\ ScSaved' /\ ScClick'
             /\ \A q \in Proc : scProc[q] = Sc!Idle \/ ScOk(scProc[q], scListed, scFrames')
    <2>1. scState' = scState /\ scFrames' = scFrames OBVIOUS
    <2>2. ScSaved' BY <1>1, <2>1 DEF ScCalm, ScSaved, Sc!Right, ScFiles
    <2>3. scClicked' # None => Sc!Right(scClicked') BY <1>1 DEF ScCalm, ScClick
    <2>4. ScClick' BY <2>3 DEF ScClick, Sc!Right
    <2>5. QED BY <1>1, <2>1, <2>2, <2>4 DEF ScCalm
<1>2. scMixed' \in BOOLEAN /\ scListed' = scListed /\ scMoved' = scMoved
    BY DEF ScInv, Sc!World
<1>3. QED BY <1>1, <1>2, ScStep DEF Sc!World

LEMMA ScEnds ==
    ASSUME ScInv, NEW p \in Proc, Sc!Finish(p),
           UNCHANGED <<Sc!World, scFrames, scState, scMixed, scClicked>>
    PROVE  ScInv'
BY ScGoes DEF Sc!Finish

LEMMA ScLoads ==
    ASSUME ScInv, NEW p \in Proc, NEW c \in ScAsked[p], Sc!Load(p, c)
    PROVE  ScInv'
<1> DEFINE r == [at |-> "go", cmd |-> c, display |-> c.display, s |-> scState,
                 list |-> <<>>, todo |-> <<>>, caps |-> <<>>, found |-> {}, then |-> "end"]
<1>1. CASE Sc!Becomes(p, r)
    <2>1. SUFFICES ASSUME ScCalm PROVE ScOk(r, scListed, scFrames)
        BY <1>1, ScGoes DEF Sc!Load
    <2>2. c.display \in (Nat \ {0}) \cup {None} BY ScreenAssumption
    <2>3. r.list \in Seq(ScEntries) /\ r.todo \in Seq(ScEntries) /\ r.caps \in Seq(ScCaps)
          /\ DOMAIN <<>> = {}
        OBVIOUS
    <2>4. ScSaved BY <2>1 DEF ScCalm
    <2>5. QED BY <2>2, <2>3, <2>4 DEF ScOk, ScSaved, ScFields, ScPlaces, ScFiles
<1>2. CASE UNCHANGED scProc
    BY <1>2, ScStays DEF Sc!Load, Sc!World
<1>3. QED BY <1>1, <1>2 DEF Sc!Load

\* A command that saves what it has before it goes on.
LEMMA ScSaves ==
    ASSUME ScInv, NEW p \in Proc, NEW r, NEW then \in ScPlaces \cup {"end"}, Sc!Saving(p, r, then),
           UNCHANGED <<Sc!World, scFrames, scState, scMixed>>,
           scClicked' = scClicked \/ (ScCalm => Sc!Right(scClicked')),
           ScCalm => ScOk(r, scListed, scFrames),
           then = "one" => r.display # None
    PROVE  ScInv'
<1> DEFINE n == [r EXCEPT !.at = "save", !.then = then]
<1>1. ScCalm => ScOk(n, scListed, scFrames)
    BY DEF ScOk, ScFields, ScPlaces
<1>2. QED BY <1>1, ScGoes DEF Sc!Saving

\* A frame that is written shows its display where the captures of that name have it.
LEMMA ScFramed ==
    ASSUME NEW r, ScOk(r, scListed, scFrames), NEW name, NEW d, NEW x,
           scFrames' = Sc!Frame(name, d, x),
           \A k \in DOMAIN r.caps :
               r.caps[k].name = name /\ r.caps[k].offset # None => r.caps[k].offset = x
    PROVE  ScOk(r, scListed, scFrames')
<1>1. ASSUME NEW k \in DOMAIN r.caps
      PROVE  ScTrue(r.caps[k], scListed, scFrames', r.display)
    <2> DEFINE c == r.caps[k]
    <2>1. ScTrue(c, scListed, scFrames, r.display) BY DEF ScOk
    <2>2. scFrames' = {f \in scFrames : f.name # name} \cup {[name |-> name, display |-> d, x |-> x]}
        BY DEF Sc!Frame
    <2>3. SUFFICES ASSUME c.offset # None
                   PROVE  /\ \E f \in scFrames' : f.name = c.name
                          /\ \A f \in scFrames' : f.name = c.name => f.x = c.offset
        BY <2>1 DEF ScTrue
    <2>4. /\ \E f \in scFrames : f.name = c.name
          /\ \A f \in scFrames : f.name = c.name => f.x = c.offset
        BY <2>1, <2>3 DEF ScTrue
    <2>5. CASE c.name = name
        <3> DEFINE g == [name |-> name, display |-> d, x |-> x]
        <3>1. c.offset = x BY <2>3, <2>5
        <3>2. g.name = name /\ g.x = x /\ g \in scFrames' BY <2>2
        <3>3. \A f \in scFrames' : f.name = name => f = g BY <2>2
        <3> HIDE DEF g
        <3>4. QED BY <2>5, <3>1, <3>2, <3>3
    <2>6. CASE c.name # name BY <2>2, <2>4, <2>6
    <2>7. QED BY <2>5, <2>6
<1>2. QED BY <1>1 DEF ScOk

\* A display that is listed is where the list has it.
LEMMA ScWhere ==
    ASSUME scListed \in Arrangement, NEW d, ScEntry(d, scListed)
    PROVE  (scListed[CHOOSE i \in Sc!Shown(d.id) : TRUE]).x = d.x
<1>1. d.index \in Sc!Shown(d.id) BY DEF Sc!Shown, ScEntry
<1>2. \A i \in Sc!Shown(d.id) : i = d.index BY ScListed DEF Sc!Shown, ScEntry
<1>3. (CHOOSE i \in Sc!Shown(d.id) : TRUE) = d.index BY <1>1, <1>2
<1>4. QED BY <1>3 DEF ScEntry

LEMMA ScCapturesOne ==
    ASSUME ScInv, NEW p \in Proc, Sc!CaptureOne(p)
    PROVE  ScInv'
<1> DEFINE n == scProc[p].s.frame + 1
           k == scProc[p].display
           d == scProc[p].list[k]
           x == (scListed[CHOOSE i \in Sc!Shown(d.id) : TRUE]).x
           name == <<"snapshot", n>>
           r == [scProc[p] EXCEPT !.s.frame = n,
                    !.at = IF Sc!Op(p) \in Sc!NoText THEN "look" ELSE "read",
                    !.caps = <<[name |-> name, offset |-> d.x]>>]
<1>1. CASE k > Len(scProc[p].list) \/ Sc!Shown(d.id) = {}
    BY <1>1, ScEnds DEF Sc!CaptureOne, Sc!World, Sc!Mem
<1>2. CASE ~(k > Len(scProc[p].list) \/ Sc!Shown(d.id) = {})
    <2>1. /\ scFrames' = Sc!Frame(name, d.id, x)
          /\ scMixed' = (scMixed \/ \E q \in Proc \ {p} : ~Sc!At(q, "idle") /\ Sc!Single(q))
          /\ Sc!Becomes(p, r) /\ Sc!At(p, "one")
          /\ UNCHANGED <<Sc!World, scState, scClicked>>
        BY <1>2 DEF Sc!CaptureOne, Sc!Mem
    <2>2. scMixed' \in BOOLEAN /\ (scMixed => scMixed') BY <2>1
    <2>3. SUFFICES ASSUME ScCalm, ~scMixed'
                   PROVE  /\ ScOk(r, scListed, scFrames')
                          /\ \A q \in Proc \ {p} :
                                 scProc[q] = Sc!Idle \/ ScOk(scProc[q], scListed, scFrames')
        <3>1. ScCalm => ScSaved' /\ ScClick'
            BY <2>1 DEF ScCalm, ScSaved, ScClick, Sc!Right
        <3>2. QED BY <2>1, <2>2, <2>3, <3>1, ScStep DEF Sc!World
    <2>4. ScOk(scProc[p], scListed, scFrames) /\ scProc[p].at = "one"
        BY <2>1, <2>3, ScAt DEF Sc!At
    <2>5. k \in Nat \ {0} BY <2>4 DEF ScOk
    <2>6. scProc[p].list \in Seq(ScEntries) BY <2>4 DEF ScOk
    <2>7. k \in DOMAIN scProc[p].list BY <1>2, <2>5, <2>6
    <2>8. ScEntry(d, scListed) /\ d \in ScEntries BY <2>4, <2>6, <2>7 DEF ScOk
    <2>9. x = d.x /\ d.x \in Int BY <2>8, ScWhere DEF ScInv, ScEntries
    <2>10. ScOk(r, scListed, scFrames')
        <3> DEFINE c == [name |-> name, offset |-> d.x]
        <3>1. n \in Nat /\ c \in ScCaps BY <2>4, <2>9 DEF ScOk, ScCaps
        <3>2. r.caps = <<c>> /\ r.display = k /\ r.s.frame = n
            BY <2>4 DEF ScOk, ScFields, ScFiles
        <3>3. scFrames' = {f \in scFrames : f.name # name} \cup
                              {[name |-> name, display |-> d.id, x |-> d.x]}
            BY <2>1, <2>9 DEF Sc!Frame
        <3>4. k # None BY <2>4 DEF ScOk
        <3>5. c.name[1] = "snapshot" /\ c.name = name /\ c.offset = d.x OBVIOUS
        <3>6. ScTrue(c, scListed, scFrames', k)
            <4> DEFINE g == [name |-> name, display |-> d.id, x |-> d.x]
            <4>1. g.name = name /\ g.x = d.x /\ g \in scFrames' BY <3>3
            <4>2. \A f \in scFrames' : f.name = name => f = g BY <3>3
            <4> HIDE DEF c, name, g
            <4>3. QED BY <3>4, <3>5, <4>1, <4>2 DEF ScTrue
        <3>7. r.caps \in Seq(ScCaps) /\ \A j \in DOMAIN r.caps : r.caps[j] = c
            <4> HIDE DEF c, r
            <4>1. QED BY <3>1, <3>2
        <3>8. \A j \in DOMAIN r.caps : ScTrue(r.caps[j], scListed, scFrames', r.display)
            BY <3>2, <3>6, <3>7
        <3>9. /\ DOMAIN r = ScFields /\ r.at \in {"look", "read"} /\ r.then = scProc[p].then
              /\ DOMAIN r.s = ScFiles /\ r.s.elements = scProc[p].s.elements
              /\ r.found = scProc[p].found /\ r.list = scProc[p].list /\ r.todo = scProc[p].todo
            BY <2>4 DEF ScOk, ScFields, ScFiles
        <3> HIDE DEF r
        <3>10. QED BY <2>4, <3>1, <3>2, <3>7, <3>8, <3>9 DEF ScOk, ScPlaces
    <2>11. ASSUME NEW q \in Proc \ {p}
           PROVE  scProc[q] = Sc!Idle \/ ScOk(scProc[q], scListed, scFrames')
        <3>1. CASE scProc[q] = Sc!Idle BY <3>1
        <3>2. CASE ScOk(scProc[q], scListed, scFrames)
            <4>1. scProc[q].display = None
                BY <2>1, <2>3, <3>2, ScIdle DEF Sc!At, Sc!Single
            <4>2. ASSUME NEW j \in DOMAIN scProc[q].caps
                  PROVE  scProc[q].caps[j].name # name
                <5>1. scProc[q].caps[j].name[1] # "snapshot"
                    BY <3>2, <4>1 DEF ScOk, ScTrue
                <5>2. name[1] = "snapshot" OBVIOUS
                <5>3. QED BY <5>1, <5>2
            <4>3. scFrames' = Sc!Frame(name, d.id, x) BY <2>1
            <4> HIDE DEF name, x, d
            <4>4. QED BY <3>2, <4>2, <4>3, ScFramed
        <3>3. QED BY <2>3, <3>1, <3>2 DEF ScCalm
    <2>12. QED BY <2>10, <2>11
<1>3. QED BY <1>1, <1>2

LEMMA ScCapturesAll ==
    ASSUME ScInv, NEW p \in Proc, Sc!CaptureAll(p)
    PROVE  ScInv'
<1> DEFINE P == scProc[p]
           n == P.s.frame + 1
           d == Head(P.todo)
           x == (scListed[CHOOSE i \in Sc!Shown(d.id) : TRUE]).x
           name == <<"display", d.index, n>>
           known == \E i \in DOMAIN P.list : P.list[i].index = d.index
           offset == IF known THEN Sc!OffsetOf(P.list, d.index) ELSE None
           r == [P EXCEPT !.s.frame = n, !.todo = Tail(@),
                    !.caps = Append(@, [name |-> name, offset |-> offset])]
<1>1. CASE Sc!Shown(d.id) = {}
    BY <1>1, ScEnds DEF Sc!CaptureAll, Sc!World
<1>2. CASE Sc!Shown(d.id) # {}
    <2>1. /\ scFrames' = Sc!Frame(name, d.id, x) /\ Sc!Becomes(p, r)
          /\ Sc!At(p, "capture") /\ P.todo # <<>>
          /\ UNCHANGED <<Sc!World, scState, scClicked, scMixed>>
        BY <1>2 DEF Sc!CaptureAll, Sc!Mem
    <2>2. scMixed' \in BOOLEAN /\ (scMixed => scMixed') BY <2>1 DEF ScInv
    <2>3. SUFFICES ASSUME ScCalm
                   PROVE  /\ ScOk(r, scListed, scFrames')
                          /\ \A q \in Proc \ {p} :
                                 scProc[q] = Sc!Idle \/ ScOk(scProc[q], scListed, scFrames')
        <3>1. ScCalm => ScSaved' /\ ScClick'
            BY <2>1 DEF ScCalm, ScSaved, ScClick, Sc!Right
        <3>2. QED BY <2>1, <2>2, <2>3, <3>1, ScStep DEF Sc!World
    <2>4. ScOk(P, scListed, scFrames) /\ P.at = "capture"
        BY <2>1, <2>3, ScAt DEF Sc!At
    <2>5. P.todo \in Seq(ScEntries) /\ P.list \in Seq(ScEntries) /\ P.caps \in Seq(ScCaps)
        BY <2>4 DEF ScOk
    <2>6. d \in ScEntries /\ d = P.todo[1] /\ 1 \in DOMAIN P.todo BY <2>1, <2>5
    <2>7. ScEntry(d, scListed) BY <2>4, <2>6 DEF ScOk
    <2>8. x = d.x /\ x = scListed[d.index].x /\ x \in Int
        BY <2>6, <2>7, ScWhere DEF ScInv, ScEntries, ScEntry
    <2>9. offset \in {None, x}
        <3>1. CASE known
            <4> DEFINE i == CHOOSE i \in DOMAIN P.list : P.list[i].index = d.index
            <4>1. i \in DOMAIN P.list /\ P.list[i].index = d.index BY <3>1
            <4>2. ScEntry(P.list[i], scListed) BY <2>4, <4>1 DEF ScOk
            <4>3. offset = P.list[i].x BY <3>1 DEF Sc!OffsetOf
            <4>4. QED BY <2>8, <4>1, <4>2, <4>3 DEF ScEntry
        <3>2. QED BY <3>1
    <2>10. scFrames' = {f \in scFrames : f.name # name} \cup {[name |-> name, display |-> d.id, x |-> x]}
        BY <2>1 DEF Sc!Frame
    <2>11. name[1] = "display" /\ name[2] = d.index OBVIOUS
    <2>12. \A o \in {None, x} : ScTrue([name |-> name, offset |-> o], scListed, scFrames', P.display)
        <3> DEFINE g == [name |-> name, display |-> d.id, x |-> x]
        <3>1. g.name = name /\ g.x = x /\ g \in scFrames' BY <2>10
        <3>2. \A f \in scFrames' : f.name = name => f = g BY <2>10
        <3> HIDE DEF name, g, x
        <3>3. QED BY <2>8, <2>11, <3>1, <3>2 DEF ScTrue
    <2>13. ASSUME NEW q \in Proc, ScOk(scProc[q], scListed, scFrames)
           PROVE  ScOk(scProc[q], scListed, scFrames')
        <3>1. ASSUME NEW k \in DOMAIN scProc[q].caps, scProc[q].caps[k].name = name,
                     scProc[q].caps[k].offset # None
              PROVE  scProc[q].caps[k].offset = x
            <4>1. ScTrue(scProc[q].caps[k], scListed, scFrames, scProc[q].display)
                BY <2>13, <3>1 DEF ScOk
            <4> HIDE DEF name, x
            <4>2. QED BY <2>8, <2>11, <3>1, <4>1 DEF ScTrue
        <3>2. scFrames' = Sc!Frame(name, d.id, x) BY <2>1
        <3> HIDE DEF name, x, d
        <3>3. QED BY <2>13, <3>1, <3>2, ScFramed
    <2>14. ScOk(r, scListed, scFrames')
        <3> DEFINE c == [name |-> name, offset |-> offset]
        <3>1. n \in Nat /\ c \in ScCaps
            <4>1. n \in Nat /\ d.index \in Nat BY <2>4, <2>6 DEF ScOk, ScEntries
            <4>2. name \in {<<"display", i, m>> : i \in Nat, m \in Nat} BY <4>1
            <4>3. offset \in Int \cup {None} BY <2>8, <2>9
            <4> HIDE DEF name, offset, n
            <4>4. QED BY <4>1, <4>2, <4>3 DEF ScCaps
        <3>2. ScOk(P, scListed, scFrames') BY <2>4, <2>13
        <3>3. /\ DOMAIN r = ScFields /\ r.at = P.at /\ r.then = P.then /\ r.display = P.display
              /\ DOMAIN r.s = ScFiles /\ r.s.elements = P.s.elements /\ r.s.frame = n
              /\ r.found = P.found /\ r.list = P.list
              /\ r.todo = Tail(P.todo) /\ r.caps = Append(P.caps, c)
            BY <2>4 DEF ScOk, ScFields, ScFiles
        <3>4. /\ Tail(P.todo) \in Seq(ScEntries)
              /\ \A k \in DOMAIN Tail(P.todo) : k + 1 \in DOMAIN P.todo /\ Tail(P.todo)[k] = P.todo[k + 1]
            BY <2>1, <2>5
        <3>5. \A k \in DOMAIN Tail(P.todo) : ScEntry(Tail(P.todo)[k], scListed)
            BY <2>4, <3>4 DEF ScOk
        <3>6. ScTrue(c, scListed, scFrames', P.display) BY <2>9, <2>12
        <3> HIDE DEF c, r
        <3>7. /\ Append(P.caps, c) \in Seq(ScCaps)
              /\ \A k \in DOMAIN Append(P.caps, c) :
                     \/ k \in DOMAIN P.caps /\ Append(P.caps, c)[k] = P.caps[k]
                     \/ Append(P.caps, c)[k] = c
            BY <2>5, <3>1
        <3>8. \A k \in DOMAIN r.caps : ScTrue(r.caps[k], scListed, scFrames', r.display)
            BY <3>2, <3>3, <3>6, <3>7 DEF ScOk
        <3>9. QED BY <3>1, <3>2, <3>3, <3>4, <3>5, <3>7, <3>8 DEF ScOk
    <2>15. QED BY <2>3, <2>13, <2>14 DEF ScCalm
<1>3. QED BY <1>1, <1>2

LEMMA ScLists ==
    ASSUME ScInv, NEW p \in Proc, Sc!ListDisplays(p) \/ Sc!ListAgain(p)
    PROVE  ScInv'
<1> DEFINE P == scProc[p]
<1>1. /\ Sc!Displays \in Seq(ScEntries)
      /\ \A n \in DOMAIN Sc!Displays : ScEntry(Sc!Displays[n], scListed)
    BY ScSorted DEF ScInv
<1>2. CASE Sc!ListDisplays(p)
    <2> DEFINE r == [P EXCEPT !.list = Sc!Displays, !.s.displays = Sc!Displays]
               then == IF ~Sc!Snaps(p) THEN "end" ELSE IF Sc!Single(p) THEN "one" ELSE "all"
    <2>1. Sc!Saving(p, r, then) /\ P.at = "go" BY <1>2 DEF Sc!ListDisplays, Sc!At
    <2>2. ASSUME ScCalm PROVE ScOk(r, scListed, scFrames) /\ r.display = P.display
        <3>1. ScOk(P, scListed, scFrames) BY <2>1, <2>2, ScAt
        <3>2. /\ DOMAIN r = ScFields /\ r.at = P.at /\ r.then = P.then /\ r.display = P.display
              /\ DOMAIN r.s = ScFiles /\ r.s.elements = P.s.elements /\ r.s.frame = P.s.frame
              /\ r.found = P.found /\ r.list = Sc!Displays /\ r.todo = P.todo /\ r.caps = P.caps
            BY <3>1 DEF ScOk, ScFields, ScFiles
        <3> HIDE DEF r
        <3>3. QED BY <1>1, <3>1, <3>2 DEF ScOk
    <2>3. then \in ScPlaces \cup {"end"} /\ (then = "one" => P.display # None)
        BY DEF ScPlaces, Sc!Single
    <2>4. UNCHANGED <<Sc!World, scFrames, scState, scMixed, scClicked>>
        BY <1>2 DEF Sc!ListDisplays, Sc!World
    <2> DEFINE m == [r EXCEPT !.at = "save", !.then = then]
    <2>5. Sc!Becomes(p, m) BY <2>1 DEF Sc!Saving
    <2>6. ScCalm => ScOk(m, scListed, scFrames)
        <3> HIDE DEF r, then
        <3>1. QED BY <2>2, <2>3 DEF ScOk, ScFields, ScPlaces
    <2>7. QED BY <2>4, <2>5, <2>6, ScGoes
<1>3. CASE Sc!ListAgain(p)
    <2> DEFINE r == [P EXCEPT !.todo = Sc!Displays, !.s.displays = Sc!Displays]
    <2>1. Sc!Saving(p, r, "capture") /\ P.at = "all" BY <1>3 DEF Sc!ListAgain, Sc!At
    <2>2. ASSUME ScCalm PROVE ScOk(r, scListed, scFrames)
        <3>1. ScOk(P, scListed, scFrames) BY <2>1, <2>2, ScAt
        <3>2. /\ DOMAIN r = ScFields /\ r.at = P.at /\ r.then = P.then /\ r.display = P.display
              /\ DOMAIN r.s = ScFiles /\ r.s.elements = P.s.elements /\ r.s.frame = P.s.frame
              /\ r.found = P.found /\ r.list = P.list /\ r.todo = Sc!Displays /\ r.caps = P.caps
            BY <3>1 DEF ScOk, ScFields, ScFiles
        <3> HIDE DEF r
        <3>3. QED BY <1>1, <3>1, <3>2 DEF ScOk
    <2>3. UNCHANGED <<Sc!World, scFrames, scState, scMixed, scClicked>>
        BY <1>3 DEF Sc!ListAgain, Sc!World
    <2> HIDE DEF r
    <2>4. QED BY <2>1, <2>2, <2>3, ScSaves DEF ScPlaces
<1>4. QED BY <1>2, <1>3

\* The text of a frame is where the frame was taken.
LEMMA ScReads ==
    ASSUME ScInv, NEW p \in Proc, Sc!ReadFrame(p)
    PROVE  ScInv'
<1> DEFINE P == scProc[p]
           c == Head(P.caps)
           f == CHOOSE g \in scFrames : g.name = c.name
           r == [P EXCEPT !.caps = Tail(P.caps), !.found = P.found \cup Sc!Ocr(f, c.offset)]
<1>1. /\ P.at = "read" /\ P.caps # <<>>
      /\ UNCHANGED <<Sc!World, scFrames, scState, scMixed, scClicked>>
    BY DEF Sc!ReadFrame, Sc!At, Sc!World
<1>2. CASE c.offset = None BY <1>1, <1>2, ScEnds DEF Sc!ReadFrame
<1>3. CASE c.offset # None
    <2>1. Sc!Becomes(p, r) BY <1>3 DEF Sc!ReadFrame
    <2>2. SUFFICES ASSUME ScCalm PROVE ScOk(r, scListed, scFrames)
        <3> HIDE DEF r
        <3>1. QED BY <1>1, <2>1, <2>2, ScGoes
    <2>3. ScOk(P, scListed, scFrames) BY <1>1, <2>2, ScAt
    <2>4. P.caps \in Seq(ScCaps) BY <2>3 DEF ScOk
    <2>5. c = P.caps[1] /\ 1 \in DOMAIN P.caps BY <1>1, <2>4
    <2>6. /\ \E g \in scFrames : g.name = c.name
          /\ \A g \in scFrames : g.name = c.name => g.x = c.offset
        BY <1>3, <2>3, <2>5 DEF ScOk, ScTrue
    <2>7. f.x = c.offset BY <2>6
    <2>8. \A e \in Sc!Ocr(f, c.offset) : Sc!Right(e)
        <3>1. SUFFICES ASSUME NEW e \in Sc!Ocr(f, c.offset), Scale[e.text] = 1
                       PROVE  e.at = e.seen
            BY DEF Sc!Right
        <3>2. e.text = f.display /\ e.at = Inset * Scale[f.display] + c.offset /\ e.seen = Inset + f.x
            BY DEF Sc!Ocr
        <3>3. Inset * 1 = Inset BY ScreenAssumption
        <3> HIDE DEF f, c
        <3>4. QED BY <2>7, <3>1, <3>2, <3>3
    <2>9. /\ DOMAIN r = ScFields /\ r.at = P.at /\ r.then = P.then /\ r.display = P.display
          /\ r.s = P.s /\ r.found = P.found \cup Sc!Ocr(f, c.offset)
          /\ r.list = P.list /\ r.todo = P.todo /\ r.caps = Tail(P.caps)
        BY <2>3 DEF ScOk, ScFields
    <2>10. /\ Tail(P.caps) \in Seq(ScCaps)
           /\ \A k \in DOMAIN Tail(P.caps) : k + 1 \in DOMAIN P.caps /\ Tail(P.caps)[k] = P.caps[k + 1]
        BY <1>1, <2>4
    <2>11. \A k \in DOMAIN r.caps : ScTrue(r.caps[k], scListed, scFrames, r.display)
        <3> HIDE DEF r
        <3>1. QED BY <2>3, <2>9, <2>10 DEF ScOk
    <2>12. \A e \in r.found : Sc!Right(e)
        <3> HIDE DEF r, f, c
        <3>1. QED BY <2>3, <2>8, <2>9 DEF ScOk
    <2> HIDE DEF r
    <2>13. QED BY <2>3, <2>9, <2>10, <2>11, <2>12 DEF ScOk
<1>4. QED BY <1>2, <1>3

\* The steps that save what the command has, or only answer.
LEMMA ScTurns ==
    ASSUME ScInv, NEW p \in Proc,
           Sc!Show(p) \/ Sc!Captured(p) \/ Sc!Look(p) \/ Sc!Answer(p) \/ Sc!Click(p) \/ Sc!Kill(p)
    PROVE  ScInv'
<1>1. /\ ~Sc!At(p, "idle")
      /\ UNCHANGED <<Sc!World, scFrames, scState, scMixed, scClicked>>
    BY DEF Sc!Show, Sc!Captured, Sc!Look, Sc!Answer, Sc!Click, Sc!Kill, Sc!At, Sc!World, Sc!HasElements
<1>2. ScCalm => ScOk(scProc[p], scListed, scFrames) BY <1>1, ScAt DEF Sc!At
<1>3. CASE Sc!Finish(p) BY <1>1, <1>3, ScEnds
<1>4. CASE \E then \in {"look", "read", "elements", "end"} : Sc!Saving(p, scProc[p], then)
    <2>1. PICK then \in {"look", "read", "elements", "end"} : Sc!Saving(p, scProc[p], then)
        BY <1>4
    <2>2. then \in ScPlaces \cup {"end"} /\ then # "one" BY DEF ScPlaces
    <2>3. QED BY <1>1, <1>2, <2>1, <2>2, ScSaves
<1>5. QED
    BY <1>3, <1>4 DEF Sc!Show, Sc!Captured, Sc!Look, Sc!Answer, Sc!Click, Sc!Kill

LEMMA ScFramesRead ==
    ASSUME ScInv, NEW p \in Proc, Sc!FramesRead(p)
    PROVE  ScInv'
<1> DEFINE P == scProc[p]
           r == [P EXCEPT !.s.elements = P.found]
<1>1. /\ P.at = "read" /\ Sc!Saving(p, r, "look")
      /\ UNCHANGED <<Sc!World, scFrames, scState, scMixed, scClicked>>
    BY DEF Sc!FramesRead, Sc!At, Sc!World
<1>2. ASSUME ScCalm PROVE ScOk(r, scListed, scFrames)
    <2>1. ScOk(P, scListed, scFrames) BY <1>1, <1>2, ScAt
    <2>2. /\ DOMAIN r = ScFields /\ r.at = P.at /\ r.then = P.then /\ r.display = P.display
          /\ DOMAIN r.s = ScFiles /\ r.s.elements = P.found /\ r.s.frame = P.s.frame
          /\ r.found = P.found /\ r.list = P.list /\ r.todo = P.todo /\ r.caps = P.caps
        BY <2>1 DEF ScOk, ScFields, ScFiles
    <2> HIDE DEF r
    <2>3. QED BY <2>1, <2>2 DEF ScOk
<1> HIDE DEF r
<1>3. QED BY <1>1, <1>2, ScSaves DEF ScPlaces

LEMMA ScClicks ==
    ASSUME ScInv, NEW p \in Proc, Sc!ClickText(p)
    PROVE  ScInv'
<1> DEFINE es == {e \in scProc[p].s.elements : e.text = scProc[p].cmd.text}
<1>1. /\ scProc[p].at # "idle" /\ UNCHANGED <<Sc!World, scFrames, scState, scMixed>>
    BY DEF Sc!ClickText, Sc!HasElements, Sc!At, Sc!World
<1>2. ScCalm => ScOk(scProc[p], scListed, scFrames) BY <1>1, ScAt
<1>3. CASE es = {}
    <2>1. Sc!Finish(p) /\ UNCHANGED scClicked BY <1>3 DEF Sc!ClickText, Sc!Mem
    <2>2. QED BY <1>1, <2>1, ScEnds
<1>4. CASE es # {}
    <2>1. PICK e \in es : scClicked' = e /\ Sc!Saving(p, scProc[p], "end")
        BY <1>4 DEF Sc!ClickText, Sc!Mem
    <2>2. ScCalm => Sc!Right(scClicked') BY <1>2, <2>1 DEF ScOk, Sc!Right
    <2>3. QED BY <1>1, <1>2, <2>1, <2>2, ScSaves
<1>5. QED BY <1>3, <1>4

LEMMA ScTruncates ==
    ASSUME ScInv, NEW p \in Proc, Sc!Truncate(p)
    PROVE  ScInv'
<1> DEFINE r == [scProc[p] EXCEPT !.at = "rewrite"]
<1>1. /\ scProc[p].at = "save" /\ scState' = Sc!Blank /\ Sc!Becomes(p, r)
      /\ UNCHANGED <<Sc!World, scFrames, scMixed, scClicked>>
    BY DEF Sc!Truncate, Sc!At, Sc!Goes, Sc!World
<1>2. ASSUME ScCalm PROVE ScOk(r, scListed, scFrames')
    <2>1. ScOk(scProc[p], scListed, scFrames) BY <1>1, <1>2, ScAt
    <2>2. scFrames' = scFrames BY <1>1
    <2>3. QED BY <2>1, <2>2 DEF ScOk, ScFields, ScPlaces
<1>3. ASSUME ScCalm PROVE ScSaved' /\ ScClick'
    BY <1>1, <1>3 DEF ScCalm, ScSaved, ScClick, Sc!Blank, ScFiles, Sc!Right
<1>4. ScCalm => \A q \in Proc \ {p} : scProc[q] = Sc!Idle \/ ScOk(scProc[q], scListed, scFrames')
    BY <1>1 DEF ScCalm
<1> HIDE DEF r
<1>5. QED BY <1>1, <1>2, <1>3, <1>4, ScStep DEF ScInv, Sc!World

LEMMA ScWrites ==
    ASSUME ScInv, NEW p \in Proc, Sc!Save(p)
    PROVE  ScInv'
<1> DEFINE P == scProc[p]
           r == IF P.then = "end" THEN Sc!Idle ELSE [P EXCEPT !.at = P.then]
<1>1. /\ P.at = "rewrite" /\ scState' = P.s /\ Sc!Becomes(p, r)
      /\ UNCHANGED <<Sc!World, scFrames, scMixed, scClicked>>
    BY DEF Sc!Save, Sc!At, Sc!Goes, Sc!Finish, Sc!Mem, Sc!World
<1>2. ScCalm => ScOk(P, scListed, scFrames) BY <1>1, ScAt
<1>3. ASSUME ScCalm PROVE r = Sc!Idle \/ ScOk(r, scListed, scFrames')
    <2>1. CASE P.then = "end" BY <2>1
    <2>2. CASE P.then # "end"
        <3>1. scFrames' = scFrames /\ r = [P EXCEPT !.at = P.then] BY <1>1, <2>2
        <3>2. ScOk([P EXCEPT !.at = P.then], scListed, scFrames)
            BY <1>2, <1>3, <2>2 DEF ScOk, ScFields
        <3> HIDE DEF r
        <3>3. QED BY <3>1, <3>2
    <2>3. QED BY <2>1, <2>2
<1>4. ASSUME ScCalm PROVE ScSaved' /\ ScClick'
    BY <1>1, <1>2, <1>4 DEF ScCalm, ScSaved, ScClick, ScOk, Sc!Right
<1>5. ScCalm => \A q \in Proc \ {p} : scProc[q] = Sc!Idle \/ ScOk(scProc[q], scListed, scFrames')
    BY <1>1 DEF ScCalm
<1> HIDE DEF r
<1>6. QED BY <1>1, <1>3, <1>4, <1>5, ScStep DEF ScInv, Sc!World

\* A display that moves moves under a command, or while nothing runs.
LEMMA ScRearranged ==
    ASSUME ScInv, Sc!Rearrange
    PROVE  ScInv'
<1>1. /\ scListed' \in Arrangement /\ scMoved' \in BOOLEAN
      /\ scMoved' = (scMoved \/ \E p \in Proc : scProc[p].at # "idle")
      /\ UNCHANGED <<scFrames, scState, scProc, scClicked, scMixed>>
    BY DEF Sc!Rearrange, Sc!At
<1>2. SUFFICES ASSUME ~scMoved', ~scMixed' PROVE ScCalm'
    BY <1>1 DEF ScInv
<1>3. ScCalm /\ \A p \in Proc : scProc[p].at = "idle" BY <1>1, <1>2 DEF ScInv
<1>4. \A p \in Proc : scProc'[p] = Sc!Idle
    BY <1>1, <1>3, ScIdle DEF ScCalm
<1>5. ScSaved' /\ ScClick' BY <1>1, <1>3 DEF ScCalm, ScSaved, ScClick, Sc!Right
<1>6. (\A p \in Proc : scProc[p] = Sc!Idle)' BY <1>4 DEF Sc!Idle
<1>7. QED BY <1>5, <1>6 DEF ScCalm

LEMMA ScNext ==
    ASSUME ScInv, Sc!Next
    PROVE  ScInv'
BY ScRearranged, ScLoads, ScLists, ScCapturesOne, ScCapturesAll, ScReads, ScTurns, ScFramesRead,
   ScClicks, ScTruncates, ScWrites DEF Sc!Next

LEMMA ScInit ==
    ASSUME Sc!Init
    PROVE  ScInv
BY DEF Sc!Init, ScInv, ScCalm, ScSaved, ScClick, Sc!Blank, ScFiles, Sc!Idle

\* The inductive invariant of agent-screen.
THEOREM ScreenInvariant == ViewsSpec => [](tool = "screen" => ScInv)
<1> DEFINE I == tool = "screen" => ScInv
<1>1. ViewsInit => I BY ScInit DEF ViewsInit
<1>2. I /\ [ViewsNext]_viewsVars => I'
    <2>1. SUFFICES ASSUME I, [ViewsNext]_viewsVars, tool' = "screen" PROVE ScInv'
        OBVIOUS
    <2>2. tool = "screen" /\ (Sc!Next \/ UNCHANGED scVars) BY <2>1, ViewsDo
    <2>3. QED BY <2>1, <2>2, ScNext, ScStays DEF scVars
<1>3. QED BY <1>1, <1>2, PTL DEF ViewsSpec

\* agent-screen: the elements that are saved are where their text was seen, and a click
\* on a text goes there, as long as no display moves under a command and no snapshots of
\* single displays overlap; whole snapshots may write over each other's files and state.
THEOREM TextAlwaysWhereItWas == ViewsSpec => []TextIsWhereItWas
<1>1. (tool = "screen" => ScInv) => TextIsWhereItWas
    BY DEF TextIsWhereItWas, Sc!TextIsWhereItWas, ScInv, ScCalm, ScSaved, ScClick
<1>2. QED BY <1>1, ScreenInvariant, PTL
=============================================================================
