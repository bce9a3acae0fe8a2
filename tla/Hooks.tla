-------------------------------- MODULE Hooks --------------------------------
(***************************************************************************)
(* The hooks of a session: what they remember from call to call, the       *)
(* interrupts they read from coord, or the lessons they bring from zpc.    *)
(* An initial state picks one of the three parts, which share nothing; the *)
(* variables of the other parts are None or do not change.                 *)
(***************************************************************************)
EXTENDS SessionHooks, Sequences

CONSTANT Parts      \* the parts to choose from
VARIABLE part

-----------------------------------------------------------------------------
\* What an agent reads from coord.
CONSTANTS Topic, Silent, Reader, NewsLimit, MaxNews, MaxReadKills

VARIABLES log, interest, watermark, read, readKills, printed, consumed,
          wanted, lost, rewound
newsVars == <<log, interest, watermark, read, readKills, printed, consumed, wanted,
              lost, rewound>>

News == INSTANCE CoordInterrupts WITH
    Limit <- NewsLimit, MaxSeq <- MaxNews, MaxKill <- MaxReadKills, kills <- readKills

ASSUME NewsAssumption == NewsLimit \in Nat /\ MaxNews \in Nat /\ MaxReadKills \in Nat

-----------------------------------------------------------------------------
\* The lessons of zpc.
CONSTANTS LessonHook, Session, Lesson, Kind, LessonGiven, Whens, MaxHooks, MaxChanges,
          MaxHookKills

VARIABLES whens, seen, hookProc, receipts, lessons, met, dropped, runs, changes, hookKills
lessonVars == <<whens, seen, hookProc, receipts, lessons, met, dropped, runs, changes,
                hookKills>>

Zpc == INSTANCE ZpcTrigger WITH
    Proc <- LessonHook, Given <- LessonGiven, MaxRuns <- MaxHooks, MaxKills <- MaxHookKills,
    proc <- hookProc, shown <- lessons, kills <- hookKills

ASSUME LessonAssumption ==
    /\ LessonGiven \in [Lesson -> (SUBSET Kind) \cup {None}] /\ Whens \subseteq (SUBSET Kind) \cup {None}
    /\ {None, Torn} \cap [Kind -> SUBSET Lesson] = {}

-----------------------------------------------------------------------------
NewsOff ==
    /\ log = None /\ interest = None /\ watermark = None /\ read = None
    /\ readKills = None /\ printed = None /\ consumed = None /\ wanted = None
    /\ lost = None /\ rewound = None
LessonsOff ==
    /\ whens = None /\ seen = None /\ hookProc = None /\ receipts = None /\ lessons = None
    /\ met = None /\ dropped = None /\ runs = None /\ changes = None /\ hookKills = None

HooksInit ==
    /\ part \in Parts /\ SessionInit
    /\ IF part = "coord" THEN News!Init ELSE NewsOff
    /\ IF part = "zpc" THEN Zpc!Init ELSE LessonsOff

HooksNext ==
    /\ UNCHANGED part
    /\ IF part = "hooks" THEN SessionNext ELSE UNCHANGED sessionVars
    /\ IF part = "coord" THEN News!Next ELSE UNCHANGED newsVars
    /\ IF part = "zpc" THEN Zpc!Next ELSE UNCHANGED lessonVars

hooksVars == <<part, sessionVars, newsVars, lessonVars>>
HooksSpec == HooksInit /\ [][HooksNext]_hooksVars

-----------------------------------------------------------------------------
\* SessionHooks: a nudge is held back only by what was demonstrated or shown, and
\* counted as ignored only if it was.
NudgesAreEarned == NudgesDegrade /\ IgnoredIsEarned
\* SessionHooks: an edit stays in the ledger until it is reported, and is spoken of
\* once.  ZpcTrigger: a lesson makes the hook speak once, and is marked when shown.
ToldOnce == /\ TouchedIsSeen /\ SpokenOnce
            /\ part = "zpc" => Zpc!SpeaksOnce
\* CoordInterrupts: news behind the watermark was shown, or lost for a cause; what
\* a marking read has shown is not news to a later one.
NewsIsShownOnce ==
    [][part = "coord" => News!NewsStaysOld /\ News!SwallowedHasCause']_hooksVars
=============================================================================
