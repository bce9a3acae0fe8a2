--------------------------- MODULE CoordPresence ---------------------------
(***************************************************************************)
(* Who is on the coord board of a repository and which paths they claim      *)
(* (tools/agent-coord).                                                     *)
(*                                                                         *)
(* Every command is a process of its own that acts for the agent whose       *)
(* session started it.  Most commands first register the agent: they renew    *)
(* its record, tombstone the previous occupants of its tmux pane, prune the    *)
(* records that are long gone and take away what those owned.  Then they do    *)
(* their work.  Each of the two parts holds the board lock; between them, and  *)
(* before them, other commands run.  agents.json and claims.json are written   *)
(* one after the other, so a kill may leave one without the other.           *)
(*                                                                         *)
(* Time is kept as ages: how long ago a record was seen, tombstoned, stopped. *)
(* Every age stops growing once it is past the last window.                  *)
(*                                                                         *)
(* focus.json and pulse.json follow the agents file as claims.json does and    *)
(* are left out; needs, publishes, drops, aliases and roles have no effect on  *)
(* presence or claims: the commands about them register and do nothing more.  *)
(***************************************************************************)
EXTENDS Naturals

CONSTANTS
    Agent, Path,
    Proc,           \* the processes that run commands
    NoProc, Never,
    InPane,         \* the agents that run in the same tmux pane
    Remote,         \* the agents whose process cannot be verified
    ActiveWindow, TombstoneWindow, IdleWindow, PruneWindow,
    MaxKill         \* bound: processes killed per behaviour

ASSUME WindowAssumption ==
    /\ {ActiveWindow, TombstoneWindow, IdleWindow, PruneWindow, MaxKill} \subseteq Nat
    /\ ActiveWindow <= TombstoneWindow
    /\ TombstoneWindow <= IdleWindow /\ IdleWindow <= PruneWindow
ASSUME PlaceAssumption == InPane \subseteq Agent /\ Remote \subseteq Agent

Old == PruneWindow + 1
Age == 0..Old

ASSUME NeverAssumption == Never \notin Age /\ NoProc \notin Proc

\* anchored: the record names a process and a pane.  tombstoned, stopped: the
\* age of these marks.
Record == [anchored : BOOLEAN, last_seen : Age,
           tombstoned : Age \union {Never}, stopped : Age \union {Never}]
Claim  == [path : Path, owner : Agent]

VARIABLES
    agents,     \* agents.json: the records of the agents on the board
    claims,     \* claims.json
    lock,       \* who holds .lock
    proc,       \* what each process is doing
    running,    \* the agents whose session is running
    alive,      \* those whose recorded process is alive
    kills,
    contact,    \* history: how long ago each agent registered
    cut,        \* history: agents whose removal was cut off by a kill
    overtaken   \* history: agents removed while a command of theirs was running

board   == <<agents, claims>>
history == <<contact, cut, overtaken>>
vars    == <<board, lock, proc, running, alive, kills, history>>

---------------------------------------------------------------------------
OnBoard == DOMAIN agents

ProcIdle == [pc |-> "idle"]
ProcState == {ProcIdle}
    \union [pc : {"started", "registered", "leaving"}, agent : Agent]
    \union [pc : {"cascading"}, agent : Agent, pruned : SUBSET Agent]

TypeOK ==
    /\ OnBoard \subseteq Agent /\ agents \in [OnBoard -> Record]
    /\ claims \subseteq Claim
    /\ lock \in Proc \union {NoProc}
    /\ proc \in [Proc -> ProcState]
    /\ running \subseteq Agent /\ alive \subseteq Agent
    /\ kills \in 0..MaxKill
    /\ contact \in [Agent -> Age]
    /\ cut \subseteq Agent /\ overtaken \subseteq Agent

Older(age) == IF age \in Age /\ age < Old THEN age + 1 ELSE age

\* process_liveness; no answer for a process on another host or without a pid.
VerifiedGone(a)  == agents[a].anchored /\ a \notin Remote /\ a \notin alive
VerifiedAlive(a) == agents[a].anchored /\ a \notin Remote /\ a \in alive

IsDead(a)    == agents[a].tombstoned # Never
IsStopped(a) == agents[a].stopped # Never

\* classify_presence.  The lease runs from last_seen, which only stop renews
\* without it.
Presence(a) ==
    IF IsDead(a) THEN "dead"
    ELSE IF IsStopped(a) THEN "stopped"
    ELSE IF VerifiedGone(a) THEN "dead"
    ELSE IF agents[a].last_seen <= ActiveWindow THEN "active"
    ELSE IF agents[a].last_seen <= IdleWindow THEN "idle"
    ELSE "stale"

---------------------------------------------------------------------------
(* Commands                                                                 *)

Become(p, state) == proc' = [proc EXCEPT ![p] = state]
At(p, pc) == proc[p].pc = pc
Self(p)   == proc[p].agent

\* A hook or a shell of the session runs a command.
Start(p, a) ==
    /\ At(p, "idle")
    /\ a \in running
    /\ Become(p, [pc |-> "started", agent |-> a])
    /\ UNCHANGED <<board, lock, running, alive, kills, history>>

\* Mutant: the record does not say when the agent was seen.
RegisteredUnseen == [anchored |-> TRUE, last_seen |-> Never, tombstoned |-> Never, stopped |-> Never]

\* register_self drops the marks of an agent that was dead or stopped.
Registered == [anchored |-> TRUE, last_seen |-> 0, tombstoned |-> Never, stopped |-> Never]

\* Mutant: a peer in the pane is tombstoned without looking at its process.
SupersededUnseen(b, a) ==
    /\ a \in InPane /\ b \in InPane /\ b # a
    /\ agents[b].anchored /\ ~IsDead(b)

\* _tombstone_superseded
Superseded(b, a) ==
    /\ a \in InPane /\ b \in InPane /\ b # a
    /\ agents[b].anchored /\ ~IsDead(b)
    /\ ~VerifiedAlive(b)

\* Mutant: whoever is marked or gone is pruned at once.
ExpiredAtOnce(r, gone) == r.tombstoned # Never \/ r.stopped # Never \/ gone

\* _prune, of the record r of a peer whose process is or is not verifiably gone.
Expired(r, gone) ==
    LET reference == IF r.tombstoned # Never THEN r.tombstoned
                     ELSE IF r.stopped # Never THEN r.stopped
                     ELSE r.last_seen
    IN \/ reference > PruneWindow
       \/ /\ r.tombstoned # Never \/ r.stopped # Never \/ gone
          /\ reference > TombstoneWindow

\* The records after agent a has registered, before and after pruning.
Renewed(a) == [b \in OnBoard \union {a} |->
    IF b = a THEN Registered
    ELSE IF Superseded(b, a) THEN [agents[b] EXCEPT !.tombstoned = 0]
    ELSE agents[b]]

Pruned(a) == {b \in OnBoard \ {a} : Expired(Renewed(a)[b], VerifiedGone(b))}

\* Agents of which a process other than p is between its two parts.
Midway(p, gone) ==
    {b \in gone : \E q \in Proc \ {p} : At(q, "registered") /\ Self(q) = b}

\* A command that outlives its session finds some process to name, alive or not.
Anchor(a) ==
    \/ alive' = alive \union {a}
    \/ a \notin running /\ alive' = alive \ {a}

\* Mutant: what the pruned owned is taken away after the lock was released.
RegisterUnlocks(p) ==
    /\ At(p, "started")
    /\ lock = NoProc
    /\ LET a == Self(p) IN
        /\ agents' = [b \in (OnBoard \union {a}) \ Pruned(a) |-> Renewed(a)[b]]
        /\ Anchor(a)
        /\ contact' = [contact EXCEPT ![a] = 0]
        /\ cut' = cut \ {a}
        /\ overtaken' = (overtaken \union Midway(p, Pruned(a))) \ {a}
        /\ Become(p, IF Pruned(a) = {} THEN [pc |-> "registered", agent |-> a]
                     ELSE [pc |-> "cascading", agent |-> a, pruned |-> Pruned(a)])
    /\ UNCHANGED <<claims, lock, running, kills>>

\* register_self, up to writing agents.json
Register(p) ==
    /\ At(p, "started")
    /\ lock = NoProc
    /\ LET a == Self(p) IN
        /\ agents' = [b \in (OnBoard \union {a}) \ Pruned(a) |-> Renewed(a)[b]]
        /\ Anchor(a)
        /\ contact' = [contact EXCEPT ![a] = 0]
        /\ cut' = cut \ {a}
        /\ overtaken' = (overtaken \union Midway(p, Pruned(a))) \ {a}
        /\ IF Pruned(a) = {}
           THEN /\ Become(p, [pc |-> "registered", agent |-> a])
                /\ UNCHANGED lock
           ELSE /\ Become(p, [pc |-> "cascading", agent |-> a, pruned |-> Pruned(a)])
                /\ lock' = p
    /\ UNCHANGED <<claims, running, kills>>

\* _cascade_prune, the end of register_self
Cascade(p) ==
    /\ At(p, "cascading")
    /\ claims' = {c \in claims : c.owner \notin proc[p].pruned}
    /\ lock' = NoProc
    /\ Become(p, [pc |-> "registered", agent |-> Self(p)])
    /\ UNCHANGED <<agents, running, alive, kills, history>>

\* Commands that only register, and those whose second part is about other files.
Finish(p) ==
    /\ At(p, "registered")
    /\ Become(p, ProcIdle)
    /\ UNCHANGED <<board, lock, running, alive, kills, history>>

\* Mutant: an agent looks for a claim of its own only.
TakeOver(p, path) ==
    /\ At(p, "registered")
    /\ lock = NoProc
    /\ claims' = claims \union {[path |-> path, owner |-> Self(p)]}
    /\ Become(p, ProcIdle)
    /\ UNCHANGED <<agents, lock, running, alive, kills, history>>

\* claim, of a path that nobody else claims; one's own claim is renewed.
Take(p, path) ==
    /\ At(p, "registered")
    /\ lock = NoProc
    /\ \A c \in claims : c.path = path => c.owner = Self(p)
    /\ claims' = claims \union {[path |-> path, owner |-> Self(p)]}
    /\ Become(p, ProcIdle)
    /\ UNCHANGED <<agents, lock, running, alive, kills, history>>

\* release, of a path one claims oneself
Release(p, path) ==
    /\ At(p, "registered")
    /\ lock = NoProc
    /\ [path |-> path, owner |-> Self(p)] \in claims
    /\ claims' = claims \ {[path |-> path, owner |-> Self(p)]}
    /\ Become(p, ProcIdle)
    /\ UNCHANGED <<agents, lock, running, alive, kills, history>>

\* stop does not register: it marks the record, or makes one to mark.
Stop(p) ==
    /\ At(p, "started")
    /\ lock = NoProc
    /\ LET a == Self(p)
           old == IF a \in OnBoard THEN agents[a]
                  ELSE [Registered EXCEPT !.anchored = FALSE]
       IN agents' = [b \in OnBoard \union {a} |->
              IF b = a THEN [old EXCEPT !.last_seen = 0, !.stopped = 0] ELSE agents[b]]
    /\ Become(p, ProcIdle)
    /\ UNCHANGED <<claims, lock, running, alive, kills, history>>

\* bye: the record goes first, what it owns afterwards.
Bye(p) ==
    /\ At(p, "registered")
    /\ lock = NoProc
    /\ agents' = [b \in OnBoard \ {Self(p)} |-> agents[b]]
    /\ lock' = p
    /\ Become(p, [pc |-> "leaving", agent |-> Self(p)])
    /\ overtaken' = overtaken \union Midway(p, {Self(p)})
    /\ UNCHANGED <<claims, running, alive, kills, contact, cut>>

\* Mutant: the claims stay.
LeaveOnly(p) ==
    /\ At(p, "leaving")
    /\ lock' = NoProc
    /\ Become(p, ProcIdle)
    /\ UNCHANGED <<board, running, alive, kills, history>>

Leave(p) ==
    /\ At(p, "leaving")
    /\ claims' = {c \in claims : c.owner # Self(p)}
    /\ lock' = NoProc
    /\ Become(p, ProcIdle)
    /\ UNCHANGED <<agents, running, alive, kills, history>>

\* The agents that a process has removed and whose claims it has not.
Removing(p) == IF At(p, "cascading") THEN proc[p].pruned
               ELSE IF At(p, "leaving") THEN {Self(p)}
               ELSE {}

\* Hooks kill a command after two to five seconds.
Kill(p) ==
    /\ ~At(p, "idle")
    /\ kills < MaxKill /\ kills' = kills + 1
    /\ cut' = cut \union Removing(p)
    /\ lock' = IF lock = p THEN NoProc ELSE lock
    /\ Become(p, ProcIdle)
    /\ UNCHANGED <<board, running, alive, contact, overtaken>>

---------------------------------------------------------------------------
(* Sessions and time                                                        *)

\* A session ends; commands it has started go on.
Exit(a) ==
    /\ a \in running
    /\ running' = running \ {a} /\ alive' = alive \ {a}
    /\ UNCHANGED <<board, lock, proc, kills, history>>

\* The same session is resumed by another process.
Resume(a) ==
    /\ a \notin running
    /\ running' = running \union {a}
    /\ UNCHANGED <<board, lock, proc, alive, kills, history>>

Tick ==
    /\ agents' = [a \in OnBoard |-> [agents[a] EXCEPT
           !.last_seen = Older(@), !.tombstoned = Older(@), !.stopped = Older(@)]]
    /\ contact' = [a \in Agent |-> Older(contact[a])]
    /\ UNCHANGED <<claims, lock, proc, running, alive, kills, cut, overtaken>>

---------------------------------------------------------------------------
Init ==
    /\ agents = [a \in {} |-> Registered] /\ claims = {}
    /\ lock = NoProc
    /\ proc = [p \in Proc |-> ProcIdle]
    /\ running = Agent /\ alive = {}
    /\ kills = 0
    /\ contact = [a \in Agent |-> Old]
    /\ cut = {} /\ overtaken = {}

Working(p) ==
    \/ Register(p) \/ Cascade(p) \/ Finish(p)
    \/ \E path \in Path : Take(p, path) \/ Release(p, path)
    \/ Stop(p) \/ Bye(p) \/ Leave(p)

Next ==
    \/ \E p \in Proc : (\E a \in Agent : Start(p, a)) \/ Working(p) \/ Kill(p)
    \/ \E a \in Agent : Exit(a) \/ Resume(a)
    \/ Tick

Spec == Init /\ [][Next]_vars

---------------------------------------------------------------------------
(* Properties                                                               *)

\* However claims, releases, prunes and departures interleave, no path is
\* claimed by two agents (claim, under the lock).
OneHolder == \A c, d \in claims : c.path = d.path => c = d

\* An agent that has registered within the tombstone window keeps its claims,
\* whoever prunes and tombstones and whoever is killed: other agents' commands
\* take away the claims of those who have been silent for longer only
\* (_prune, _cascade_prune).
KeepsClaims ==
    [][\A c \in claims \ claims' :
        \/ contact[c.owner] > TombstoneWindow
        \/ \E p \in Proc : Leave(p) /\ Self(p) = c.owner
        \/ \E p \in Proc, path \in Path : Release(p, path) /\ Self(p) = c.owner]_vars

\* A claim belongs to an agent on the board, unless its owner is just being
\* removed, was removed by a command that was killed halfway, or was removed
\* while another command of its own was running (bye, _cascade_prune).
ClaimsHaveOwners ==
    \A c \in claims : c.owner \in OnBoard \union cut \union overtaken
                                 \union UNION {Removing(p) : p \in Proc}

\* Nobody whose recorded process is verifiably alive is shown dead, which is
\* what manna takes claims away for (classify_presence, _tombstone_superseded).
LiveIsNotDead == \A a \in OnBoard : VerifiedAlive(a) => Presence(a) # "dead"

---------------------------------------------------------------------------
(* The inductive invariant                                                  *)

\* The lock is held exactly between agents.json and claims.json.
LockIsHeld ==
    \A p \in Proc : lock = p <=> proc[p].pc \in {"cascading", "leaving"}

\* A command that has registered acts for an agent on the board, or for one
\* removed since.
Registrants ==
    \A p \in Proc : proc[p].pc \in {"registered", "cascading"} =>
        Self(p) \in OnBoard \union overtaken

\* Whom a cascade takes claims from has been silent for long.
PrunedWereSilent ==
    \A p \in Proc : At(p, "cascading") =>
        \A b \in proc[p].pruned : contact[b] > TombstoneWindow

\* No mark of a record is older than its agent's last registration.
MarksAreLater ==
    \A a \in OnBoard :
        /\ agents[a].last_seen <= contact[a]
        /\ IsDead(a) => agents[a].tombstoned <= contact[a]
        /\ IsStopped(a) => agents[a].stopped <= contact[a]

\* Whatever commands interleave and whoever is killed, no claim is left behind
\* and none is taken from an agent that is there (register_self, bye, claim).
CoordInv ==
    /\ TypeOK /\ LockIsHeld /\ Registrants /\ PrunedWereSilent /\ MarksAreLater
    /\ OneHolder /\ ClaimsHaveOwners /\ LiveIsNotDead

---------------------------------------------------------------------------
(* What the documents say, and the program does not do                      *)

\* "SessionEnd retires exactly that identity": a session that has ended stays
\* stopped (coord stop).
RetiredStaysRetired ==
    [][\A a \in OnBoard : IsStopped(a) /\ a \notin running
          => a \notin DOMAIN agents' \/ agents'[a].stopped # Never]_vars
===========================================================================
