------------------------------ MODULE NotifyEmit ------------------------------
(***************************************************************************)
(* agent-do notify: the emission of an event to the rules that match it    *)
(* (src/lib/notify.py, called by src/bin/notify), with its cooldowns, its  *)
(* history and its live providers.  An emit reads state.json once, sends   *)
(* for one rule after the other, appends to history.jsonl after every      *)
(* attempt, and writes state.json back once, at the end.  Processes take   *)
(* no lock; any of them may be killed.  The facts are the same each time,  *)
(* so each rule has one fingerprint.                                       *)
(***************************************************************************)
EXTENDS LiveLease, FiniteSets, FiniteSetsExt, Sequences

CONSTANTS
    Rule,       \* the rules, numbers in name order
    Events,     \* the events, each the set of rules it matches
    Recipient,
    MembersOf,  \* [Rule -> its recipients in order, a group expanded]
    Attempts,   \* [Recipient -> its providers in order, None if not configured]
    Cooldown,   \* [Rule -> seconds, 0 for none]
    Messenger,  \* the application of the live provider
    Requests,   \* what the other live tools ask for
    Modifiers,  \* the approvals an emit may be started with, None among them
    SendAll,    \* whether --all was given
    MaxRuns,    \* bound: commands started and processes killed
    MaxKills    \* bound: processes killed

Entry == [rule : Rule, to : Recipient, at : Nat]
Sent == [Rule -> Nat]

ASSUME RuleAssumption ==
    /\ Rule \subseteq Nat /\ IsFiniteSet(Rule) /\ Events \subseteq SUBSET Rule
    /\ MembersOf \in [Rule -> Seq(Recipient)] /\ Cooldown \in [Rule -> Nat]
    /\ None \in Modifiers /\ Modifiers \subseteq Lease \cup {None}
    /\ Messenger \in App /\ Requests \subseteq Request
    /\ \A m \in Recipient : Attempts[m] = None \/ Attempts[m] \in Seq({"pipe", "live"})
    /\ MaxRuns \in Nat /\ MaxKills \in Nat /\ Torn \notin Sent

VARIABLES
    state,      \* state.json: [Rule -> when it was last sent, 0 never], or Torn
    history,    \* history.jsonl: its entries of attempts that succeeded
    pc,         \* where each process is
    snap,       \* the deliveries it read, with those it made
    start,      \* the time it started at
    todo,       \* the matching rules left
    queue,      \* the recipients of the present rule left
    tries,      \* the providers of the present recipient left
    reached,    \* whether the present recipient got it, and all before it did
    dirty,      \* whether snap is to be saved
    modifier,   \* the approval it was started with
    calm,       \* history: no run met another, failed half way or was cut off
    runs, kills

emitVars == <<state, history, pc, snap, start, todo, queue, tries, reached,
              dirty, modifier, calm>>
vars == <<now, leaseVars, emitVars, runs, kills>>

NeverSent == [r \in Rule |-> 0]
Phase == {"idle", "rules", "members", "attempt", "live",
          "open", "fill", "tool"}

TypeOK ==
    /\ LeaseTypeOK
    /\ state = Torn \/ state \in Sent
    /\ history \subseteq Entry
    /\ pc \in [Proc -> Phase]
    /\ snap \in [Proc -> Sent] /\ start \in [Proc -> Nat]
    /\ todo \in [Proc -> SUBSET Rule]
    /\ queue \in [Proc -> Seq(Recipient)]
    /\ tries \in [Proc -> Seq({"pipe", "live"})]
    /\ reached \in [Proc -> [one : BOOLEAN, all : BOOLEAN]]
    /\ dirty \in [Proc -> BOOLEAN]
    /\ modifier \in [Proc -> Modifiers]
    /\ calm \in BOOLEAN
    /\ runs \in 0..MaxRuns /\ kills \in 0..MaxKills

-----------------------------------------------------------------------------
Init ==
    /\ LeaseInit
    /\ state = NeverSent
    /\ history = {}
    /\ pc = [p \in Proc |-> "idle"]
    /\ snap = [p \in Proc |-> NeverSent]
    /\ start = [p \in Proc |-> 0]
    /\ todo = [p \in Proc |-> {}]
    /\ queue = [p \in Proc |-> <<>>]
    /\ tries = [p \in Proc |-> <<>>]
    /\ reached = [p \in Proc |-> [one |-> FALSE, all |-> TRUE]]
    /\ dirty = [p \in Proc |-> FALSE]
    /\ modifier = [p \in Proc |-> None]
    /\ calm = TRUE
    /\ runs = 0 /\ kills = 0

Goto(p, l) == pc' = [pc EXCEPT ![p] = l]
Now(p) == Min(todo[p])
To(p) == Head(queue[p])

\* A run ends: its answer is printed, or an exception was.
Quit(p) ==
    /\ Goto(p, "idle")
    /\ snap' = [snap EXCEPT ![p] = NeverSent]
    /\ start' = [start EXCEPT ![p] = 0]
    /\ todo' = [todo EXCEPT ![p] = {}]
    /\ queue' = [queue EXCEPT ![p] = <<>>]
    /\ tries' = [tries EXCEPT ![p] = <<>>]
    /\ reached' = [reached EXCEPT ![p] = [one |-> FALSE, all |-> TRUE]]
    /\ dirty' = [dirty EXCEPT ![p] = FALSE]
    /\ modifier' = [modifier EXCEPT ![p] = None]

Alone(p) == \A q \in Proc \ {p} : pc[q] = "idle"

\* emit: the deliveries are read.  An unreadable state.json is an error.
StartEmit(p, m, e) ==
    /\ pc[p] = "idle" /\ runs + kills < MaxRuns /\ state # Torn
    /\ runs' = runs + 1
    /\ snap' = [snap EXCEPT ![p] = state]
    /\ start' = [start EXCEPT ![p] = now]
    /\ todo' = [todo EXCEPT ![p] = e]
    /\ modifier' = [modifier EXCEPT ![p] = m]
    /\ calm' = (calm /\ Alone(p))
    /\ Goto(p, "rules")
    /\ UNCHANGED <<now, leaseVars, state, history, queue, tries, reached, dirty,
                   kills>>

\* Mutant: a delivery that is reset is kept as a null.
StartResetNull(p, rs) ==
    /\ pc[p] = "idle" /\ runs + kills < MaxRuns /\ state # Torn
    /\ runs' = runs + 1
    /\ snap' = [snap EXCEPT ![p] =
                 [r \in Rule |-> IF r \in rs THEN None ELSE state[r]]]
    /\ calm' = FALSE
    /\ Goto(p, "open")
    /\ UNCHANGED <<now, leaseVars, state, history, start, todo, queue, tries,
                   reached, dirty, modifier, kills>>

\* reset-state: the deliveries are read here too, and those of a rule dropped.
StartReset(p, rs) ==
    /\ pc[p] = "idle" /\ runs + kills < MaxRuns /\ state # Torn
    /\ runs' = runs + 1
    /\ snap' = [snap EXCEPT ![p] =
                 [r \in Rule |-> IF r \in rs THEN 0 ELSE state[r]]]
    /\ calm' = FALSE
    /\ Goto(p, "open")
    /\ UNCHANGED <<now, leaseVars, state, history, start, todo, queue, tries,
                   reached, dirty, modifier, kills>>

\* Mutant: the cooldown ends a second early.
CoolingDownLess(p, r) == /\ Cooldown[r] > 0 /\ snap[p][r] # 0
                         /\ start[p] - snap[p][r] < Cooldown[r] - 1

\* should_send_rule, on the deliveries read at the start.
CoolingDown(p, r) == /\ Cooldown[r] > 0 /\ snap[p][r] # 0
                     /\ start[p] - snap[p][r] < Cooldown[r]

\* The next rule: it is skipped while it cools down.
NextRule(p) ==
    LET r == Now(p)
    IN  /\ pc[p] = "rules" /\ todo[p] # {}
        /\ IF CoolingDown(p, r)
           THEN /\ todo' = [todo EXCEPT ![p] = @ \ {r}]
                /\ UNCHANGED <<pc, queue, reached>>
           ELSE /\ queue' = [queue EXCEPT ![p] = MembersOf[r]]
                /\ reached' = [reached EXCEPT ![p] = [one |-> FALSE, all |-> TRUE]]
                /\ Goto(p, "members") /\ UNCHANGED todo
        /\ UNCHANGED <<now, leaseVars, state, history, snap, start, tries, dirty,
                       modifier, calm, runs, kills>>

\* send_notification to the next recipient, or nothing to one with no provider;
\* one that is not configured raises, and the emit ends with what it sent unsaved.
NextMember(p) ==
    LET tried == Attempts[To(p)]
    IN  /\ pc[p] = "members" /\ queue[p] # <<>> /\ tried # None
        /\ IF tried = <<>>
           THEN /\ queue' = [queue EXCEPT ![p] = Tail(@)]
                /\ reached' = [reached EXCEPT ![p].all = FALSE]
                /\ UNCHANGED <<pc, tries>>
           ELSE /\ tries' = [tries EXCEPT ![p] = tried]
                /\ reached' = [reached EXCEPT ![p].one = FALSE]
                /\ Goto(p, "attempt") /\ UNCHANGED queue
        /\ UNCHANGED <<now, leaseVars, state, history, snap, start, todo, dirty,
                       modifier, calm, runs, kills>>

Unconfigured(p) ==
    /\ pc[p] = "members" /\ queue[p] # <<>> /\ Attempts[To(p)] = None
    /\ Quit(p)
    /\ calm' = FALSE
    /\ UNCHANGED <<now, leaseVars, state, history, runs, kills>>

\* Every recipient was tried: the delivery counts if all of them got it.
RuleDone(p) ==
    LET r == Now(p)
    IN  /\ pc[p] = "members" /\ queue[p] = <<>>
        /\ IF reached[p].all
           THEN /\ snap' = [snap EXCEPT ![p][r] = start[p]]
                /\ dirty' = [dirty EXCEPT ![p] = TRUE]
                /\ UNCHANGED calm
           ELSE calm' = FALSE /\ UNCHANGED <<snap, dirty>>
        /\ todo' = [todo EXCEPT ![p] = @ \ {r}]
        /\ Goto(p, "rules")
        /\ UNCHANGED <<now, leaseVars, state, history, start, queue, tries, reached,
                       modifier, runs, kills>>

\* Mutant: a rule counts as delivered when one of its recipients got it.
AnsweredByAny(p, good) ==
    LET rest == IF good /\ ~SendAll THEN <<>> ELSE Tail(tries[p])
        one == reached[p].one \/ good
    IN  /\ history' = IF good THEN history \cup {[rule |-> Now(p), to |-> To(p),
                                                  at |-> start[p]]}
                      ELSE history
        /\ tries' = [tries EXCEPT ![p] = rest]
        /\ IF rest = <<>>
           THEN /\ queue' = [queue EXCEPT ![p] = Tail(@)]
                /\ reached' = [reached EXCEPT ![p] =
                                 [one |-> FALSE, all |-> @.all \/ one]]
                /\ Goto(p, "members")
           ELSE /\ reached' = [reached EXCEPT ![p].one = one]
                /\ Goto(p, "attempt") /\ UNCHANGED queue

\* execute_provider answers, fails, or is given up after the timeout, and the
\* entry is appended before anything else is tried.  The first provider that
\* succeeds ends the attempts, unless all were asked for.
Answered(p, good) ==
    LET rest == IF good /\ ~SendAll THEN <<>> ELSE Tail(tries[p])
        one == reached[p].one \/ good
    IN  /\ history' = IF good THEN history \cup {[rule |-> Now(p), to |-> To(p),
                                                  at |-> start[p]]}
                      ELSE history
        /\ tries' = [tries EXCEPT ![p] = rest]
        /\ IF rest = <<>>
           THEN /\ queue' = [queue EXCEPT ![p] = Tail(@)]
                /\ reached' = [reached EXCEPT ![p] =
                                 [one |-> FALSE, all |-> @.all /\ one]]
                /\ Goto(p, "members")
           ELSE /\ reached' = [reached EXCEPT ![p].one = one]
                /\ Goto(p, "attempt") /\ UNCHANGED queue

\* A live provider asks for approval first.
Attempt(p) ==
    /\ pc[p] = "attempt"
    /\ IF Head(tries[p]) = "live"
       THEN /\ \E t \in IF modifier[p] = None THEN {0} ELSE TTL :
                 Ask(p, [scope |-> "desktop", app |-> Messenger,
                         modifier |-> modifier[p], ttl |-> t])
            /\ Goto(p, "live") /\ UNCHANGED <<history, queue, tries, reached>>
       ELSE /\ \E good \in BOOLEAN : Answered(p, good)
            /\ UNCHANGED leaseVars
    /\ UNCHANGED <<now, state, snap, start, todo, dirty, modifier, calm, runs, kills>>

Approving(p) ==
    /\ LeaseStep(p)
    /\ UNCHANGED <<now, emitVars, runs, kills>>

\* Another live tool asks for approval, and has its answer.
StartTool(p, r) ==
    /\ pc[p] = "idle" /\ runs + kills < MaxRuns
    /\ runs' = runs + 1
    /\ Ask(p, r)
    /\ Goto(p, "tool")
    /\ UNCHANGED <<now, state, history, snap, start, todo, queue, tries, reached,
                   dirty, modifier, calm, kills>>

EndTool(p) ==
    /\ pc[p] = "tool" /\ at[p] \in {"approved", "refused"}
    /\ LeaveLeases(p)
    /\ Quit(p)
    /\ UNCHANGED <<now, state, history, calm, runs, kills>>

\* _send_messenger, approved: it drives the application, and may fail.
Drive(p) ==
    /\ pc[p] = "live" /\ at[p] = "approved"
    /\ \E good \in BOOLEAN : Answered(p, good)
    /\ LeaveLeases(p)
    /\ UNCHANGED <<now, state, snap, start, todo, dirty, modifier, calm, runs, kills>>

\* LiveApprovalRequiredError passes through emit_event: nothing is saved.
Refuse(p) ==
    /\ pc[p] = "live" /\ at[p] = "refused"
    /\ LeaveLeases(p)
    /\ Quit(p)
    /\ calm' = FALSE
    /\ UNCHANGED <<now, state, history, runs, kills>>

\* The end of emit_event.
RulesDone(p) ==
    /\ pc[p] = "rules" /\ todo[p] = {}
    /\ IF dirty[p]
       THEN Goto(p, "open") /\ UNCHANGED <<snap, start, todo, queue, tries, reached,
                                           dirty, modifier>>
       ELSE Quit(p)
    /\ UNCHANGED <<now, leaseVars, state, history, calm, runs, kills>>

\* save_state: the file is opened, and emptied, and then filled.
OpenState(p) ==
    /\ pc[p] = "open"
    /\ state' = Torn
    /\ Goto(p, "fill")
    /\ UNCHANGED <<now, leaseVars, history, snap, start, todo, queue, tries, reached,
                   dirty, modifier, calm, runs, kills>>

FillState(p) ==
    /\ pc[p] = "fill"
    /\ state' = snap[p]
    /\ Quit(p)
    /\ UNCHANGED <<now, leaseVars, history, calm, runs, kills>>

Kill(p) ==
    /\ kills < MaxKills /\ runs + kills < MaxRuns /\ pc[p] # "idle"
    /\ kills' = kills + 1
    /\ LeaveLeases(p)
    /\ Quit(p)
    /\ calm' = FALSE
    /\ UNCHANGED <<now, state, history, runs>>

Tick ==
    /\ now < Horizon
    /\ now' = now + 1
    /\ UNCHANGED <<leaseVars, emitVars, runs, kills>>

Next ==
    \/ Tick
    \/ \E p \in Proc :
          \/ \E m \in Modifiers, e \in Events : StartEmit(p, m, e)
          \/ \E rs \in {Rule} \cup {{r} : r \in Rule} : StartReset(p, rs)
          \/ \E r \in Requests : StartTool(p, r)
          \/ EndTool(p) \/ NextRule(p) \/ NextMember(p) \/ Unconfigured(p) \/ RuleDone(p)
          \/ Attempt(p) \/ Approving(p) \/ Drive(p) \/ Refuse(p)
          \/ RulesDone(p)
          \/ OpenState(p) \/ FillState(p) \/ Kill(p)

Spec == Init /\ [][Next]_vars

-----------------------------------------------------------------------------
(* What the cooldown and the history promise.                              *)

Got(r, m, t) == \E e \in history :
    e.rule = r /\ e.to = m /\ e.at = t
Members(r) == {MembersOf[r][i] : i \in DOMAIN MembersOf[r]}

\* emit_event: no alert is swallowed.  A time in state.json, or in the copy a
\* run decides by, is that of an emit whose message every recipient of the rule
\* got, by the history; overlapping runs, resets, kills and lost updates included.
CooldownIsEarned == \A r \in Rule :
    /\ state # Torn /\ state[r] # 0 => \A m \in Members(r) : Got(r, m, state[r])
    /\ \A p \in Proc : snap[p][r] # 0 => \A m \in Members(r) : Got(r, m, snap[p][r])

\* should_send_rule: nobody gets the same alert twice within the cooldown, as
\* long as runs do not overlap and each of them reaches its end.
OncePerCooldown == calm => \A d, e \in history :
    d.rule = e.rule /\ d.to = e.to /\ d.at < e.at
        => e.at - d.at >= Cooldown[e.rule]
=============================================================================
