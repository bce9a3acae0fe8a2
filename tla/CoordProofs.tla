----------------------------- MODULE CoordProofs -----------------------------
(***************************************************************************)
(* Theorems about the agents on the board and the hooks of their sessions, *)
(* which share what they read of one another: CoordPresence, for any       *)
(* agents, paths, processes, windows and number of kills; Hooks, with      *)
(* SessionHooks, CoordInterrupts and ZpcTrigger, for any tools, files,     *)
(* calls, commands, thresholds, readers, topics, lessons and kinds of      *)
(* trigger.                                                                *)
(***************************************************************************)
EXTENDS CoordPresence, Hooks, FiniteSetTheorems, TLAPS

---------------------------------------------------------------------------
(* Ages and records                                                         *)

\* The windows are numbers, in order, and an age is one too.
LEMMA Ages ==
    /\ PruneWindow \in Nat /\ TombstoneWindow \in Nat /\ MaxKill \in Nat
    /\ TombstoneWindow <= PruneWindow
    /\ Old \in Nat /\ Old > TombstoneWindow
    /\ Age \subseteq Nat /\ 0 \in Age /\ Old \in Age
  BY WindowAssumption DEF Age, Old

\* An age grows up to the last one, and growing keeps ages in order.
LEMMA Growing ==
    /\ \A x \in Age : Older(x) \in Age /\ Older(x) >= x
    /\ \A x, y \in Age : x <= y => Older(x) <= Older(y)
    /\ Older(Never) = Never
  BY Ages, NeverAssumption DEF Older, Age, Old

\* A registered agent's record is a record.
LEMMA RegisteredType == Registered \in Record
  BY Ages DEF Registered, Record

\* The records after a registration are records.
LEMMA RenewedType ==
    ASSUME TypeOK, NEW a \in Agent
    PROVE  \A b \in OnBoard \union {a} :
              /\ Renewed(a)[b] \in Record
              /\ b = a => Renewed(a)[b] = Registered
              /\ b # a => \/ Renewed(a)[b] = agents[b]
                          \/ /\ Renewed(a)[b] = [agents[b] EXCEPT !.tombstoned = 0]
                             /\ Superseded(b, a)
<1>1. TAKE b \in OnBoard \union {a}
<1>2. Renewed(a)[b] = IF b = a THEN Registered
                      ELSE IF Superseded(b, a) THEN [agents[b] EXCEPT !.tombstoned = 0]
                      ELSE agents[b]
  BY DEF Renewed
<1>3. b # a => agents[b] \in Record
  BY <1>1 DEF TypeOK
<1>4. ASSUME agents[b] \in Record PROVE [agents[b] EXCEPT !.tombstoned = 0] \in Record
  BY <1>4, Ages DEF Record
<1>5. QED
  BY <1>2, <1>3, <1>4, RegisteredType

\* A process that moves on keeps the type of what the others do.
LEMMA ProcType ==
    ASSUME TypeOK, NEW p \in Proc, NEW state \in ProcState, Become(p, state)
    PROVE  proc' \in [Proc -> ProcState]
  BY DEF TypeOK, Become

\* The agent of a process at work is an agent.
LEMMA SelfType ==
    ASSUME TypeOK, NEW p \in Proc, ~At(p, "idle")
    PROVE  /\ Self(p) \in Agent
           /\ At(p, "cascading") => proc[p].pruned \subseteq Agent
  BY DEF TypeOK, ProcState, ProcIdle, At, Self

---------------------------------------------------------------------------
(* Type correctness                                                         *)

\* Registration keeps the types.
LEMMA RegisterType ==
    ASSUME TypeOK, NEW p \in Proc, Register(p)
    PROVE  TypeOK'
<1> DEFINE a == Self(p)
<1>1. a \in Agent
  BY SelfType DEF Register, At
<1>2. /\ agents' = [b \in (OnBoard \union {a}) \ Pruned(a) |-> Renewed(a)[b]]
      /\ contact' = [contact EXCEPT ![a] = 0]
      /\ cut' = cut \ {a}
      /\ overtaken' = (overtaken \union Midway(p, Pruned(a))) \ {a}
      /\ Anchor(a)
      /\ UNCHANGED <<claims, running, kills>>
  BY DEF Register
<1>3. Pruned(a) \subseteq Agent
  BY DEF Pruned, TypeOK
<1>4. OnBoard' \subseteq Agent /\ agents' \in [OnBoard' -> Record]
  BY <1>1, <1>2, RenewedType DEF TypeOK, OnBoard
<1>5. proc' \in [Proc -> ProcState] /\ lock' \in Proc \union {NoProc}
  <2>1. CASE Pruned(a) = {}
    <3>1. Become(p, [pc |-> "registered", agent |-> a]) /\ lock' = lock
      BY <2>1 DEF Register
    <3>2. [pc |-> "registered", agent |-> a] \in ProcState
      BY <1>1 DEF ProcState
    <3>3. QED
      BY <3>1, <3>2, ProcType DEF TypeOK
  <2>2. CASE Pruned(a) # {}
    <3>1. Become(p, [pc |-> "cascading", agent |-> a, pruned |-> Pruned(a)]) /\ lock' = p
      BY <2>2 DEF Register
    <3>2. [pc |-> "cascading", agent |-> a, pruned |-> Pruned(a)] \in ProcState
      BY <1>1, <1>3 DEF ProcState
    <3>3. QED
      BY <3>1, <3>2, ProcType
  <2>3. QED
    BY <2>1, <2>2
<1>6. alive' \subseteq Agent
  BY <1>1, <1>2 DEF Anchor, TypeOK
<1>7. contact' \in [Agent -> Age]
  BY <1>1, <1>2, Ages DEF TypeOK
<1>8. cut' \subseteq Agent /\ overtaken' \subseteq Agent
  BY <1>2, <1>3 DEF TypeOK, Midway
<1>9. QED
  BY <1>2, <1>4, <1>5, <1>6, <1>7, <1>8 DEF TypeOK

\* The second parts keep the types.
LEMMA WorkingType ==
    ASSUME TypeOK, NEW p \in Proc, Working(p)
    PROVE  TypeOK'
<1>1. CASE Register(p)
  BY <1>1, RegisterType
<1>2. ProcIdle \in ProcState
  BY DEF ProcState
<1>3. CASE Cascade(p)
  <2>1. Self(p) \in Agent
    BY <1>3, SelfType DEF Cascade, At
  <2>2. [pc |-> "registered", agent |-> Self(p)] \in ProcState
    BY <2>1 DEF ProcState
  <2>3. proc' \in [Proc -> ProcState]
    BY <1>3, <2>2, ProcType DEF Cascade
  <2>4. QED
    BY <1>3, <2>3 DEF Cascade, TypeOK, history, OnBoard
<1>4. CASE Finish(p)
  <2>1. proc' \in [Proc -> ProcState]
    BY <1>2, <1>4, ProcType DEF Finish
  <2>2. QED
    BY <1>4, <2>1 DEF Finish, TypeOK, board, history, OnBoard
<1>5. ASSUME NEW path \in Path, Take(p, path) \/ Release(p, path) PROVE TypeOK'
  <2>1. proc' \in [Proc -> ProcState]
    BY <1>2, <1>5, ProcType DEF Take, Release
  <2>2. Self(p) \in Agent
    BY <1>5, SelfType DEF Take, Release, At
  <2>3. claims' \subseteq Claim
    BY <1>5, <2>2 DEF Take, Release, TypeOK, Claim
  <2>4. /\ UNCHANGED <<agents, lock, running, alive, kills>>
        /\ UNCHANGED <<contact, cut, overtaken>>
    BY <1>5 DEF Take, Release, history
  <2>5. QED
    BY <2>1, <2>3, <2>4 DEF TypeOK, OnBoard
<1>6. CASE Stop(p)
  <2> DEFINE a == Self(p)
             was == IF a \in OnBoard THEN agents[a] ELSE [Registered EXCEPT !.anchored = FALSE]
             new == [was EXCEPT !.last_seen = 0, !.stopped = 0]
  <2>1. a \in Agent
    BY <1>6, SelfType DEF Stop, At
  <2>2. was \in Record
    BY Ages DEF Registered, Record, TypeOK
  <2>3. new \in Record
    <3> HIDE DEF was
    <3> QED BY <2>2, Ages DEF Record
  <2>4. agents' = [b \in OnBoard \union {a} |-> IF b = a THEN new ELSE agents[b]]
    BY <1>6 DEF Stop
  <2>5. OnBoard' \subseteq Agent /\ agents' \in [OnBoard' -> Record]
    <3> HIDE DEF new
    <3> QED BY <2>1, <2>3, <2>4 DEF TypeOK, OnBoard
  <2>6. proc' \in [Proc -> ProcState]
    BY <1>2, <1>6, ProcType DEF Stop
  <2>7. QED
    BY <1>6, <2>5, <2>6 DEF Stop, TypeOK, history
<1>7. CASE Bye(p)
  <2>1. Self(p) \in Agent
    BY <1>7, SelfType DEF Bye, At
  <2>2. [pc |-> "leaving", agent |-> Self(p)] \in ProcState
    BY <2>1 DEF ProcState
  <2>3. proc' \in [Proc -> ProcState]
    BY <1>7, <2>2, ProcType DEF Bye
  <2>4. OnBoard' \subseteq Agent /\ agents' \in [OnBoard' -> Record]
    BY <1>7 DEF Bye, TypeOK, OnBoard
  <2>5. overtaken' \subseteq Agent
    BY <1>7, <2>1 DEF Bye, Midway, TypeOK
  <2>6. QED
    BY <1>7, <2>3, <2>4, <2>5 DEF Bye, TypeOK
<1>8. CASE Leave(p)
  <2>1. proc' \in [Proc -> ProcState]
    BY <1>2, <1>8, ProcType DEF Leave
  <2>2. QED
    BY <1>8, <2>1 DEF Leave, TypeOK, history, OnBoard
<1>9. QED
  BY <1>1, <1>3, <1>4, <1>5, <1>6, <1>7, <1>8 DEF Working

\* Starts, kills, the ends of sessions and the clock keep the types.
LEMMA TypeStep == TypeOK /\ [Next]_vars => TypeOK'
<1> SUFFICES ASSUME TypeOK, [Next]_vars PROVE TypeOK'
  OBVIOUS
<1>1. ASSUME NEW p \in Proc, NEW a \in Agent, Start(p, a) PROVE TypeOK'
  <2>1. [pc |-> "started", agent |-> a] \in ProcState
    BY DEF ProcState
  <2>2. proc' \in [Proc -> ProcState]
    BY <1>1, <2>1, ProcType DEF Start
  <2>3. QED
    BY <1>1, <2>2 DEF Start, TypeOK, board, history, OnBoard
<1>2. ASSUME NEW p \in Proc, Kill(p) PROVE TypeOK'
  <2>1. ProcIdle \in ProcState
    BY DEF ProcState
  <2>2. proc' \in [Proc -> ProcState]
    BY <1>2, <2>1, ProcType DEF Kill
  <2>3. Removing(p) \subseteq Agent
    BY <1>2, SelfType DEF Removing, Kill, At
  <2>4. kills' \in 0..MaxKill
    BY <1>2, Ages DEF Kill, TypeOK
  <2>5. QED
    BY <1>2, <2>2, <2>3, <2>4 DEF Kill, TypeOK, board, OnBoard
<1>3. ASSUME NEW a \in Agent, Exit(a) \/ Resume(a) PROVE TypeOK'
  BY <1>3 DEF Exit, Resume, TypeOK, board, history, OnBoard
<1>4. CASE Tick
  <2>1. \A r \in Record : [r EXCEPT !.last_seen = Older(@), !.tombstoned = Older(@),
                                    !.stopped = Older(@)] \in Record
    BY Growing DEF Record
  <2>2. OnBoard' \subseteq Agent /\ agents' \in [OnBoard' -> Record]
    BY <1>4, <2>1 DEF Tick, TypeOK, OnBoard
  <2>3. contact' \in [Agent -> Age]
    BY <1>4, Growing DEF Tick, TypeOK
  <2>4. QED
    BY <1>4, <2>2, <2>3 DEF Tick, TypeOK
<1>5. CASE UNCHANGED vars
  BY <1>5 DEF vars, board, history, TypeOK, OnBoard
<1>6. QED
  BY <1>1, <1>2, <1>3, <1>4, <1>5, WorkingType DEF Next

\* The empty board is well typed.
LEMMA InitialType == Init => TypeOK
  BY Ages DEF Init, TypeOK, OnBoard, ProcState

\* Every variable of the presence board keeps its type (register_self, stop,
\* bye, claim, release).
THEOREM TypeCorrect == Spec => []TypeOK
  BY InitialType, TypeStep, PTL DEF Spec

---------------------------------------------------------------------------
(* The inductive invariant                                                  *)

\* Only a tombstone makes a live agent look dead.
LEMMA LiveIsUnmarked ==
    LiveIsNotDead <=> \A a \in OnBoard : VerifiedAlive(a) => ~IsDead(a)
  BY DEF LiveIsNotDead, Presence, VerifiedAlive, VerifiedGone

\* While the lock is free nobody is between agents.json and claims.json.
LEMMA NobodyRemoves ==
    ASSUME CoordInv, lock = NoProc, NEW p \in Proc
    PROVE  /\ proc[p].pc \notin {"cascading", "leaving"}
           /\ Removing(p) = {}
  BY NeverAssumption DEF CoordInv, LockIsHeld, Removing, At

\* Nor is anybody but the holder while it is held.
LEMMA OnlyHolderRemoves ==
    ASSUME CoordInv, NEW p \in Proc, proc[p].pc \in {"cascading", "leaving"},
           NEW q \in Proc, q # p
    PROVE  lock = p /\ proc[q].pc \notin {"cascading", "leaving"} /\ Removing(q) = {}
  BY DEF CoordInv, LockIsHeld, Removing, At

\* Processes that do not move do what they did.
LEMMA OthersStay ==
    ASSUME TypeOK, NEW p \in Proc, NEW state, Become(p, state)
    PROVE  /\ proc'[p] = state
           /\ \A q \in Proc : q # p => proc'[q] = proc[q]
  BY DEF TypeOK, Become

\* A record that has expired is one of an agent that has been silent for long.
LEMMA ExpiredIsSilent ==
    ASSUME CoordInv, NEW a \in Agent, NEW b \in Pruned(a)
    PROVE  contact[b] > TombstoneWindow
<1>1. /\ b \in OnBoard /\ b # a /\ b \in Agent
      /\ Expired(Renewed(a)[b], VerifiedGone(b))
  BY DEF Pruned, CoordInv, TypeOK
<1>2. /\ Renewed(a)[b] \in Record
      /\ \/ Renewed(a)[b] = agents[b]
         \/ Renewed(a)[b] = [agents[b] EXCEPT !.tombstoned = 0]
  BY <1>1, RenewedType DEF CoordInv
<1>3. agents[b] \in Record /\ contact[b] \in Nat
  BY <1>1, Ages DEF CoordInv, TypeOK
<1>4. /\ agents[b].last_seen \in Nat
      /\ agents[b].tombstoned # Never => agents[b].tombstoned \in Nat
      /\ agents[b].stopped # Never => agents[b].stopped \in Nat
  BY <1>3, Ages DEF Record
<1>5. /\ agents[b].last_seen <= contact[b]
      /\ agents[b].tombstoned # Never => agents[b].tombstoned <= contact[b]
      /\ agents[b].stopped # Never => agents[b].stopped <= contact[b]
  BY <1>1 DEF CoordInv, MarksAreLater, IsDead, IsStopped
<1> DEFINE r == Renewed(a)[b]
<1>6. /\ r.last_seen \in Nat /\ r.last_seen <= contact[b]
      /\ r.tombstoned # Never => r.tombstoned \in Nat /\ r.tombstoned <= contact[b]
      /\ r.stopped # Never => r.stopped \in Nat /\ r.stopped <= contact[b]
  <2>1. CASE r = agents[b]
    BY <2>1, <1>5, <1>4
  <2>2. CASE r = [agents[b] EXCEPT !.tombstoned = 0]
    <3>1. /\ r.last_seen = agents[b].last_seen /\ r.stopped = agents[b].stopped
          /\ r.tombstoned = 0
      BY <2>2, <1>3 DEF Record
    <3>2. QED
      BY <3>1, <1>3, <1>5, <1>4
  <2>3. QED
    BY <1>2, <2>1, <2>2
<1>7. Expired(r, VerifiedGone(b))
  BY <1>1
<1> HIDE DEF r
<1>8. QED
  BY <1>3, <1>6, <1>7, Ages DEF Expired

\* Registration, up to writing agents.json.
LEMMA RegisterInv ==
    ASSUME CoordInv, NEW p \in Proc, Register(p)
    PROVE  CoordInv'
<1> DEFINE a == Self(p)
<1>0. TypeOK /\ TypeOK'
  BY RegisterType DEF CoordInv
<1>1. a \in Agent /\ lock = NoProc
  BY <1>0, SelfType DEF Register, At
<1>2. /\ agents' = [b \in (OnBoard \union {a}) \ Pruned(a) |-> Renewed(a)[b]]
      /\ contact' = [contact EXCEPT ![a] = 0]
      /\ cut' = cut \ {a}
      /\ overtaken' = (overtaken \union Midway(p, Pruned(a))) \ {a}
      /\ Anchor(a)
      /\ claims' = claims
  BY DEF Register
<1>3. OnBoard' = (OnBoard \union {a}) \ Pruned(a) /\ a \notin Pruned(a)
  BY <1>2 DEF OnBoard, Pruned
<1>4. \/ /\ Pruned(a) = {} /\ lock' = lock
         /\ Become(p, [pc |-> "registered", agent |-> a])
      \/ /\ Pruned(a) # {} /\ lock' = p
         /\ Become(p, [pc |-> "cascading", agent |-> a, pruned |-> Pruned(a)])
  BY DEF Register
<1>5. /\ \A q \in Proc : q # p => proc'[q] = proc[q]
      /\ \/ Pruned(a) = {} /\ lock' = NoProc
            /\ proc'[p] = [pc |-> "registered", agent |-> a]
         \/ Pruned(a) # {} /\ lock' = p
            /\ proc'[p] = [pc |-> "cascading", agent |-> a, pruned |-> Pruned(a)]
  BY <1>0, <1>1, <1>4, OthersStay
<1>6. \A q \in Proc : proc[q].pc \notin {"cascading", "leaving"} /\ Removing(q) = {}
  BY <1>1, NobodyRemoves
<1>7. LockIsHeld'
  BY <1>5, <1>6, NeverAssumption DEF LockIsHeld
<1>8. Registrants'
  <2> SUFFICES ASSUME NEW q \in Proc, proc'[q].pc \in {"registered", "cascading"}
               PROVE  proc'[q].agent \in OnBoard' \union overtaken'
    BY DEF Registrants, Self
  <2>1. CASE q = p
    BY <2>1, <1>3, <1>5
  <2>2. CASE q # p
    <3>1. proc'[q] = proc[q] /\ At(q, "registered")
      BY <2>2, <1>5, <1>6 DEF At
    <3>2. Self(q) \in OnBoard \union overtaken
      BY <3>1 DEF CoordInv, Registrants, At
    <3>3. Self(q) \in Pruned(a) => Self(q) \in Midway(p, Pruned(a))
      BY <2>2, <3>1 DEF Midway
    <3>4. QED
      BY <3>1, <3>2, <3>3, <1>2, <1>3 DEF Self
  <2>3. QED
    BY <2>1, <2>2
<1>9. PrunedWereSilent'
  <2> SUFFICES ASSUME NEW q \in Proc, proc'[q].pc = "cascading", NEW b \in proc'[q].pruned
               PROVE  contact'[b] > TombstoneWindow
    BY DEF PrunedWereSilent, At
  <2>1. q = p /\ b \in Pruned(a)
    BY <1>5, <1>6
  <2>2. b \in Agent /\ b # a
    BY <2>1, <1>0 DEF Pruned, TypeOK
  <2>3. contact'[b] = contact[b]
    BY <2>2, <1>0, <1>2 DEF TypeOK
  <2>4. QED
    BY <2>1, <2>3, <1>1, ExpiredIsSilent
<1>10. MarksAreLater'
  <2> SUFFICES ASSUME NEW b \in OnBoard'
               PROVE  /\ agents'[b].last_seen <= contact'[b]
                      /\ agents'[b].tombstoned # Never => agents'[b].tombstoned <= contact'[b]
                      /\ agents'[b].stopped # Never => agents'[b].stopped <= contact'[b]
    BY DEF MarksAreLater, IsDead, IsStopped
  <2>1. agents'[b] = Renewed(a)[b] /\ b \in OnBoard \union {a} /\ b \in Agent
    BY <1>0, <1>1, <1>2, <1>3 DEF TypeOK
  <2>2. CASE b = a
    <3>1. agents'[b] = Registered /\ contact'[b] = 0
      BY <2>1, <2>2, <1>0, <1>1, <1>2, RenewedType DEF TypeOK
    <3>2. QED
      BY <3>1 DEF Registered
  <2>3. CASE b # a
    <3>1. contact'[b] = contact[b] /\ contact[b] \in Nat /\ agents[b] \in Record
      BY <2>1, <2>3, <1>0, <1>2, Ages DEF TypeOK
    <3>2. /\ agents[b].last_seen <= contact[b]
          /\ agents[b].tombstoned # Never => agents[b].tombstoned <= contact[b]
          /\ agents[b].stopped # Never => agents[b].stopped <= contact[b]
      BY <2>1, <2>3 DEF CoordInv, MarksAreLater, IsDead, IsStopped
    <3>3. agents'[b] = agents[b] \/ agents'[b] = [agents[b] EXCEPT !.tombstoned = 0]
      BY <2>1, <2>3, <1>0, <1>1, RenewedType
    <3>4. agents'[b] = [agents[b] EXCEPT !.tombstoned = 0] =>
              /\ agents'[b].tombstoned = 0 /\ agents'[b].stopped = agents[b].stopped
              /\ agents'[b].last_seen = agents[b].last_seen
      BY <3>1 DEF Record
    <3>5. QED
      BY <3>1, <3>2, <3>3, <3>4
  <2>4. QED
    BY <2>2, <2>3
<1>11. OneHolder'
  BY <1>2 DEF CoordInv, OneHolder
<1>12. ClaimsHaveOwners'
  <2> SUFFICES ASSUME NEW c \in claims
               PROVE  c.owner \in OnBoard' \union cut' \union overtaken'
                                     \union UNION {Removing(q)' : q \in Proc}
    BY <1>2 DEF ClaimsHaveOwners
  <2>1. c.owner \in OnBoard \union cut \union overtaken
    BY <1>6 DEF CoordInv, ClaimsHaveOwners
  <2>2. c.owner \in Pruned(a) => c.owner \in Removing(p)'
    BY <1>5 DEF Removing, At
  <2>3. QED
    BY <2>1, <2>2, <1>2, <1>3
<1>13. LiveIsNotDead'
  <2> SUFFICES ASSUME NEW b \in OnBoard', agents'[b].anchored, b \notin Remote, b \in alive'
               PROVE  agents'[b].tombstoned = Never
    BY DEF LiveIsNotDead, Presence, VerifiedAlive, VerifiedGone, IsDead
  <2>1. agents'[b] = Renewed(a)[b] /\ b \in OnBoard \union {a}
    BY <1>2, <1>3
  <2>2. CASE b = a
    <3>1. Renewed(a)[b] = Registered
      BY <2>1, <2>2, <1>0, <1>1, RenewedType
    <3>2. QED
      BY <2>1, <3>1 DEF Registered
  <2>3. CASE b # a
    <3>1. b \in alive /\ agents[b] \in Record /\ b \in OnBoard
      BY <2>1, <2>3, <1>0, <1>2 DEF Anchor, TypeOK
    <3>2. \/ agents'[b] = agents[b]
          \/ agents'[b] = [agents[b] EXCEPT !.tombstoned = 0] /\ Superseded(b, a)
      BY <2>1, <2>3, <1>0, <1>1, RenewedType
    <3>3. agents[b].anchored
      BY <3>1, <3>2 DEF Record
    <3>4. VerifiedAlive(b)
      BY <3>1, <3>3 DEF VerifiedAlive
    <3>5. ~Superseded(b, a)
      BY <3>4 DEF Superseded
    <3>6. ~IsDead(b)
      BY <3>1, <3>4, LiveIsUnmarked DEF CoordInv
    <3>7. QED
      BY <3>2, <3>5, <3>6 DEF IsDead
  <2>4. QED
    BY <2>2, <2>3
<1>14. QED
  BY <1>0, <1>7, <1>8, <1>9, <1>10, <1>11, <1>12, <1>13 DEF CoordInv

\* A process that is not between its writes comes to rest, or starts, and leaves
\* the agents alone.
LEMMA MoveInv ==
    ASSUME CoordInv, TypeOK', NEW p \in Proc, NEW state, Become(p, state),
           state.pc \notin {"registered", "cascading", "leaving"},
           proc[p].pc \notin {"cascading", "leaving"},
           UNCHANGED <<agents, lock, alive, contact, cut, overtaken>>,
           OneHolder', \A c \in claims' \ claims : c.owner \in OnBoard \union overtaken
    PROVE  CoordInv'
<1>1. proc'[p] = state /\ \A q \in Proc : q # p => proc'[q] = proc[q]
  BY OthersStay DEF CoordInv
<1>2. OnBoard' = OnBoard
  BY DEF OnBoard
<1>3. LockIsHeld'
  BY <1>1 DEF CoordInv, LockIsHeld
<1>4. Registrants' /\ PrunedWereSilent'
  BY <1>1, <1>2 DEF CoordInv, Registrants, PrunedWereSilent, At, Self
<1>5. MarksAreLater' /\ LiveIsNotDead'
  BY <1>2 DEF CoordInv, MarksAreLater, IsDead, IsStopped, LiveIsNotDead, Presence,
              VerifiedAlive, VerifiedGone
<1>6. \A q \in Proc : Removing(q)' = Removing(q)
  BY <1>1 DEF Removing, At, Self
<1>7. ClaimsHaveOwners'
  BY <1>2, <1>6 DEF CoordInv, ClaimsHaveOwners
<1>8. QED
  BY <1>3, <1>4, <1>5, <1>7 DEF CoordInv

\* claim and release.
LEMMA ClaimingInv ==
    ASSUME CoordInv, TypeOK', NEW p \in Proc, NEW path \in Path,
           Take(p, path) \/ Release(p, path)
    PROVE  CoordInv'
<1>1. /\ Become(p, ProcIdle) /\ At(p, "registered")
      /\ UNCHANGED <<agents, lock, alive, contact, cut, overtaken>>
  BY DEF Take, Release, history
<1>2. Self(p) \in OnBoard \union overtaken
  BY <1>1 DEF CoordInv, Registrants, At
<1>3. OneHolder' /\ \A c \in claims' \ claims : c.owner \in OnBoard \union overtaken
  <2>1. CASE Take(p, path)
    BY <2>1, <1>2 DEF Take, CoordInv, OneHolder, TypeOK, Claim
  <2>2. CASE Release(p, path)
    BY <2>2 DEF Release, CoordInv, OneHolder
  <2>3. QED
    BY <2>1, <2>2
<1>4. QED
  BY <1>1, <1>3, MoveInv DEF ProcIdle, At

\* The cascade, the second half of a departure, and a kill in between.
LEMMA RemovingInv ==
    ASSUME CoordInv, TypeOK', NEW p \in Proc, Cascade(p) \/ Leave(p) \/ Kill(p)
    PROVE  CoordInv'
<1>0. TypeOK
  BY DEF CoordInv
<1> DEFINE rest == IF Cascade(p) THEN [pc |-> "registered", agent |-> Self(p)] ELSE ProcIdle
<1>1. /\ Become(p, rest) /\ rest.pc \notin {"cascading", "leaving"}
      /\ UNCHANGED <<agents, alive, contact, overtaken>>
      /\ claims' \subseteq claims /\ cut \subseteq cut'
  <2>1. CASE Cascade(p)
    BY <2>1 DEF Cascade, history
  <2>2. CASE ~Cascade(p) /\ Leave(p)
    BY <2>2 DEF Leave, history, ProcIdle
  <2>3. CASE ~Cascade(p) /\ ~Leave(p)
    BY <2>3 DEF Kill, board, ProcIdle
  <2>4. QED
    BY <2>1, <2>2, <2>3
<1>2. proc'[p] = rest /\ \A q \in Proc : q # p => proc'[q] = proc[q]
  BY <1>0, <1>1, OthersStay
<1>3. OnBoard' = OnBoard
  BY <1>1 DEF OnBoard
<1>4. LockIsHeld'
  <2>1. \/ proc[p].pc \in {"cascading", "leaving"} /\ lock' = NoProc
        \/ lock' = IF lock = p THEN NoProc ELSE lock
    BY DEF Cascade, Leave, Kill, At
  <2>2. lock' = IF lock = p THEN NoProc ELSE lock
    BY <2>1 DEF CoordInv, LockIsHeld
  <2> HIDE DEF rest
  <2>3. QED
    BY <1>1, <1>2, <2>2, NeverAssumption DEF CoordInv, LockIsHeld
<1>5. Registrants'
  <2> SUFFICES ASSUME NEW q \in Proc, proc'[q].pc \in {"registered", "cascading"}
               PROVE  proc'[q].agent \in OnBoard \union overtaken
    BY <1>1, <1>3 DEF Registrants, Self
  <2>1. CASE q = p
    <3>1. Cascade(p)
      BY <2>1, <1>2 DEF ProcIdle
    <3>2. QED
      BY <2>1, <3>1, <1>2 DEF Cascade, CoordInv, Registrants, At, Self
  <2>2. CASE q # p
    BY <2>2, <1>2 DEF CoordInv, Registrants, Self
  <2>3. QED
    BY <2>1, <2>2
<1>6. PrunedWereSilent'
  <2> HIDE DEF rest
  <2> QED BY <1>1, <1>2 DEF CoordInv, PrunedWereSilent, At
<1>7. MarksAreLater' /\ LiveIsNotDead'
  BY <1>1, <1>3 DEF CoordInv, MarksAreLater, IsDead, IsStopped, LiveIsNotDead, Presence,
                    VerifiedAlive, VerifiedGone
<1>8. OneHolder'
  BY <1>1 DEF CoordInv, OneHolder
<1>9. ClaimsHaveOwners'
  <2> SUFFICES ASSUME NEW c \in claims'
               PROVE  c.owner \in OnBoard \union cut' \union overtaken
                                     \union UNION {Removing(q)' : q \in Proc}
    BY <1>1, <1>3 DEF ClaimsHaveOwners
  <2>1. c.owner \in OnBoard \union cut \union overtaken
                        \union UNION {Removing(q) : q \in Proc}
    BY <1>1 DEF CoordInv, ClaimsHaveOwners
  <2>2. \A q \in Proc : q # p => Removing(q)' = Removing(q)
    BY <1>2 DEF Removing, At, Self
  <2>3. c.owner \in Removing(p) => c.owner \in cut'
    <3>1. CASE Cascade(p) \/ Leave(p)
      BY <3>1 DEF Cascade, Leave, Removing, At
    <3>2. CASE Kill(p)
      BY <3>2 DEF Kill
    <3>3. QED
      BY <3>1, <3>2
  <2>4. QED
    BY <1>1, <2>1, <2>2, <2>3
<1>10. QED
  BY <1>4, <1>5, <1>6, <1>7, <1>8, <1>9 DEF CoordInv

\* stop marks the record under the lock.
LEMMA StopInv ==
    ASSUME CoordInv, TypeOK', NEW p \in Proc, Stop(p)
    PROVE  CoordInv'
<1> DEFINE a == Self(p)
           was == IF a \in OnBoard THEN agents[a] ELSE [Registered EXCEPT !.anchored = FALSE]
           new == [was EXCEPT !.last_seen = 0, !.stopped = 0]
<1>0. TypeOK
  BY DEF CoordInv
<1>1. /\ agents' = [b \in OnBoard \union {a} |-> IF b = a THEN new ELSE agents[b]]
      /\ Become(p, ProcIdle) /\ At(p, "started")
      /\ UNCHANGED <<claims, lock, alive, contact, cut, overtaken>>
  BY DEF Stop, history
<1>2. proc'[p] = ProcIdle /\ \A q \in Proc : q # p => proc'[q] = proc[q]
  BY <1>0, <1>1, OthersStay
<1>3. /\ OnBoard' = OnBoard \union {a} /\ agents'[a] = new
      /\ \A b \in OnBoard : b # a => agents'[b] = agents[b]
  <2> HIDE DEF new
  <2> QED BY <1>1 DEF OnBoard
<1>4. a \in Agent
  BY <1>0, <1>1, SelfType DEF At
<1>5. was \in Record
  BY <1>0, Ages DEF Registered, Record, TypeOK
<1>6. /\ new.last_seen = 0 /\ new.stopped = 0
      /\ new.tombstoned = was.tombstoned /\ new.anchored = was.anchored
  <2> HIDE DEF was
  <2> QED BY <1>5 DEF Record
<1>7. a \notin OnBoard => was.tombstoned = Never /\ was.anchored = FALSE
  BY DEF Registered
<1>8. a \in OnBoard => was = agents[a]
  OBVIOUS
<1> HIDE DEF was, new
<1>9. LockIsHeld'
  BY <1>1, <1>2 DEF CoordInv, LockIsHeld, At, ProcIdle
<1>10. Registrants' /\ PrunedWereSilent'
  BY <1>1, <1>2, <1>3 DEF CoordInv, Registrants, PrunedWereSilent, At, Self, ProcIdle
<1>11. MarksAreLater'
  <2> SUFFICES ASSUME NEW b \in OnBoard'
               PROVE  /\ agents'[b].last_seen <= contact[b]
                      /\ agents'[b].tombstoned # Never => agents'[b].tombstoned <= contact[b]
                      /\ agents'[b].stopped # Never => agents'[b].stopped <= contact[b]
    BY <1>1 DEF MarksAreLater, IsDead, IsStopped
  <2>1. CASE b # a
    BY <2>1, <1>3 DEF CoordInv, MarksAreLater, IsDead, IsStopped
  <2>2. CASE b = a
    <3>1. contact[a] \in Nat
      BY <1>0, <1>4, Ages DEF TypeOK
    <3>2. a \in OnBoard /\ was.tombstoned # Never => was.tombstoned <= contact[a]
      BY <1>8 DEF CoordInv, MarksAreLater, IsDead
    <3>3. QED
      BY <2>2, <3>1, <3>2, <1>3, <1>6, <1>7
  <2>3. QED
    BY <2>1, <2>2
<1>12. LiveIsNotDead'
  <2> SUFFICES ASSUME NEW b \in OnBoard', agents'[b].anchored, b \notin Remote, b \in alive
               PROVE  agents'[b].tombstoned = Never
    BY <1>1 DEF LiveIsNotDead, Presence, VerifiedAlive, VerifiedGone, IsDead
  <2>1. \A c \in OnBoard : agents[c].anchored /\ c \notin Remote /\ c \in alive
                              => agents[c].tombstoned = Never
    BY LiveIsUnmarked DEF CoordInv, VerifiedAlive, IsDead
  <2>2. QED
    BY <2>1, <1>3, <1>6, <1>7, <1>8
<1>13. OneHolder'
  BY <1>1 DEF CoordInv, OneHolder
<1>14. \A q \in Proc : Removing(q)' = Removing(q)
  BY <1>1, <1>2 DEF Removing, At, Self, ProcIdle
<1>15. ClaimsHaveOwners'
  BY <1>1, <1>3, <1>14 DEF CoordInv, ClaimsHaveOwners
<1>16. QED
  BY <1>9, <1>10, <1>11, <1>12, <1>13, <1>15 DEF CoordInv

\* bye, up to writing agents.json.
LEMMA ByeInv ==
    ASSUME CoordInv, TypeOK', NEW p \in Proc, Bye(p)
    PROVE  CoordInv'
<1> DEFINE a == Self(p)
<1>0. TypeOK
  BY DEF CoordInv
<1>1. /\ agents' = [b \in OnBoard \ {a} |-> agents[b]]
      /\ At(p, "registered") /\ lock = NoProc /\ lock' = p
      /\ Become(p, [pc |-> "leaving", agent |-> a])
      /\ overtaken' = overtaken \union Midway(p, {a})
      /\ UNCHANGED <<claims, alive, contact, cut>>
  BY DEF Bye
<1>2. /\ proc'[p] = [pc |-> "leaving", agent |-> a]
      /\ \A q \in Proc : q # p => proc'[q] = proc[q]
  BY <1>0, <1>1, OthersStay
<1>3. OnBoard' = OnBoard \ {a} /\ \A b \in OnBoard' : agents'[b] = agents[b]
  BY <1>1 DEF OnBoard
<1>4. \A q \in Proc : proc[q].pc \notin {"cascading", "leaving"} /\ Removing(q) = {}
  BY <1>1, NobodyRemoves
<1>5. LockIsHeld'
  BY <1>1, <1>2, <1>4 DEF LockIsHeld
<1>6. Registrants'
  <2> SUFFICES ASSUME NEW q \in Proc, proc'[q].pc \in {"registered", "cascading"}
               PROVE  proc'[q].agent \in OnBoard' \union overtaken'
    BY DEF Registrants, Self
  <2>1. q # p /\ proc'[q] = proc[q] /\ At(q, "registered")
    BY <1>2, <1>4 DEF At
  <2>2. Self(q) \in OnBoard \union overtaken
    BY <2>1 DEF CoordInv, Registrants, At
  <2>3. Self(q) = a => a \in Midway(p, {a})
    BY <2>1 DEF Midway
  <2>4. QED
    BY <2>1, <2>2, <2>3, <1>1, <1>3 DEF Self
<1>7. PrunedWereSilent'
  BY <1>2, <1>4 DEF PrunedWereSilent, At
<1>8. MarksAreLater' /\ LiveIsNotDead'
  BY <1>1, <1>3 DEF CoordInv, MarksAreLater, IsDead, IsStopped, LiveIsNotDead, Presence,
                    VerifiedAlive, VerifiedGone
<1>9. OneHolder'
  BY <1>1 DEF CoordInv, OneHolder
<1>10. ClaimsHaveOwners'
  <2>1. \A c \in claims : c.owner \in OnBoard \union cut \union overtaken
    BY <1>4 DEF CoordInv, ClaimsHaveOwners
  <2>2. a \in Removing(p)'
    BY <1>2 DEF Removing, At, Self
  <2>3. QED
    BY <1>1, <1>3, <2>1, <2>2 DEF ClaimsHaveOwners
<1>11. QED
  BY <1>5, <1>6, <1>7, <1>8, <1>9, <1>10 DEF CoordInv

\* Sessions and the clock.
LEMMA EnvironmentInv ==
    ASSUME CoordInv, TypeOK', (\E a \in Agent : Exit(a) \/ Resume(a)) \/ Tick \/ UNCHANGED vars
    PROVE  CoordInv'
<1>0. TypeOK
  BY DEF CoordInv
<1>1. CASE (\E a \in Agent : Exit(a) \/ Resume(a)) \/ UNCHANGED vars
  <2>1. /\ UNCHANGED <<agents, claims, lock, proc, contact, cut, overtaken>>
        /\ alive' \subseteq alive
    BY <1>1 DEF Exit, Resume, board, history, vars
  <2>2. LockIsHeld' /\ Registrants' /\ PrunedWereSilent' /\ OneHolder' /\ ClaimsHaveOwners'
    BY <2>1 DEF CoordInv, LockIsHeld, Registrants, PrunedWereSilent, OneHolder,
                ClaimsHaveOwners, Removing, At, Self, OnBoard
  <2>3. MarksAreLater'
    BY <2>1 DEF CoordInv, MarksAreLater, IsDead, IsStopped, OnBoard
  <2>4. LiveIsNotDead'
    <3> SUFFICES ASSUME NEW b \in OnBoard, agents[b].anchored, b \notin Remote, b \in alive'
                 PROVE  agents[b].tombstoned = Never
      BY <2>1 DEF LiveIsNotDead, Presence, VerifiedAlive, VerifiedGone, IsDead, OnBoard
    <3> QED
      BY <2>1, LiveIsUnmarked DEF CoordInv, VerifiedAlive, IsDead
  <2>5. QED
    BY <2>2, <2>3, <2>4 DEF CoordInv
<1>2. CASE Tick
  <2> DEFINE Aged(r) == [r EXCEPT !.last_seen = Older(@), !.tombstoned = Older(@),
                                  !.stopped = Older(@)]
  <2>1. /\ OnBoard' = OnBoard /\ \A b \in OnBoard : agents'[b] = Aged(agents[b])
        /\ \A b \in Agent : contact'[b] = Older(contact[b])
        /\ UNCHANGED <<claims, lock, proc, alive, cut, overtaken>>
    BY <1>2 DEF Tick, OnBoard
  <2>2. \A r \in Record : /\ Aged(r).last_seen = Older(r.last_seen)
                          /\ Aged(r).tombstoned = Older(r.tombstoned)
                          /\ Aged(r).stopped = Older(r.stopped)
                          /\ Aged(r).anchored = r.anchored
    BY DEF Record
  <2> HIDE DEF Aged
  <2>3. \A b \in OnBoard : agents[b] \in Record /\ b \in Agent /\ contact[b] \in Age
    BY <1>0 DEF TypeOK
  <2>4. \A x \in Age : Older(x) # Never
    BY Growing, NeverAssumption
  <2>5. LockIsHeld' /\ OneHolder'
    BY <2>1 DEF CoordInv, LockIsHeld, OneHolder
  <2>6. Registrants' /\ ClaimsHaveOwners'
    BY <2>1 DEF CoordInv, Registrants, ClaimsHaveOwners, Removing, At, Self
  <2>7. PrunedWereSilent'
    <3> SUFFICES ASSUME NEW q \in Proc, At(q, "cascading"), NEW b \in proc[q].pruned
                 PROVE  contact'[b] > TombstoneWindow
      BY <2>1 DEF PrunedWereSilent, At
    <3>1. b \in Agent
      BY <1>0, SelfType DEF At
    <3>2. contact[b] > TombstoneWindow
      BY DEF CoordInv, PrunedWereSilent
    <3>3. contact'[b] \in Nat /\ contact[b] \in Nat /\ contact'[b] >= contact[b]
      BY <3>1, <2>1, <1>0, Growing, Ages DEF TypeOK
    <3>4. QED
      BY <3>2, <3>3, Ages
  <2>8. MarksAreLater'
    <3> SUFFICES ASSUME NEW b \in OnBoard
                 PROVE  /\ agents'[b].last_seen <= contact'[b]
                        /\ agents'[b].tombstoned # Never => agents'[b].tombstoned <= contact'[b]
                        /\ agents'[b].stopped # Never => agents'[b].stopped <= contact'[b]
      BY <2>1 DEF MarksAreLater, IsDead, IsStopped
    <3>1. /\ agents'[b].last_seen = Older(agents[b].last_seen)
          /\ agents'[b].tombstoned = Older(agents[b].tombstoned)
          /\ agents'[b].stopped = Older(agents[b].stopped)
          /\ contact'[b] = Older(contact[b]) /\ contact[b] \in Age
      BY <2>1, <2>2, <2>3
    <3>2. /\ agents[b].last_seen \in Age
          /\ agents[b].tombstoned \in Age \union {Never}
          /\ agents[b].stopped \in Age \union {Never}
      BY <2>3 DEF Record
    <3>3. /\ agents[b].last_seen <= contact[b]
          /\ agents[b].tombstoned # Never => agents[b].tombstoned <= contact[b]
          /\ agents[b].stopped # Never => agents[b].stopped <= contact[b]
      BY DEF CoordInv, MarksAreLater, IsDead, IsStopped
    <3>4. QED
      BY <3>1, <3>2, <3>3, Growing
  <2>9. LiveIsNotDead'
    <3> SUFFICES ASSUME NEW b \in OnBoard, agents'[b].anchored, b \notin Remote, b \in alive
                 PROVE  agents'[b].tombstoned = Never
      BY <2>1 DEF LiveIsNotDead, Presence, VerifiedAlive, VerifiedGone, IsDead
    <3>1. agents[b].anchored /\ agents'[b].tombstoned = Older(agents[b].tombstoned)
      BY <2>1, <2>2, <2>3
    <3>2. agents[b].tombstoned = Never
      BY <3>1, LiveIsUnmarked DEF CoordInv, VerifiedAlive, IsDead
    <3>3. QED
      BY <3>1, <3>2, Growing
  <2>10. QED
    BY <2>5, <2>6, <2>7, <2>8, <2>9 DEF CoordInv
<1>3. QED
  BY <1>1, <1>2

\* Every step keeps the invariant.
LEMMA CoordStep == CoordInv /\ [Next]_vars => CoordInv'
<1> SUFFICES ASSUME CoordInv, [Next]_vars PROVE CoordInv'
  OBVIOUS
<1>0. TypeOK'
  BY TypeStep DEF CoordInv
<1>1. ASSUME NEW p \in Proc, NEW a \in Agent, Start(p, a) PROVE CoordInv'
  <2> DEFINE state == [pc |-> "started", agent |-> a]
  <2>1. /\ Become(p, state) /\ At(p, "idle")
        /\ UNCHANGED <<agents, claims, lock, alive, contact, cut, overtaken>>
    BY <1>1 DEF Start, board, history
  <2>2. OneHolder' /\ claims' \ claims = {}
    BY <2>1 DEF CoordInv, OneHolder
  <2>3. QED
    BY <1>0, <2>1, <2>2, MoveInv DEF At
<1>2. ASSUME NEW p \in Proc, Working(p) PROVE CoordInv'
  <2>1. CASE Register(p)
    BY <2>1, RegisterInv
  <2>2. CASE Cascade(p) \/ Leave(p)
    BY <2>2, <1>0, RemovingInv
  <2>3. CASE Stop(p)
    BY <2>3, <1>0, StopInv
  <2>4. CASE Bye(p)
    BY <2>4, <1>0, ByeInv
  <2>5. CASE Finish(p)
    <3>1. /\ Become(p, ProcIdle) /\ At(p, "registered")
          /\ UNCHANGED <<agents, claims, lock, alive, contact, cut, overtaken>>
      BY <2>5 DEF Finish, board, history
    <3>2. OneHolder' /\ claims' \ claims = {}
      BY <3>1 DEF CoordInv, OneHolder
    <3>3. QED
      BY <1>0, <3>1, <3>2, MoveInv DEF At, ProcIdle
  <2>6. ASSUME NEW path \in Path, Take(p, path) \/ Release(p, path) PROVE CoordInv'
    BY <2>6, <1>0, ClaimingInv
  <2>7. QED
    BY <1>2, <2>1, <2>2, <2>3, <2>4, <2>5, <2>6 DEF Working
<1>3. ASSUME NEW p \in Proc, Kill(p) PROVE CoordInv'
  BY <1>0, <1>3, RemovingInv
<1>4. CASE (\E a \in Agent : Exit(a) \/ Resume(a)) \/ Tick \/ UNCHANGED vars
  BY <1>0, <1>4, EnvironmentInv
<1>5. QED
  BY <1>1, <1>2, <1>3, <1>4 DEF Next

\* The empty board satisfies it.
LEMMA InitialCoord == Init => CoordInv
<1> SUFFICES ASSUME Init PROVE CoordInv
  OBVIOUS
<1>1. TypeOK
  BY InitialType
<1>2. OnBoard = {} /\ claims = {} /\ lock = NoProc
  BY DEF Init, OnBoard
<1>3. \A p \in Proc : proc[p] = ProcIdle
  BY DEF Init
<1>4. LockIsHeld /\ Registrants /\ PrunedWereSilent
  BY <1>2, <1>3, NeverAssumption DEF LockIsHeld, Registrants, PrunedWereSilent, At, ProcIdle
<1>5. MarksAreLater /\ OneHolder /\ ClaimsHaveOwners /\ LiveIsNotDead
  BY <1>2 DEF MarksAreLater, OneHolder, ClaimsHaveOwners, LiveIsNotDead
<1>6. QED
  BY <1>1, <1>4, <1>5 DEF CoordInv

\* The inductive invariant holds however commands interleave and whenever they
\* are killed.
THEOREM CoordInvariant == Spec => []CoordInv
  BY InitialCoord, CoordStep, PTL DEF Spec

---------------------------------------------------------------------------
(* What follows from it                                                     *)

\* No path is claimed by two agents (claim).
THEOREM PathsHaveOneHolder == Spec => []OneHolder
<1>1. CoordInv => OneHolder
  BY DEF CoordInv
<1>2. QED
  BY <1>1, CoordInvariant, PTL

\* Only kills and overlapping commands of one agent leave claims behind (bye,
\* _cascade_prune).
THEOREM AbandonedClaimsHaveCause == Spec => []ClaimsHaveOwners
<1>1. CoordInv => ClaimsHaveOwners
  BY DEF CoordInv
<1>2. QED
  BY <1>1, CoordInvariant, PTL

\* Nobody verifiably alive is shown dead (classify_presence,
\* _tombstone_superseded).
THEOREM TheLivingAreNotDead == Spec => []LiveIsNotDead
<1>1. CoordInv => LiveIsNotDead
  BY DEF CoordInv
<1>2. QED
  BY <1>1, CoordInvariant, PTL

\* An agent that has registered within the tombstone window loses a claim only
\* by a command of its own (_prune, _cascade_prune).
THEOREM RecentAgentsKeepClaims == Spec => KeepsClaims
<1> DEFINE Kept ==
      \A c \in claims \ claims' :
        \/ contact[c.owner] > TombstoneWindow
        \/ \E p \in Proc : Leave(p) /\ Self(p) = c.owner
        \/ \E p \in Proc, path \in Path : Release(p, path) /\ Self(p) = c.owner
<1>1. CoordInv /\ [Next]_vars => [Kept]_vars
  <2> SUFFICES ASSUME CoordInv, [Next]_vars, NEW c \in claims \ claims'
      PROVE  \/ contact[c.owner] > TombstoneWindow
             \/ \E p \in Proc : Leave(p) /\ Self(p) = c.owner
             \/ \E p \in Proc, path \in Path : Release(p, path) /\ Self(p) = c.owner
    OBVIOUS
  <2>1. claims' # claims
    OBVIOUS
  <2>2. PICK p \in Proc : \/ Cascade(p) \/ Leave(p)
                          \/ \E path \in Path : Take(p, path) \/ Release(p, path)
    BY <2>1 DEF Next, Working, Start, Register, Finish, Stop, Bye, Kill, Exit, Resume,
                      Tick, vars, board
  <2>3. CASE Cascade(p)
    BY <2>3 DEF Cascade, CoordInv, PrunedWereSilent
  <2>4. CASE Leave(p)
    BY <2>4 DEF Leave
  <2>5. ASSUME NEW path \in Path, Take(p, path) PROVE FALSE
    BY <2>5 DEF Take
  <2>6. ASSUME NEW path \in Path, Release(p, path)
        PROVE  Release(p, path) /\ Self(p) = c.owner
    BY <2>6 DEF Release
  <2>7. QED
    BY <2>2, <2>3, <2>4, <2>5, <2>6
<1>2. QED
  BY <1>1, CoordInvariant, PTL DEF Spec, KeepsClaims

---------------------------------------------------------------------------
(* The hooks of a session: what they remember from call to call.            *)

\* What the variables are.
SessionTypes ==
    /\ SessionTypeOK
    /\ hard \in [Tool -> Nat] /\ friendly \in [Tool -> Nat] /\ late \in BOOLEAN
    /\ shown \subseteq Tool /\ crossed \in BOOLEAN /\ counted \in [Call -> SUBSET Call]
    /\ disputed \subseteq Call /\ touched \subseteq Call
    /\ reported \subseteq Call /\ excused \subseteq Call
    /\ told \in [File -> Nat] /\ raced \subseteq File

\* A call that has begun has the hooks of its command.
Doing(c) ==
    /\ pc[c] = "idle" <=> c > begun
    /\ pc[c] # "idle" => what[c] \in Commands
    /\ pc[c] \in Holding => what[c].do \in {"raw", "tool", "other"}
    /\ pc[c] \in {"call", "resolve", "drop"} => what[c].do = "tool"
    /\ pc[c] \in {"check", "claim"} => what[c].do = "edit"
CallsDo == \A c \in Call : Doing(c)

\* The state s has all that was shown.
Truth(s) ==
    /\ \A t \in Tool : s.counts[t] = hard[t] + friendly[t]
    /\ shown \subseteq s.demonstrated

\* The state the call is about to leave has its own demonstration too.
Leaves(c, s) ==
    /\ s \in State /\ Truth(s)
    /\ what[c].do = "tool" => what[c].tool \in s.demonstrated

\* As long as hooks run one after the other the state is in one place: the hook's
\* own copy, the temporary file, or the file.
HeldIsTrue(c) ==
    /\ pc[c] = "open" => Leaves(c, mine[c])
    /\ pc[c] = "write" => Leaves(c, mine[c]) /\ tmp = Torn /\ handle[c] = "tmp"
    /\ pc[c] = "replace" => Leaves(c, tmp)
Uncrossed ==
    /\ \A t \in Tool : hard[t] <= FriendlyAfter /\ hard[t] + friendly[t] <= SilentAfter
    /\ ~late
    /\ \A c, d \in Call : pc[c] \in Holding /\ pc[d] \in Holding => c = d
    /\ (\A c \in Call : pc[c] \notin Holding) => nudges # Torn /\ Truth(Loaded)
    /\ \A c \in Call : HeldIsTrue(c)
StateIsTrue == ~crossed => Uncrossed

\* A call counts against a nudge once, and no more calls are on record than counted.
Unjudged(c, n) ==
    /\ c \notin counted[n] /\ \A o \in outcomes[n] : o[1] # c
    /\ todo[c][n] <= Cardinality(counted[n])
Judges(c, n) ==
    pc[c] = "drop" /\ todo[c][n] # None /\ \E o \in outcomes[n] : o[1] = c
Counts(n) ==
    /\ counted[n] # {} \/ pending[n] # None => pc[n] # "idle" /\ what[n].do = "raw"
    /\ pending[n] # None => pending[n] <= Cardinality(counted[n])
    /\ \A d \in counted[n] : /\ pc[d] \in {"resolve", "drop", "done"}
                             /\ what[d].tool # what[n].tool
    /\ \A o \in outcomes[n] : /\ pc[o[1]] \in {"resolve", "drop", "done"}
                              /\ o[2] = "ignored" => Cardinality(counted[n]) >= MaxActions
    /\ \A c \in Call : todo[c][n] # None =>
          /\ pc[c] \in {"resolve", "drop"} /\ pc[n] # "idle" /\ what[n].do = "raw"
          /\ Unjudged(c, n) \/ Judges(c, n)
CountsAreOwn ==
    /\ \A n \in Call : Counts(n)
    /\ \A c, n, m \in Call : Judges(c, n) /\ Judges(c, m) => n = m

\* What a Stop has read and not told is in the ledger, or with a later Stop.
InReports == UNION {entries[d] : d \in {s \in Call : pc[s] = "report"}}
EditsAreKept ==
    /\ touched \subseteq excused \cup ledger \cup reported \cup InReports
    /\ \A c \in Call : pc[c] = "truncate" => ledger \subseteq entries[c] \cup excused

\* A file is spoken of by the call that noted it.
SpeaksFor(c, f) == pc[c] = "claim" /\ what[c].file = f
FilesAreNoted ==
    \A f \in File \ raced :
        /\ told[f] <= 1 /\ (f \notin spoken => told[f] = 0)
        /\ \A c \in Call : SpeaksFor(c, f) => f \notin spoken
        /\ \A c, d \in Call : SpeaksFor(c, f) /\ SpeaksFor(d, f) => c = d

SessionInv == /\ SessionTypes /\ CallsDo /\ StateIsTrue /\ CountsAreOwn
              /\ EditsAreKept /\ FilesAreNoted

\* A call that begins.
LEMMA Begins ==
    ASSUME SessionTypes, CallsDo, NEW c \in Call, NEW w \in Commands, NEW l, Begin(c, w, l),
           l \in {"done", "open", "check", "truncate"},
           l = "open" => w.do \in {"raw", "tool", "other"}, l = "check" => w.do = "edit"
    PROVE  /\ begun' \in 0..MaxCalls
           /\ what' \in [Call -> Command \cup {None}]
           /\ pc' \in [Call -> Holding \cup {"idle", "call", "resolve", "drop", "check",
                                     "claim", "truncate", "report", "done"}]
           /\ pc[c] = "idle" /\ what'[c] = w /\ pc'[c] = l
           /\ \A d \in Call \ {c} : pc'[d] = pc[d] /\ what'[d] = what[d]
           /\ CallsDo'
<1>1. begun \in 0..MaxCalls /\ MaxCalls \in Nat /\ c = begun + 1 /\ begun' = c
  BY HooksAssumption DEF Begin, SessionTypes, SessionTypeOK
<1>2. what' = [what EXCEPT ![c] = w] /\ pc' = [pc EXCEPT ![c] = l]
  BY DEF Begin, Goto
<1>3. w \in Command
  BY CommandsAssumption
<1>4. pc[c] = "idle" /\ c \in Nat /\ begun \in Nat
  BY <1>1 DEF CallsDo, Doing, Call
<1>5. /\ begun' \in 0..MaxCalls
      /\ what' \in [Call -> Command \cup {None}]
      /\ pc' \in [Call -> Holding \cup {"idle", "call", "resolve", "drop", "check",
                                     "claim", "truncate", "report", "done"}]
  BY <1>1, <1>2, <1>3 DEF SessionTypes, SessionTypeOK, Call, Holding
<1>6. what'[c] = w /\ pc'[c] = l
  BY <1>2 DEF SessionTypes, SessionTypeOK
<1>7. \A d \in Call \ {c} : pc'[d] = pc[d] /\ what'[d] = what[d]
  BY <1>2 DEF SessionTypes, SessionTypeOK
<1>8. \A d \in Call \ {c} : Doing(d)'
  BY <1>1, <1>7 DEF CallsDo, Doing, Call
<1>9. Doing(c)'
  BY <1>1, <1>6 DEF Doing, Call, Holding
<1>10. QED
  BY <1>4, <1>5, <1>6, <1>7, <1>8, <1>9 DEF CallsDo

\* A call that goes on, with the same command.
LEMMA GoesOn ==
    ASSUME SessionTypes, CallsDo, NEW c \in Call, NEW l, Goto(c, l), UNCHANGED <<begun, what>>,
           l \in Holding \cup {"call", "resolve", "drop", "claim", "report", "done"},
           pc[c] # "idle", l \in Holding => pc[c] \in Holding,
           l = "call" => what[c].do = "tool",
           l \in {"resolve", "drop"} => pc[c] \in {"call", "resolve", "drop"},
           l = "claim" => pc[c] = "check"
    PROVE  /\ pc' \in [Call -> Holding \cup {"idle", "call", "resolve", "drop", "check",
                                     "claim", "truncate", "report", "done"}]
           /\ pc'[c] = l /\ \A d \in Call \ {c} : pc'[d] = pc[d]
           /\ CallsDo'
<1>1. pc' = [pc EXCEPT ![c] = l]
  BY DEF Goto
<1>2. pc'[c] = l /\ \A d \in Call \ {c} : pc'[d] = pc[d]
  BY <1>1 DEF SessionTypes, SessionTypeOK
<1>3. \A d \in Call \ {c} : Doing(d)'
  BY <1>2 DEF CallsDo, Doing
<1>4. Doing(c)'
  BY <1>2 DEF CallsDo, Doing, Holding
<1>5. QED
  BY <1>1, <1>2, <1>3, <1>4 DEF SessionTypes, SessionTypeOK, Holding, CallsDo

\* What the pre-tool hook does to the types.
LEMMA PreToolTypes ==
    ASSUME SessionTypes, CallsDo, NEW c \in Call, NEW w \in Commands, PreTool(c, w)
    PROVE  (SessionTypes /\ CallsDo)'
<1>1. w \in Command /\ w.do \in {"raw", "tool", "other", "skip"}
  BY CommandsAssumption DEF PreTool
<1>2. Loaded \in State /\ EmptyState \in State
  BY HooksAssumption DEF SessionTypes, SessionTypeOK, Loaded, EmptyState, State
<1>3. w.do = "tool" => w.tool \in Tool
  BY <1>1 DEF Command
<1>4. w.do = "tool" => [Loaded EXCEPT !.demonstrated = @ \cup {w.tool}] \in State
  BY <1>2, <1>3 DEF State
<1>5. mine' \in [Call -> State]
  BY <1>2, <1>4 DEF PreTool, SessionTypes, SessionTypeOK
<1>6. 0 \in Actions
  BY HooksAssumption DEF Actions
<1>7. pending' \in [Call -> Actions \cup {None}] /\ nudges' \in State \cup {None, Torn}
  BY <1>6 DEF PreTool, Nudged, SessionTypes, SessionTypeOK
<1>8. /\ begun' \in 0..MaxCalls /\ what' \in [Call -> Command \cup {None}]
      /\ pc' \in [Call -> Holding \cup {"idle", "call", "resolve", "drop", "check",
                                     "claim", "truncate", "report", "done"}]
      /\ CallsDo'
  BY <1>1, Begins DEF PreTool
<1>9. crossed' \in BOOLEAN /\ old' \subseteq {"nudges", "ledger", "spoken"}
  BY DEF PreTool, SessionTypes, SessionTypeOK
<1>10. QED
  BY <1>5, <1>7, <1>8, <1>9 DEF PreTool, SessionTypes, SessionTypeOK, ledgerVars

LEMMA TouchTypes ==
    ASSUME SessionTypes, CallsDo, NEW c \in Call, NEW w \in Commands, Touch(c, w)
    PROVE  (SessionTypes /\ CallsDo)'
<1>1. /\ begun' \in 0..MaxCalls /\ what' \in [Call -> Command \cup {None}]
      /\ pc' \in [Call -> Holding \cup {"idle", "call", "resolve", "drop", "check",
                                     "claim", "truncate", "report", "done"}]
      /\ CallsDo'
  BY Begins DEF Touch
<1>2. QED
  BY <1>1 DEF Touch, SessionTypes, SessionTypeOK, hookVars, pendingVars

LEMMA StopReadTypes ==
    ASSUME SessionTypes, CallsDo, NEW c \in Call, NEW w \in Commands, StopRead(c, w)
    PROVE  (SessionTypes /\ CallsDo)'
<1>1. /\ begun' \in 0..MaxCalls /\ what' \in [Call -> Command \cup {None}]
      /\ pc' \in [Call -> Holding \cup {"idle", "call", "resolve", "drop", "check",
                                     "claim", "truncate", "report", "done"}]
      /\ CallsDo'
  BY Begins DEF StopRead
<1>2. QED
  BY <1>1 DEF StopRead, SessionTypes, SessionTypeOK, hookVars, pendingVars, sessionHistory

\* A nudge that is shown is counted, and the count stays within its bound.
LEMMA CountsUp ==
    ASSUME NEW s \in State, NEW t \in Tool
    PROVE  /\ Decision(s, t) \in {"suppress_demonstrated", "suppress_frequency", "friendly", "hard"}
           /\ Counted(s, t) \in State /\ Counted(s, t).demonstrated = s.demonstrated
           /\ \A u \in Tool \ {t} : Counted(s, t).counts[u] = s.counts[u]
           /\ Decision(s, t) = "hard" => s.counts[t] < FriendlyAfter
           /\ Decision(s, t) \in {"hard", "friendly"} =>
                 /\ t \notin s.demonstrated /\ s.counts[t] < SilentAfter
                 /\ Counted(s, t).counts[t] = s.counts[t] + 1
           /\ Decision(s, t) \notin {"hard", "friendly"} => Counted(s, t) = s
<1>1. s.counts \in [Tool -> 0..SilentAfter] /\ s.demonstrated \subseteq Tool
  BY DEF State
<1>2. s.counts[t] \in 0..SilentAfter /\ FriendlyAfter \in Nat /\ SilentAfter \in Nat
      /\ FriendlyAfter <= SilentAfter
  BY <1>1, HooksAssumption
<1>3. Decision(s, t) \in {"suppress_demonstrated", "suppress_frequency", "friendly", "hard"}
  BY DEF Decision
<1>4. Decision(s, t) \in {"hard", "friendly"} => t \notin s.demonstrated /\ s.counts[t] < SilentAfter
  BY <1>2 DEF Decision
<1>5. Decision(s, t) = "hard" => s.counts[t] < FriendlyAfter
  BY <1>2 DEF Decision
<1>6. CASE Decision(s, t) \notin {"hard", "friendly"}
  BY <1>3, <1>6 DEF Counted
<1>7. CASE Decision(s, t) \in {"hard", "friendly"}
  <2>1. Counted(s, t) = [s EXCEPT !.counts[t] = @ + 1]
    BY <1>7 DEF Counted
  <2>2. Counted(s, t).counts = [s.counts EXCEPT ![t] = s.counts[t] + 1]
        /\ Counted(s, t).demonstrated = s.demonstrated
        /\ Counted(s, t) = [demonstrated |-> s.demonstrated, counts |-> Counted(s, t).counts]
    BY <2>1 DEF State
  <2>3. s.counts[t] + 1 \in 0..SilentAfter
    BY <1>2, <1>4, <1>7
  <2>4. Counted(s, t).counts \in [Tool -> 0..SilentAfter]
    BY <2>2, <2>3, <1>1
  <2>5. Counted(s, t) \in State
    BY <2>2, <2>4, <1>1 DEF State
  <2>6. QED
    BY <1>1, <1>3, <1>4, <1>5, <1>7, <2>2, <2>5
<1>8. QED
  BY <1>6, <1>7

LEMMA OpenTypes ==
    ASSUME SessionTypes, CallsDo, NEW c \in Call, Open(c)
    PROVE  (SessionTypes /\ CallsDo)'
<1>1. pc[c] = "open" /\ mine[c] \in State
  BY DEF Open, SessionTypes, SessionTypeOK
<1>2. what[c].do = "raw" => what[c].tool \in Tool
  BY <1>1, CommandsAssumption DEF CallsDo, Doing, Command
<1>3. mine' \in [Call -> State]
  BY <1>1, <1>2, CountsUp DEF Open, SessionTypes, SessionTypeOK
<1>4. hard' \in [Tool -> Nat] /\ friendly' \in [Tool -> Nat] /\ late' \in BOOLEAN
  <2>1. \A f \in [Tool -> Nat] : \A t : [f EXCEPT ![t] = @ + 1] \in [Tool -> Nat]
    <3>1. ASSUME NEW f \in [Tool -> Nat], NEW t \in Tool PROVE [f EXCEPT ![t] = @ + 1] \in [Tool -> Nat]
      OBVIOUS
    <3>2. ASSUME NEW f \in [Tool -> Nat], NEW t, t \notin Tool PROVE [f EXCEPT ![t] = @ + 1] \in [Tool -> Nat]
      BY <3>2
    <3>3. QED
      BY <3>1, <3>2
  <2>2. hard' = hard \/ hard' = [hard EXCEPT ![what[c].tool] = @ + 1]
    BY DEF Open
  <2>3. friendly' = friendly \/ friendly' = [friendly EXCEPT ![what[c].tool] = @ + 1]
    BY DEF Open
  <2>4. late' \in BOOLEAN
    BY DEF Open, SessionTypes
  <2>5. QED
    BY <2>1, <2>2, <2>3, <2>4 DEF SessionTypes
<1>5. /\ pc' \in [Call -> Holding \cup {"idle", "call", "resolve", "drop", "check",
                                     "claim", "truncate", "report", "done"}]
      /\ CallsDo'
  BY <1>1, GoesOn DEF Open, Holding
<1>6. QED
  BY <1>3, <1>4, <1>5 DEF Open, SessionTypes, SessionTypeOK, pendingVars, ledgerVars

LEMMA WriteTypes ==
    ASSUME SessionTypes, CallsDo, NEW c \in Call, Write(c)
    PROVE  (SessionTypes /\ CallsDo)'
<1>1. pc[c] = "write" /\ mine[c] \in State
  BY DEF Write, SessionTypes, SessionTypeOK
<1>2. EmptyState \in State
  BY HooksAssumption DEF EmptyState, State
<1>3. tmp' \in State \cup {None, Torn} /\ nudges' \in State \cup {None, Torn}
  BY <1>1 DEF Write, Written, SessionTypes, SessionTypeOK
<1>4. /\ pc' \in [Call -> Holding \cup {"idle", "call", "resolve", "drop", "check",
                                     "claim", "truncate", "report", "done"}]
      /\ CallsDo'
  BY <1>1, GoesOn DEF Write, Holding
<1>5. mine' \in [Call -> State] /\ handle' \in [Call -> {"none", "tmp", "file", "lost"}]
  BY <1>2 DEF Write, SessionTypes, SessionTypeOK
<1>6. QED
  BY <1>3, <1>4, <1>5 DEF Write, SessionTypes, SessionTypeOK, pendingVars, ledgerVars, sessionHistory

LEMMA ReplaceTypes ==
    ASSUME SessionTypes, CallsDo, NEW c \in Call, Replace(c)
    PROVE  (SessionTypes /\ CallsDo)'
<1>1. pc[c] = "replace" /\ what[c] \in Command
  BY CommandsAssumption DEF Replace, CallsDo, Doing
<1>2. /\ pc' \in [Call -> Holding \cup {"idle", "call", "resolve", "drop", "check",
                                     "claim", "truncate", "report", "done"}]
      /\ CallsDo'
  BY <1>1, GoesOn DEF Replace, Holding
<1>3. what[c].do = "tool" => what[c].tool \in Tool
  BY <1>1 DEF Command
<1>4. shown' \subseteq Tool
  BY <1>3 DEF Replace, SessionTypes
<1>5. /\ nudges' \in State \cup {None, Torn} /\ tmp' \in State \cup {None, Torn}
      /\ old' \subseteq {"nudges", "ledger", "spoken"}
  BY DEF Replace, SessionTypes, SessionTypeOK
<1>6. handle' \in [Call -> {"none", "tmp", "file", "lost"}]
  <2>1. CASE tmp = None
    BY <2>1 DEF Replace, SessionTypes, SessionTypeOK
  <2>2. CASE tmp # None
    BY <2>2 DEF Replace, SessionTypes, SessionTypeOK
  <2>3. QED
    BY <2>1, <2>2
<1>7. QED
  BY <1>2, <1>4, <1>5, <1>6 DEF Replace, SessionTypes, SessionTypeOK, pendingVars, ledgerVars

LEMMA LoadPendingTypes ==
    ASSUME SessionTypes, CallsDo, NEW c \in Call, LoadPending(c)
    PROVE  (SessionTypes /\ CallsDo)'
<1>1. PICK found \in SUBSET Call :
        /\ pc[c] = "call"
        /\ todo' = [todo EXCEPT ![c] = [n \in Call |-> IF n \in found THEN pending[n] ELSE None]]
        /\ disputed' = disputed \cup {n \in found : \E d \in Call \ {c} : todo[d][n] # None}
        /\ Goto(c, IF found = {} THEN "done" ELSE "resolve")
        /\ UNCHANGED <<begun, what>>
  BY DEF LoadPending
<1>2. [n \in Call |-> IF n \in found THEN pending[n] ELSE None] \in [Call -> Actions \cup {None}]
  BY DEF SessionTypes, SessionTypeOK
<1>3. todo' \in [Call -> [Call -> Actions \cup {None}]] /\ disputed' \subseteq Call
  BY <1>1, <1>2 DEF SessionTypes, SessionTypeOK
<1>4. /\ pc' \in [Call -> Holding \cup {"idle", "call", "resolve", "drop", "check",
                                     "claim", "truncate", "report", "done"}]
      /\ CallsDo'
  BY <1>1, GoesOn DEF Holding
<1>5. QED
  BY <1>3, <1>4 DEF LoadPending, SessionTypes, SessionTypeOK, hookVars, ledgerVars

\* A nudge that is judged.
LEMMA JudgedTypes ==
    ASSUME SessionTypes, CallsDo, NEW c \in Call, NEW n \in Call, Judged(c, n),
           UNCHANGED <<begun, what>>, pc[c] \in {"resolve", "drop"}
    PROVE  /\ todo' \in [Call -> [Call -> Actions \cup {None}]]
           /\ pc' \in [Call -> Holding \cup {"idle", "call", "resolve", "drop", "check",
                                     "claim", "truncate", "report", "done"}]
           /\ pc'[c] \in {"resolve", "done"} /\ \A d \in Call \ {c} : pc'[d] = pc[d]
           /\ \A d, m \in Call : todo'[d][m] = IF d = c /\ m = n THEN None ELSE todo[d][m]
           /\ CallsDo'
<1>1. todo' = [todo EXCEPT ![c][n] = None]
  BY DEF Judged
<1>2. todo' \in [Call -> [Call -> Actions \cup {None}]]
  BY <1>1 DEF SessionTypes, SessionTypeOK
<1>3. \A d, m \in Call : todo'[d][m] = IF d = c /\ m = n THEN None ELSE todo[d][m]
  BY <1>1 DEF SessionTypes, SessionTypeOK
<1>4. PICK l \in {"resolve", "done"} : Goto(c, l)
  BY DEF Judged
<1>5. QED
  BY <1>2, <1>3, <1>4, GoesOn DEF Holding

LEMMA JudgingTypes ==
    ASSUME SessionTypes, CallsDo, NEW c \in Call,
           Drop(c) \/ \E n \in Call : Resolve(c, n) \/ Update(c, n)
    PROVE  (SessionTypes /\ CallsDo)'
<1>1. CASE Drop(c)
  <2>1. PICK n \in Call : /\ Judged(c, n) /\ pending' = [pending EXCEPT ![n] = None]
                          /\ pc[c] = "drop" /\ UNCHANGED <<begun, what>>
    BY <1>1 DEF Drop
  <2>2. pending' \in [Call -> Actions \cup {None}]
    BY <2>1 DEF SessionTypes, SessionTypeOK
  <2>3. QED
    BY <1>1, <2>1, <2>2, JudgedTypes
    DEF Drop, SessionTypes, SessionTypeOK, hookVars, ledgerVars, sessionHistory
<1>2. ASSUME NEW n \in Call, Resolve(c, n) PROVE (SessionTypes /\ CallsDo)'
  <2>1. PICK o \in Outcomes(c, n) \ {None} :
          /\ outcomes' = [outcomes EXCEPT ![n] = @ \cup {<<c, o>>}]
          /\ counted' = IF o = "ignored" THEN [counted EXCEPT ![n] = @ \cup {c}] ELSE counted
    BY <1>2 DEF Resolve
  <2>2. o \in {"expired", "followed", "ignored"}
    BY DEF Outcomes
  <2>3. outcomes' \in [Call -> SUBSET (Call \X {"expired", "followed", "ignored"})]
    BY <2>1, <2>2 DEF SessionTypes, SessionTypeOK
  <2>4. counted' \in [Call -> SUBSET Call]
    BY <2>1 DEF SessionTypes
  <2>5. MaxActions \in Actions
    BY HooksAssumption DEF Actions
  <2>6. todo' \in [Call -> [Call -> Actions \cup {None}]]
    BY <1>2, <2>5 DEF Resolve, SessionTypes, SessionTypeOK
  <2>7. /\ pc' \in [Call -> Holding \cup {"idle", "call", "resolve", "drop", "check",
                                     "claim", "truncate", "report", "done"}]
        /\ CallsDo'
    BY <1>2, GoesOn DEF Resolve, Holding
  <2>8. QED
    BY <1>2, <2>3, <2>4, <2>6, <2>7 DEF Resolve, SessionTypes, SessionTypeOK, hookVars, ledgerVars
<1>3. ASSUME NEW n \in Call, Update(c, n) PROVE (SessionTypes /\ CallsDo)'
  <2>1. todo[c][n] \in 0..MaxActions /\ None \in Outcomes(c, n)
    BY <1>3 DEF Update, SessionTypes, SessionTypeOK, Actions
  <2>2. what[c].tool # what[n].tool /\ todo[c][n] + 1 < MaxActions
    BY <2>1, NoneAssumption, HooksAssumption DEF Outcomes
  <2>3. todo[c][n] + 1 \in Actions
    BY <2>1, <2>2, HooksAssumption DEF Actions
  <2>4. pending' \in [Call -> Actions \cup {None}] /\ counted' \in [Call -> SUBSET Call]
    BY <1>3, <2>3 DEF Update, SessionTypes, SessionTypeOK
  <2>5. QED
    BY <1>3, <2>4, JudgedTypes DEF Update, SessionTypes, SessionTypeOK, hookVars, ledgerVars
<1>4. QED
  BY <1>1, <1>2, <1>3

LEMMA FindingTypes ==
    ASSUME SessionTypes, CallsDo, NEW c \in Call, Check(c) \/ Note(c)
    PROVE  (SessionTypes /\ CallsDo)'
<1>1. /\ pc[c] \in {"check", "claim"} /\ what[c] \in Command /\ what[c].do = "edit"
      /\ UNCHANGED <<begun, what>>
  BY CommandsAssumption DEF Check, Note, CallsDo, Doing
<1>2. what[c].file \in File
  BY <1>1 DEF Command
<1>3. /\ pc' \in [Call -> Holding \cup {"idle", "call", "resolve", "drop", "check",
                                     "claim", "truncate", "report", "done"}]
      /\ CallsDo'
  BY <1>1, GoesOn DEF Check, Note, Holding
<1>4. CASE Check(c)
  BY <1>2, <1>3, <1>4 DEF Check, SessionTypes, SessionTypeOK, hookVars, pendingVars, ledgerVars
<1>5. CASE Note(c)
  <2>1. told' \in [File -> Nat]
    BY <1>2, <1>5 DEF Note, SessionTypes
  <2>2. QED
    BY <1>2, <1>3, <1>5, <2>1 DEF Note, SessionTypes, SessionTypeOK, hookVars, pendingVars
<1>6. QED
  BY <1>4, <1>5

LEMMA StopTypes ==
    ASSUME SessionTypes, CallsDo, NEW c \in Call, StopTruncate(c) \/ StopReport(c)
    PROVE  (SessionTypes /\ CallsDo)'
<1>1. /\ pc' \in [Call -> Holding \cup {"idle", "call", "resolve", "drop", "check",
                                     "claim", "truncate", "report", "done"}]
      /\ CallsDo'
  BY GoesOn DEF StopTruncate, StopReport, Holding
<1>2. CASE StopTruncate(c)
  BY <1>1, <1>2 DEF StopTruncate, SessionTypes, SessionTypeOK, hookVars, pendingVars, sessionHistory
<1>3. CASE StopReport(c)
  <2>1. entries[c] \subseteq Call
    BY DEF SessionTypes, SessionTypeOK
  <2>2. reported' \subseteq Call /\ excused' \subseteq Call /\ entries' \in [Call -> SUBSET Call]
    BY <1>3, <2>1 DEF StopReport, SessionTypes, SessionTypeOK
  <2>3. QED
    BY <1>1, <1>3, <2>2 DEF StopReport, SessionTypes, SessionTypeOK, hookVars, pendingVars
<1>4. QED
  BY <1>2, <1>3

LEMMA CutOffTypes ==
    ASSUME SessionTypes, CallsDo, NEW c \in Call, CutOff(c)
    PROVE  (SessionTypes /\ CallsDo)'
<1>1. /\ pc' \in [Call -> Holding \cup {"idle", "call", "resolve", "drop", "check",
                                     "claim", "truncate", "report", "done"}]
      /\ CallsDo'
  BY GoesOn DEF CutOff, Running, Holding
<1>2. EmptyState \in State
  BY HooksAssumption DEF EmptyState, State
<1>3. todo' \in [Call -> [Call -> Actions \cup {None}]]
  BY DEF CutOff, SessionTypes, SessionTypeOK
<1>4. mine' \in [Call -> State] /\ handle' \in [Call -> {"none", "tmp", "file", "lost"}]
      /\ entries' \in [Call -> SUBSET Call]
  BY <1>2 DEF CutOff, SessionTypes, SessionTypeOK
<1>5. crossed' \in BOOLEAN /\ disputed' \subseteq Call /\ cutoffs' \in 0..MaxKills
  BY HooksAssumption DEF CutOff, SessionTypes, SessionTypeOK
<1>6. excused' \subseteq Call
  BY DEF CutOff, SessionTypes, SessionTypeOK
<1>7. QED
  BY <1>1, <1>3, <1>4, <1>5, <1>6 DEF CutOff, SessionTypes, SessionTypeOK

LEMMA RestTypes ==
    ASSUME SessionTypes, CallsDo, Rest \/ (\E f \in old : Sweep(f)) \/ UNCHANGED sessionVars
    PROVE  (SessionTypes /\ CallsDo)'
<1>1. UNCHANGED <<begun, what, pc>> /\ CallsDo'
  BY DEF Rest, Sweep, sessionVars, CallsDo, Doing
<1>2. CASE Rest
  BY <1>1, <1>2 DEF Rest, SessionTypes, SessionTypeOK, hookVars, pendingVars, ledgerVars, sessionHistory
<1>3. ASSUME NEW f \in old, Sweep(f) PROVE SessionTypes'
  <2>1. f \in {"nudges", "ledger", "spoken"}
    BY DEF SessionTypes, SessionTypeOK
  <2>2. CASE f = "nudges"
    BY <1>1, <1>3, <2>2 DEF Sweep, SessionTypes, SessionTypeOK, pendingVars
  <2>3. CASE f = "ledger"
    BY <1>1, <1>3, <2>3 DEF Sweep, SessionTypes, SessionTypeOK, pendingVars
  <2>4. CASE f = "spoken"
    BY <1>1, <1>3, <2>4 DEF Sweep, SessionTypes, SessionTypeOK, pendingVars
  <2>5. QED
    BY <2>1, <2>2, <2>3, <2>4
<1>4. CASE UNCHANGED sessionVars
  <2>1. SessionTypeOK'
    BY <1>4 DEF sessionVars, SessionTypes, SessionTypeOK, hookVars, pendingVars, ledgerVars
  <2>2. QED
    BY <1>1, <1>4, <2>1 DEF sessionVars, SessionTypes, sessionHistory
<1>5. QED
  BY <1>1, <1>2, <1>3, <1>4

\* The types, and the hooks each call runs.
LEMMA TypesStep ==
    ASSUME SessionTypes, CallsDo, [SessionNext]_sessionVars
    PROVE  (SessionTypes /\ CallsDo)'
BY PreToolTypes, TouchTypes, StopReadTypes, OpenTypes, WriteTypes, ReplaceTypes,
   LoadPendingTypes, JudgingTypes, FindingTypes, StopTypes, CutOffTypes, RestTypes
DEF SessionNext

-----------------------------------------------------------------------------
(* The nudge state.                                                        *)

\* A step of a call that does not hold the state.
LEMMA NobodyHolds ==
    ASSUME StateIsTrue, UNCHANGED <<hard, friendly, late, shown, crossed, nudges, tmp>>,
           \A d \in Call : pc'[d] \in Holding <=> pc[d] \in Holding,
           \A d \in Call : pc[d] \in Holding =>
               pc'[d] = pc[d] /\ what'[d] = what[d] /\ mine'[d] = mine[d] /\ handle'[d] = handle[d]
    PROVE  StateIsTrue'
<1> SUFFICES ASSUME ~crossed PROVE Uncrossed'
  BY Zenon DEF StateIsTrue
<1>1. Uncrossed
  BY Zenon DEF StateIsTrue
<1>2. Loaded' = Loaded /\ \A s : Truth(s)' <=> Truth(s)
  BY DEF Loaded, Truth
<1>3. \A c \in Call : HeldIsTrue(c)'
  <2>1. SUFFICES ASSUME NEW c \in Call, pc'[c] \in Holding PROVE HeldIsTrue(c)'
    BY DEF HeldIsTrue, Holding
  <2>2. HeldIsTrue(c) /\ pc'[c] = pc[c] /\ mine'[c] = mine[c] /\ handle'[c] = handle[c] /\ what'[c] = what[c]
    BY <1>1, <2>1 DEF Uncrossed
  <2>3. Leaves(c, mine[c])' <=> Leaves(c, mine[c])
    BY <1>2, <2>2 DEF Leaves
  <2>4. Leaves(c, tmp)' <=> Leaves(c, tmp)
    BY <1>2, <2>2 DEF Leaves
  <2>5. QED
    BY <2>2, <2>3, <2>4 DEF HeldIsTrue
<1>4. (\A c \in Call : pc'[c] \notin Holding) => nudges' # Torn /\ Truth(Loaded)'
  BY <1>1, <1>2 DEF Uncrossed
<1>5. \A c, d \in Call : pc'[c] \in Holding /\ pc'[d] \in Holding => c = d
  BY <1>1 DEF Uncrossed
<1>6. QED
  BY <1>1, <1>3, <1>4, <1>5 DEF Uncrossed

LEMMA PreToolTrue ==
    ASSUME SessionTypes, CallsDo, StateIsTrue, NEW c \in Call, NEW w \in Commands, PreTool(c, w)
    PROVE  StateIsTrue'
<1> SUFFICES ASSUME ~crossed' PROVE Uncrossed'
  BY Zenon DEF StateIsTrue
<1>1. /\ ~crossed /\ \A d \in Call : pc[d] \notin Holding
      /\ ~("nudges" \in old /\ w.do = "skip")
  BY DEF PreTool
<1>2. Uncrossed /\ nudges # Torn /\ Truth(Loaded)
  BY <1>1, Zenon DEF StateIsTrue, Uncrossed
<1>3. UNCHANGED <<hard, friendly, late, shown, tmp, handle>> /\ \A s : Truth(s)' <=> Truth(s)
  BY DEF PreTool, Truth
<1>4. /\ pc'[c] = IF w.do = "skip" THEN "done" ELSE "open"
      /\ \A d \in Call \ {c} : pc'[d] = pc[d]
      /\ what'[c] = w /\ w \in Command
  BY CommandsAssumption DEF PreTool, Begin, Goto, SessionTypes, SessionTypeOK
<1>5. \A d \in Call \ {c} : pc'[d] \notin Holding
  BY <1>1, <1>4
<1>6. Loaded \in State
  BY HooksAssumption DEF SessionTypes, SessionTypeOK, Loaded, EmptyState, State
<1>7. CASE w.do = "skip"
  <2>1. nudges' = nudges
    BY <1>1, <1>7 DEF PreTool
  <2>2. pc'[c] \notin Holding /\ Loaded' = Loaded
    BY <1>4, <1>7, <2>1 DEF Holding, Loaded
  <2>3. \A d \in Call : HeldIsTrue(d)'
    BY <1>5, <2>2 DEF HeldIsTrue, Holding
  <2>4. QED
    BY <1>2, <1>3, <1>5, <2>1, <2>2, <2>3 DEF Uncrossed
<1>8. CASE w.do # "skip"
  <2>1. pc'[c] = "open" /\ pc'[c] \in Holding
    BY <1>4, <1>8 DEF Holding
  <2>2. mine'[c] = IF w.do = "tool" THEN [Loaded EXCEPT !.demonstrated = @ \cup {w.tool}] ELSE Loaded
    BY <1>8 DEF PreTool, SessionTypes, SessionTypeOK
  <2>3. Leaves(c, mine[c])'
    <3>1. w.do = "tool" => w.tool \in Tool
      BY <1>4 DEF Command
    <3>2. Truth(mine'[c]) /\ mine'[c] \in State /\ (w.do = "tool" => w.tool \in mine'[c].demonstrated)
      BY <1>2, <1>6, <2>2, <3>1 DEF Truth, State
    <3>3. QED
      BY <1>3, <1>4, <3>2 DEF Leaves
  <2>4. \A d \in Call : HeldIsTrue(d)'
    BY <1>5, <2>1, <2>3 DEF HeldIsTrue, Holding
  <2>5. QED
    BY <1>2, <1>3, <1>5, <2>1, <2>4 DEF Uncrossed
<1>9. QED
  BY <1>7, <1>8

\* The hook that holds the state, alone.
LEMMA OneHolds ==
    ASSUME SessionTypes, Uncrossed, NEW c \in Call, pc[c] \in Holding, NEW l, Goto(c, l)
    PROVE  /\ pc'[c] = l /\ \A d \in Call \ {c} : pc'[d] = pc[d]
           /\ \A d \in Call \ {c} : pc[d] \notin Holding
BY DEF Uncrossed, Goto, SessionTypes, SessionTypeOK

LEMMA OpenTrue ==
    ASSUME SessionTypes, CallsDo, StateIsTrue, NEW c \in Call, Open(c)
    PROVE  StateIsTrue'
<1> SUFFICES ASSUME ~crossed PROVE Uncrossed'
  BY Zenon DEF StateIsTrue, Open
<1> DEFINE t == what[c].tool
           s == mine[c]
           says == IF what[c].do = "raw" THEN Decision(s, t) ELSE "suppress_demonstrated"
<1>1. Uncrossed /\ pc[c] = "open" /\ pc[c] \in Holding
  BY Zenon DEF StateIsTrue, Open, Holding
<1>2. Leaves(c, s)
  BY <1>1 DEF Uncrossed, HeldIsTrue
<1>3. /\ pc'[c] = "write" /\ \A d \in Call \ {c} : pc'[d] = pc[d]
      /\ \A d \in Call \ {c} : pc[d] \notin Holding
      /\ UNCHANGED <<what, nudges, shown>> /\ tmp' = Torn /\ handle'[c] = "tmp"
  BY <1>1, OneHolds DEF Open, SessionTypes, SessionTypeOK
<1>4. what[c].do = "raw" => t \in Tool
  BY <1>1, CommandsAssumption DEF CallsDo, Doing, Command
<1>5. mine'[c] = IF what[c].do = "raw" THEN Counted(s, t) ELSE s
  BY DEF Open, SessionTypes, SessionTypeOK
<1>6. /\ hard' = IF says = "hard" THEN [hard EXCEPT ![t] = @ + 1] ELSE hard
      /\ friendly' = IF says = "friendly" THEN [friendly EXCEPT ![t] = @ + 1] ELSE friendly
      /\ says \in {"hard", "friendly"} => what[c].do = "raw"
  BY DEF Open
<1>7. s \in State /\ Truth(s) /\ (what[c].do = "tool" => what[c].tool \in s.demonstrated)
  BY <1>2 DEF Leaves
<1>8. hard \in [Tool -> Nat] /\ friendly \in [Tool -> Nat]
  BY DEF SessionTypes
<1>9. ~late'
  <2>1. says \in {"hard", "friendly"} => t \notin shown
    BY <1>4, <1>6, <1>7, CountsUp DEF Truth
  <2>2. QED
    BY <1>1, <2>1, Zenon DEF Open, Uncrossed
<1>10. CASE says \in {"hard", "friendly"}
  <2>1. /\ t \in Tool /\ what[c].do = "raw" /\ mine'[c] = Counted(s, t)
        /\ s.counts[t] = hard[t] + friendly[t]
        /\ says = Decision(s, t)
    BY <1>4, <1>5, <1>6, <1>7, <1>10 DEF Truth
  <2>2. /\ Counted(s, t) \in State /\ Counted(s, t).demonstrated = s.demonstrated
        /\ \A u \in Tool \ {t} : Counted(s, t).counts[u] = s.counts[u]
        /\ says = "hard" => s.counts[t] < FriendlyAfter
        /\ s.counts[t] < SilentAfter
        /\ Counted(s, t).counts[t] = s.counts[t] + 1
    BY <1>7, <1>10, <2>1, CountsUp
  <2>3. /\ \A u \in Tool \ {t} : hard'[u] = hard[u] /\ friendly'[u] = friendly[u]
        /\ \/ says = "hard" /\ hard'[t] = hard[t] + 1 /\ friendly'[t] = friendly[t]
           \/ says = "friendly" /\ hard'[t] = hard[t] /\ friendly'[t] = friendly[t] + 1
    BY <1>6, <1>8, <1>10, <2>1
  <2>4. /\ hard[t] \in Nat /\ friendly[t] \in Nat /\ s.counts[t] \in Nat
        /\ FriendlyAfter \in Nat /\ SilentAfter \in Nat
    BY <1>7, <1>8, <2>1, HooksAssumption DEF State
  <2>5. hard'[t] <= FriendlyAfter /\ hard'[t] + friendly'[t] <= SilentAfter
        /\ Counted(s, t).counts[t] = hard'[t] + friendly'[t]
    <3>1. hard[t] <= FriendlyAfter
      BY <1>1, <2>1 DEF Uncrossed
    <3>2. QED
      BY <2>1, <2>2, <2>3, <2>4, <3>1
  <2>6. \A u \in Tool : hard'[u] <= FriendlyAfter /\ hard'[u] + friendly'[u] <= SilentAfter
                        /\ Counted(s, t).counts[u] = hard'[u] + friendly'[u]
    BY <1>1, <1>7, <2>2, <2>3, <2>5 DEF Uncrossed, Truth
  <2>7. (Leaves(c, mine[c]))'
    BY <1>3, <1>7, <2>1, <2>2, <2>6 DEF Leaves, Truth
  <2>8. \A d \in Call : HeldIsTrue(d)'
    BY <1>3, <2>7 DEF HeldIsTrue, Holding
  <2>9. QED
    BY <1>3, <1>9, <2>6, <2>8 DEF Uncrossed, Holding
<1>11. CASE says \notin {"hard", "friendly"}
  <2>1. hard' = hard /\ friendly' = friendly
    BY <1>6, <1>11
  <2>2. mine'[c] = s
    BY <1>4, <1>5, <1>7, <1>11, CountsUp
  <2>3. (Leaves(c, mine[c]))'
    BY <1>3, <1>7, <2>1, <2>2 DEF Leaves, Truth
  <2>4. \A d \in Call : HeldIsTrue(d)'
    BY <1>3, <2>3 DEF HeldIsTrue, Holding
  <2>5. QED
    BY <1>1, <1>3, <1>9, <2>1, <2>4 DEF Uncrossed, Holding
<1>12. QED
  BY <1>10, <1>11

LEMMA WriteTrue ==
    ASSUME SessionTypes, CallsDo, StateIsTrue, NEW c \in Call, Write(c)
    PROVE  StateIsTrue'
<1> SUFFICES ASSUME ~crossed PROVE Uncrossed'
  BY Zenon DEF StateIsTrue, Write, sessionHistory
<1>1. Uncrossed /\ pc[c] = "write" /\ pc[c] \in Holding
  BY Zenon DEF StateIsTrue, Write, Holding
<1>2. Leaves(c, mine[c]) /\ tmp = Torn /\ handle[c] = "tmp"
  BY <1>1 DEF Uncrossed, HeldIsTrue
<1>3. /\ pc'[c] = "replace" /\ \A d \in Call \ {c} : pc'[d] = pc[d]
      /\ \A d \in Call \ {c} : pc[d] \notin Holding
      /\ UNCHANGED <<what, hard, friendly, late, shown>>
  BY <1>1, OneHolds DEF Write, sessionHistory
<1>4. tmp' = mine[c]
  BY <1>2 DEF Write, Written
<1>5. (Leaves(c, tmp))'
  BY <1>2, <1>3, <1>4 DEF Leaves, Truth
<1>6. \A d \in Call : HeldIsTrue(d)'
  BY <1>3, <1>5 DEF HeldIsTrue, Holding
<1>7. ~late'
  BY <1>1, <1>3, Zenon DEF Uncrossed
<1>8. QED
  BY <1>1, <1>3, <1>6, <1>7 DEF Uncrossed, Holding

LEMMA ReplaceTrue ==
    ASSUME SessionTypes, CallsDo, StateIsTrue, NEW c \in Call, Replace(c)
    PROVE  StateIsTrue'
<1> SUFFICES ASSUME ~crossed PROVE Uncrossed'
  BY Zenon DEF StateIsTrue, Replace
<1>1. Uncrossed /\ pc[c] = "replace" /\ pc[c] \in Holding
  BY Zenon DEF StateIsTrue, Replace, Holding
<1>2. Leaves(c, tmp)
  BY <1>1 DEF Uncrossed, HeldIsTrue
<1>3. tmp # None /\ tmp # Torn /\ tmp \in State
  BY <1>2, NoneAssumption DEF Leaves
<1>4. /\ pc'[c] \in {"call", "done"} /\ \A d \in Call \ {c} : pc'[d] = pc[d]
      /\ \A d \in Call \ {c} : pc[d] \notin Holding
      /\ UNCHANGED <<what, hard, friendly, late>>
      /\ nudges' = tmp
  BY <1>1, <1>3, OneHolds DEF Replace
<1>5. \A d \in Call : pc'[d] \notin Holding
  BY <1>4 DEF Holding
<1>6. shown' = IF what[c].do = "tool" THEN shown \cup {what[c].tool} ELSE shown
  BY DEF Replace
<1>7. nudges' # Torn /\ Loaded' = tmp
  BY <1>3, <1>4 DEF Loaded
<1>8. Truth(Loaded)'
  BY <1>2, <1>4, <1>6, <1>7 DEF Leaves, Truth
<1>9. ~late'
  BY <1>1, <1>4, Zenon DEF Uncrossed
<1>10. \A d \in Call : HeldIsTrue(d)'
  BY <1>5 DEF HeldIsTrue, Holding
<1>11. QED
  BY <1>1, <1>4, <1>5, <1>7, <1>8, <1>9, <1>10 DEF Uncrossed

\* A step that moves one call between places where it holds nothing.
LEMMA MovesAside ==
    ASSUME SessionTypes, StateIsTrue, NEW c \in Call, NEW l, Goto(c, l),
           pc[c] \notin Holding, l \notin Holding, \A d \in Call \ {c} : what'[d] = what[d],
           UNCHANGED <<hard, friendly, late, shown, crossed, nudges, tmp>>,
           \A d \in Call \ {c} : mine'[d] = mine[d] /\ handle'[d] = handle[d]
    PROVE  StateIsTrue'
<1>1. pc'[c] = l /\ \A d \in Call \ {c} : pc'[d] = pc[d]
  BY DEF Goto, SessionTypes, SessionTypeOK
<1>2. QED
  BY <1>1, NobodyHolds

LEMMA TrueStep ==
    ASSUME SessionTypes, CallsDo, StateIsTrue, [SessionNext]_sessionVars
    PROVE  StateIsTrue'
<1>1. ASSUME NEW c \in Call, NEW w \in Commands, Touch(c, w) \/ StopRead(c, w)
      PROVE  StateIsTrue'
  <2>1. PICK l \in {"check", "truncate"} : Begin(c, w, l)
    BY <1>1 DEF Touch, StopRead
  <2>2. /\ pc[c] \notin Holding /\ l \notin Holding /\ Goto(c, l)
        /\ \A d \in Call \ {c} : what'[d] = what[d]
    <3>1. c = begun + 1 /\ begun \in Nat
      BY <2>1, HooksAssumption DEF Begin, SessionTypes, SessionTypeOK
    <3>2. pc[c] = "idle"
      BY <3>1 DEF CallsDo, Doing, Call
    <3>3. QED
      BY <2>1, <3>2 DEF Begin, Holding, SessionTypes, SessionTypeOK
  <2>3. QED
    BY <1>1, <2>2, MovesAside DEF Touch, StopRead, hookVars, sessionHistory
<1>2. ASSUME NEW c \in Call, LoadPending(c) PROVE StateIsTrue'
  <2>1. PICK l \in {"done", "resolve"} : Goto(c, l)
    BY <1>2 DEF LoadPending
  <2>2. QED
    BY <1>2, <2>1, MovesAside DEF LoadPending, hookVars, Holding
<1>3. ASSUME NEW c \in Call, Drop(c) PROVE StateIsTrue'
  <2>1. PICK l \in {"done", "resolve"} : Goto(c, l)
    BY <1>3 DEF Drop, Judged
  <2>2. QED
    BY <1>3, <2>1, MovesAside DEF Drop, hookVars, sessionHistory, Holding
<1>4. ASSUME NEW c \in Call, NEW n \in Call, Resolve(c, n) \/ Update(c, n) PROVE StateIsTrue'
  <2>1. PICK l \in {"done", "resolve", "drop"} : Goto(c, l)
    BY <1>4 DEF Resolve, Update, Judged
  <2>2. QED
    BY <1>4, <2>1, MovesAside DEF Resolve, Update, hookVars, Holding
<1>5. ASSUME NEW c \in Call, Check(c) \/ Note(c) \/ StopTruncate(c) \/ StopReport(c)
      PROVE  StateIsTrue'
  <2>1. PICK l \in {"done", "claim", "report"} : Goto(c, l)
    BY <1>5 DEF Check, Note, StopTruncate, StopReport
  <2>2. QED
    BY <1>5, <2>1, MovesAside
    DEF Check, Note, StopTruncate, StopReport, hookVars, sessionHistory, Holding
<1>6. ASSUME NEW c \in Call, CutOff(c) PROVE StateIsTrue'
  <2>1. CASE pc[c] \in Holding
    BY <1>6, <2>1, Zenon DEF CutOff, StateIsTrue
  <2>2. CASE pc[c] \notin Holding
    <3>1. \A d \in Call \ {c} : mine'[d] = mine[d] /\ handle'[d] = handle[d]
      BY <1>6 DEF CutOff, SessionTypes, SessionTypeOK
    <3>2. crossed' = crossed
      BY <1>6, <2>2, Zenon DEF CutOff, SessionTypes
    <3>3. QED
      BY <1>6, <2>2, <3>1, <3>2, MovesAside DEF CutOff, Holding
  <2>3. QED
    BY <2>1, <2>2
<1>7. ASSUME Rest \/ UNCHANGED sessionVars PROVE StateIsTrue'
  BY <1>7, NobodyHolds DEF Rest, sessionVars, hookVars, sessionHistory
<1>8. ASSUME NEW f \in old, Sweep(f) PROVE StateIsTrue'
  <2>1. f \in {"nudges", "ledger", "spoken"}
    BY DEF SessionTypes, SessionTypeOK
  <2>2. CASE f = "nudges"
    BY <1>8, <2>2, Zenon DEF Sweep, StateIsTrue
  <2>3. CASE f # "nudges"
    BY <1>8, <2>1, <2>3, NobodyHolds DEF Sweep
  <2>4. QED
    BY <2>2, <2>3
<1>9. QED
  BY <1>1, <1>2, <1>3, <1>4, <1>5, <1>6, <1>7, <1>8, PreToolTrue, OpenTrue, WriteTrue, ReplaceTrue
  DEF SessionNext

-----------------------------------------------------------------------------
(* The nudges that are pending.                                            *)

\* One more call counts one more.
LEMMA CountsGrow ==
    ASSUME NEW S \in SUBSET Call
    PROVE  /\ IsFiniteSet(S) /\ Cardinality(S) \in Nat
           /\ \A c \in Call \ S : Cardinality(S \cup {c}) = Cardinality(S) + 1
           /\ \A c : Cardinality(S \cup {c}) >= Cardinality(S)
<1>1. IsFiniteSet(S)
  <2>1. 1 \in Int /\ MaxCalls \in Int
    BY HooksAssumption
  <2>2. IsFiniteSet(Call)
    BY <2>1, FS_Interval DEF Call
  <2>3. QED
    BY <2>2, FS_Subset
<1>2. Cardinality(S) \in Nat
  BY <1>1, FS_CardinalityType
<1>3. \A c : Cardinality(S \cup {c}) = IF c \in S THEN Cardinality(S) ELSE Cardinality(S) + 1
  BY <1>1, FS_AddElement
<1>4. QED
  BY <1>1, <1>2, <1>3

\* A step of a call that judges nothing.
LEMMA NothingIsJudged ==
    ASSUME CountsAreOwn, UNCHANGED <<pending, todo, outcomes, counted>>, SessionTypes,
           \A n \in Call : pc[n] # "idle" => pc'[n] # "idle" /\ what'[n] = what[n],
           \A d \in Call : pc[d] = "done" => pc'[d] = "done",
           \A d \in Call : pc[d] \in {"resolve", "drop"} \/ pc'[d] \in {"resolve", "drop"}
                              => pc'[d] = pc[d]
    PROVE  CountsAreOwn'
<1> SUFFICES ASSUME TRUE PROVE (CountsAreOwn)'
  OBVIOUS
<1>1. ASSUME NEW n \in Call PROVE Counts(n)'
  <2>1. Counts(n) /\ counted[n] \subseteq Call /\ \A o \in outcomes[n] : o[1] \in Call
    BY DEF CountsAreOwn, SessionTypes, SessionTypeOK
  <2>2. \A d \in counted[n] : pc[d] # "idle" /\ what'[d] = what[d]
    BY <2>1 DEF Counts
  <2>3. \A c \in Call : Judges(c, n) => Judges(c, n)'
    BY DEF Judges
  <2>4. \A c \in Call : Unjudged(c, n)' <=> Unjudged(c, n)
    BY DEF Unjudged
  <2>5. /\ counted'[n] # {} \/ pending'[n] # None => pc'[n] # "idle" /\ what'[n].do = "raw"
        /\ pending'[n] # None => pending'[n] <= Cardinality(counted'[n])
    BY <2>1 DEF Counts
  <2>6. \A d \in counted'[n] : /\ pc'[d] \in {"resolve", "drop", "done"}
                               /\ what'[d].tool # what'[n].tool
    BY <2>1, <2>2 DEF Counts
  <2>7. \A o \in outcomes'[n] : /\ pc'[o[1]] \in {"resolve", "drop", "done"}
                                /\ o[2] = "ignored" => Cardinality(counted'[n]) >= MaxActions
    BY <2>1 DEF Counts
  <2>8. \A c \in Call : todo'[c][n] # None =>
          /\ pc'[c] \in {"resolve", "drop"} /\ pc'[n] # "idle" /\ what'[n].do = "raw"
          /\ Unjudged(c, n)' \/ Judges(c, n)'
    BY <2>1, <2>3, <2>4 DEF Counts
  <2>9. QED
    BY <2>5, <2>6, <2>7, <2>8 DEF Counts
<1>2. \A c, n \in Call : Judges(c, n)' => Judges(c, n)
  BY DEF Judges
<1>3. QED
  BY <1>1, <1>2 DEF CountsAreOwn

LEMMA PreToolCounts ==
    ASSUME SessionTypes, CallsDo, CountsAreOwn, NEW c \in Call, NEW w \in Commands, PreTool(c, w)
    PROVE  CountsAreOwn'
<1>1. PICK l \in {"done", "open"} : Begin(c, w, l) /\ (l = "open" => w.do # "skip")
  BY DEF PreTool
<1>2. /\ pc[c] = "idle" /\ pc'[c] = l /\ what'[c] = w
      /\ \A d \in Call \ {c} : pc'[d] = pc[d] /\ what'[d] = what[d]
  BY <1>1, Begins DEF PreTool
<1>3. UNCHANGED <<todo, outcomes, counted>> /\ pending' = Nudged(c, w)
  BY DEF PreTool
<1>4. counted[c] = {} /\ pending[c] = None
  BY <1>2 DEF CountsAreOwn, Counts
<1>5. \A d, n \in Call : Judges(d, n)' <=> Judges(d, n)
  BY <1>2, <1>3 DEF Judges
<1>6. \A d, n \in Call : Unjudged(d, n)' <=> Unjudged(d, n)
  BY <1>3 DEF Unjudged
<1>7. \A n \in Call : counted[n] \subseteq Call \ {c} /\ \A o \in outcomes[n] : o[1] \in Call \ {c}
  <2>1. SUFFICES ASSUME NEW n \in Call
                 PROVE  counted[n] \subseteq Call \ {c} /\ \A o \in outcomes[n] : o[1] \in Call \ {c}
    OBVIOUS
  <2>2. Counts(n) /\ counted[n] \subseteq Call /\ \A o \in outcomes[n] : o[1] \in Call
    BY DEF CountsAreOwn, SessionTypes, SessionTypeOK
  <2>3. QED
    BY <1>2, <2>2 DEF Counts
<1>8. ASSUME NEW n \in Call, n # c PROVE Counts(n)'
  <2>1. Counts(n) /\ pc'[n] = pc[n] /\ what'[n] = what[n] /\ pending'[n] = pending[n]
    BY <1>2, <1>3, <1>8 DEF CountsAreOwn, Nudged, SessionTypes, SessionTypeOK
  <2>2. \A d \in Call : todo[d][n] # None => d # c
    BY <1>2, <2>1 DEF Counts
  <2>3. QED
    BY <1>2, <1>3, <1>5, <1>6, <1>7, <2>1, <2>2 DEF Counts
<1>9. Counts(c)'
  <2>1. \A d \in Call : todo[d][c] = None
    BY <1>2 DEF CountsAreOwn, Counts
  <2>2. pending'[c] # None => w.do = "raw" /\ pending'[c] = 0
    BY <1>3, <1>4 DEF Nudged, SessionTypes, SessionTypeOK
  <2>3. Cardinality({}) = 0
    BY FS_EmptySet
  <2>4. \A o \in outcomes[c] : /\ pc[o[1]] \in {"resolve", "drop", "done"}
                               /\ o[2] = "ignored" => Cardinality(counted[c]) >= MaxActions
    BY DEF CountsAreOwn, Counts
  <2>5. QED
    BY <1>1, <1>2, <1>3, <1>4, <1>7, <2>1, <2>2, <2>3, <2>4 DEF Counts
<1>10. QED
  BY <1>5, <1>8, <1>9 DEF CountsAreOwn

LEMMA LoadPendingCounts ==
    ASSUME SessionTypes, CallsDo, CountsAreOwn, NEW c \in Call, LoadPending(c)
    PROVE  CountsAreOwn'
<1>1. PICK found \in SUBSET {n \in Call : pending[n] # None} :
        /\ todo' = [todo EXCEPT ![c] = [n \in Call |-> IF n \in found THEN pending[n] ELSE None]]
        /\ Goto(c, IF found = {} THEN "done" ELSE "resolve")
  BY DEF LoadPending
<1>2. pc[c] = "call" /\ UNCHANGED <<what, pending, outcomes, counted>>
  BY DEF LoadPending
<1>3. /\ pc'[c] = IF found = {} THEN "done" ELSE "resolve"
      /\ \A d \in Call \ {c} : pc'[d] = pc[d]
  BY <1>1 DEF Goto, SessionTypes, SessionTypeOK
<1>4. /\ \A n \in Call : todo'[c][n] = IF n \in found THEN pending[n] ELSE None
      /\ \A d \in Call \ {c} : todo'[d] = todo[d]
  BY <1>1 DEF SessionTypes, SessionTypeOK
<1>5. \A d, n \in Call : Judges(d, n)' => Judges(d, n)
  BY <1>2, <1>3, <1>4 DEF Judges
<1>6. \A d \in Call \ {c}, n \in Call : (Judges(d, n) => Judges(d, n)') /\ (Unjudged(d, n) => Unjudged(d, n)')
  BY <1>2, <1>3, <1>4 DEF Judges, Unjudged
<1>7. ASSUME NEW n \in Call PROVE Counts(n)'
  <2>1. Counts(n) /\ counted[n] \subseteq Call /\ \A o \in outcomes[n] : o[1] \in Call
    BY DEF CountsAreOwn, SessionTypes, SessionTypeOK
  <2>2. c \notin counted[n] /\ \A o \in outcomes[n] : o[1] # c
    BY <1>2, <2>1 DEF Counts
  <2>3. /\ counted'[n] # {} \/ pending'[n] # None => pc'[n] # "idle" /\ what'[n].do = "raw"
        /\ pending'[n] # None => pending'[n] <= Cardinality(counted'[n])
    BY <1>2, <1>3, <2>1 DEF Counts
  <2>4. /\ \A d \in counted'[n] : /\ pc'[d] \in {"resolve", "drop", "done"}
                                  /\ what'[d].tool # what'[n].tool
        /\ \A o \in outcomes'[n] : /\ pc'[o[1]] \in {"resolve", "drop", "done"}
                                   /\ o[2] = "ignored" => Cardinality(counted'[n]) >= MaxActions
    BY <1>2, <1>3, <2>1, <2>2 DEF Counts
  <2>5. ASSUME NEW d \in Call, d # c, todo'[d][n] # None
        PROVE  /\ pc'[d] \in {"resolve", "drop"} /\ pc'[n] # "idle" /\ what'[n].do = "raw"
               /\ Unjudged(d, n)' \/ Judges(d, n)'
    BY <1>2, <1>3, <1>4, <1>6, <2>1, <2>5 DEF Counts
  <2>6. ASSUME todo'[c][n] # None
        PROVE  /\ pc'[c] \in {"resolve", "drop"} /\ pc'[n] # "idle" /\ what'[n].do = "raw"
               /\ Unjudged(c, n)'
    <3>1. n \in found /\ todo'[c][n] = pending[n] /\ pending[n] # None
      BY <1>4, <2>6
    <3>2. pc'[c] = "resolve" /\ pending[n] <= Cardinality(counted[n])
      BY <1>3, <2>1, <3>1 DEF Counts
    <3>3. Unjudged(c, n)'
      BY <1>2, <2>2, <3>1, <3>2 DEF Unjudged
    <3>4. QED
      BY <1>2, <2>3, <3>1, <3>2, <3>3
  <2>7. QED
    BY <2>3, <2>4, <2>5, <2>6 DEF Counts
<1>8. QED
  BY <1>5, <1>7 DEF CountsAreOwn

\* A call that may judge has judged nothing of what it has left.
LEMMA Judging ==
    ASSUME SessionTypes, CallsDo, CountsAreOwn, NEW c \in Call, NEW n \in Call,
           pc[c] = "resolve", todo[c][n] # None
    PROVE  /\ Counts(n) /\ Unjudged(c, n) /\ todo[c][n] \in 0..MaxActions
           /\ pc[n] # "idle" /\ what[n].do = "raw"
           /\ Cardinality(counted[n] \cup {c}) = Cardinality(counted[n]) + 1
           /\ Cardinality(counted[n]) \in Nat
<1>1. Counts(n) /\ counted[n] \subseteq Call /\ todo[c][n] \in 0..MaxActions
  BY DEF CountsAreOwn, SessionTypes, SessionTypeOK, Actions
<1>2. Unjudged(c, n) /\ pc[n] # "idle" /\ what[n].do = "raw"
  BY <1>1 DEF Counts, Judges
<1>3. c \notin counted[n]
  BY <1>2 DEF Unjudged
<1>4. QED
  BY <1>1, <1>2, <1>3, CountsGrow

LEMMA ResolveCounts ==
    ASSUME SessionTypes, CallsDo, CountsAreOwn, NEW c \in Call, NEW n \in Call, Resolve(c, n)
    PROVE  CountsAreOwn'
<1>1. PICK o \in Outcomes(c, n) \ {None} :
        /\ outcomes' = [outcomes EXCEPT ![n] = @ \cup {<<c, o>>}]
        /\ counted' = IF o = "ignored" THEN [counted EXCEPT ![n] = @ \cup {c}] ELSE counted
  BY DEF Resolve
<1>2. pc[c] = "resolve" /\ todo[c][n] # None /\ UNCHANGED <<what, pending>>
  BY DEF Resolve
<1>3. pc'[c] = "drop" /\ \A d \in Call \ {c} : pc'[d] = pc[d]
  BY DEF Resolve, Goto, SessionTypes, SessionTypeOK
<1>4. /\ todo'[c][n] = MaxActions /\ \A m \in Call \ {n} : todo'[c][m] = todo[c][m]
      /\ \A d \in Call \ {c} : todo'[d] = todo[d]
  BY DEF Resolve, SessionTypes, SessionTypeOK
<1>5. /\ outcomes'[n] = outcomes[n] \cup {<<c, o>>}
      /\ \A m \in Call \ {n} : outcomes'[m] = outcomes[m] /\ counted'[m] = counted[m]
      /\ counted'[n] = IF o = "ignored" THEN counted[n] \cup {c} ELSE counted[n]
  BY <1>1 DEF SessionTypes, SessionTypeOK
<1>6. /\ Counts(n) /\ Unjudged(c, n) /\ todo[c][n] \in 0..MaxActions
      /\ pc[n] # "idle" /\ what[n].do = "raw"
      /\ Cardinality(counted[n] \cup {c}) = Cardinality(counted[n]) + 1
      /\ Cardinality(counted[n]) \in Nat
  BY <1>2, Judging
<1>7. o = "ignored" => what[c].tool # what[n].tool /\ todo[c][n] + 1 >= MaxActions
  BY <1>1 DEF Outcomes
<1>8. MaxActions \in Nat /\ MaxActions # None
  BY HooksAssumption, NoneAssumption
<1>9. Cardinality(counted'[n]) \in Nat /\ Cardinality(counted'[n]) >= Cardinality(counted[n])
  BY <1>5, <1>6
<1>10. \A d \in Call \ {c}, m \in Call : Judges(d, m)' <=> Judges(d, m)
  <2>1. SUFFICES ASSUME NEW d \in Call \ {c}, NEW m \in Call PROVE Judges(d, m)' <=> Judges(d, m)
    OBVIOUS
  <2>2. CASE m = n
    BY <1>3, <1>4, <1>5, <2>2 DEF Judges
  <2>3. CASE m # n
    BY <1>3, <1>4, <1>5, <2>3 DEF Judges
  <2>4. QED
    BY <2>2, <2>3
<1>11. \A d \in Call, m \in Call \ {n} : Unjudged(d, m) => Unjudged(d, m)'
  BY <1>4, <1>5 DEF Unjudged
<1>12. \A d \in Call \ {c} : todo[d][n] # None /\ Unjudged(d, n) => Unjudged(d, n)'
  <2>1. SUFFICES ASSUME NEW d \in Call \ {c}, todo[d][n] # None, Unjudged(d, n) PROVE Unjudged(d, n)'
    OBVIOUS
  <2>2. todo[d][n] \in Nat /\ todo'[d][n] = todo[d][n]
    BY <1>4, <2>1, HooksAssumption DEF SessionTypes, SessionTypeOK, Actions
  <2>3. QED
    BY <1>5, <1>6, <1>9, <2>1, <2>2 DEF Unjudged
<1>13. Judges(c, n)' /\ \A m \in Call \ {n} : ~Judges(c, m)'
  <2>1. Judges(c, n)'
    <3>1. <<c, o>> \in outcomes'[n] /\ <<c, o>>[1] = c
      BY <1>5
    <3>2. QED
      BY <1>3, <1>4, <1>8, <3>1 DEF Judges
  <2>2. ASSUME NEW m \in Call \ {n}, Judges(c, m)' PROVE FALSE
    <3>1. todo[c][m] # None /\ \E e \in outcomes[m] : e[1] = c
      BY <1>4, <1>5, <2>2 DEF Judges
    <3>2. Unjudged(c, m)
      BY <1>2, <3>1, Judging
    <3>3. QED
      BY <3>1, <3>2 DEF Unjudged
  <2>3. QED
    BY <2>1, <2>2
<1>14. ASSUME NEW m \in Call, m # n PROVE Counts(m)'
  <2>1. Counts(m) /\ counted[m] \subseteq Call /\ \A e \in outcomes[m] : e[1] \in Call
    BY DEF CountsAreOwn, SessionTypes, SessionTypeOK
  <2>2. todo[c][m] # None => Unjudged(c, m)'
    BY <1>2, <1>11, <1>14, Judging
  <2>3. QED
    BY <1>2, <1>3, <1>4, <1>5, <1>10, <1>11, <1>14, <2>1, <2>2 DEF Counts
<1>15. Counts(n)'
  <2>1. counted[n] \subseteq Call /\ \A e \in outcomes[n] : e[1] \in Call
    BY DEF SessionTypes, SessionTypeOK
  <2>2. pc'[n] # "idle" /\ what'[n].do = "raw"
    BY <1>2, <1>3, <1>6
  <2>3. pending'[n] # None => pending'[n] <= Cardinality(counted'[n])
    <3>1. pending[n] # None => pending[n] \in Nat
      BY HooksAssumption DEF SessionTypes, SessionTypeOK, Actions
    <3>2. QED
      BY <1>2, <1>6, <1>9, <3>1 DEF Counts
  <2>4. \A d \in counted'[n] : pc'[d] \in {"resolve", "drop", "done"} /\ what'[d].tool # what'[n].tool
    BY <1>2, <1>3, <1>5, <1>6, <1>7, <2>1 DEF Counts
  <2>5. \A e \in outcomes'[n] : /\ pc'[e[1]] \in {"resolve", "drop", "done"}
                                /\ e[2] = "ignored" => Cardinality(counted'[n]) >= MaxActions
    <3>1. ASSUME NEW e \in outcomes[n]
          PROVE  /\ pc'[e[1]] \in {"resolve", "drop", "done"}
                 /\ e[2] = "ignored" => Cardinality(counted'[n]) >= MaxActions
      BY <1>3, <1>6, <1>8, <1>9, <2>1 DEF Counts
    <3>2. o = "ignored" => Cardinality(counted'[n]) >= MaxActions
      BY <1>5, <1>6, <1>7, <1>8 DEF Unjudged
    <3>3. <<c, o>>[1] = c /\ <<c, o>>[2] = o
      OBVIOUS
    <3>4. QED
      BY <1>3, <1>5, <3>1, <3>2, <3>3
  <2>6. ASSUME NEW d \in Call, todo'[d][n] # None
        PROVE  /\ pc'[d] \in {"resolve", "drop"}
               /\ Unjudged(d, n)' \/ Judges(d, n)'
    <3>1. CASE d = c
      BY <1>3, <1>13, <3>1
    <3>2. CASE d # c
      BY <1>3, <1>4, <1>6, <1>10, <1>12, <2>6, <3>2 DEF Counts
    <3>3. QED
      BY <3>1, <3>2
  <2>7. QED
    BY <2>2, <2>3, <2>4, <2>5, <2>6 DEF Counts
<1>16. \A d, k, m \in Call : Judges(d, k)' /\ Judges(d, m)' => k = m
  BY <1>10, <1>13 DEF CountsAreOwn
<1>17. QED
  BY <1>14, <1>15, <1>16 DEF CountsAreOwn

LEMMA DropCounts ==
    ASSUME SessionTypes, CallsDo, CountsAreOwn, NEW c \in Call, Drop(c)
    PROVE  CountsAreOwn'
<1>1. PICK n \in Call : /\ pc[c] = "drop" /\ (\E o \in outcomes[n] : o[1] = c)
                        /\ todo[c][n] # None
                        /\ pending' = [pending EXCEPT ![n] = None]
                        /\ Judged(c, n)
  BY DEF Drop
<1>2. UNCHANGED <<begun, what, outcomes, counted>>
  BY DEF Drop, sessionHistory
<1>3. /\ pc'[c] \in {"resolve", "done"} /\ \A d \in Call \ {c} : pc'[d] = pc[d]
      /\ \A d, m \in Call : todo'[d][m] = IF d = c /\ m = n THEN None ELSE todo[d][m]
  BY <1>1, <1>2, JudgedTypes
<1>4. \A m \in Call : todo'[c][m] # None => pc'[c] = "resolve"
  <2>1. (\A m \in Call \ {n} : todo[c][m] = None) \/ Goto(c, "resolve")
    BY <1>1 DEF Judged
  <2>2. Goto(c, "resolve") => pc'[c] = "resolve"
    BY DEF Goto, SessionTypes, SessionTypeOK
  <2>3. QED
    BY <1>3, <2>1, <2>2
<1>5. Judges(c, n)
  BY <1>1 DEF Judges
<1>6. \A m \in Call : ~Judges(c, m)'
  BY <1>3 DEF Judges
<1>7. \A d \in Call \ {c}, m \in Call : Judges(d, m)' <=> Judges(d, m)
  BY <1>2, <1>3 DEF Judges
<1>8. \A d, m \in Call : todo'[d][m] # None /\ Unjudged(d, m) => Unjudged(d, m)'
  BY <1>2, <1>3 DEF Unjudged
<1>9. \A m \in Call : pending'[m] # None => pending'[m] = pending[m]
  BY <1>1 DEF SessionTypes, SessionTypeOK
<1>10. ASSUME NEW m \in Call PROVE Counts(m)'
  <2>1. Counts(m) /\ counted[m] \subseteq Call /\ \A e \in outcomes[m] : e[1] \in Call
    BY DEF CountsAreOwn, SessionTypes, SessionTypeOK
  <2>2. /\ counted'[m] # {} \/ pending'[m] # None => pc'[m] # "idle" /\ what'[m].do = "raw"
        /\ pending'[m] # None => pending'[m] <= Cardinality(counted'[m])
    BY <1>2, <1>3, <1>9, <2>1 DEF Counts
  <2>3. \A d \in counted'[m] : pc'[d] \in {"resolve", "drop", "done"} /\ what'[d].tool # what'[m].tool
    BY <1>2, <1>3, <2>1 DEF Counts
  <2>4. \A e \in outcomes'[m] : /\ pc'[e[1]] \in {"resolve", "drop", "done"}
                                /\ e[2] = "ignored" => Cardinality(counted'[m]) >= MaxActions
    BY <1>2, <1>3, <2>1 DEF Counts
  <2>5. ASSUME NEW d \in Call, todo'[d][m] # None
        PROVE  /\ pc'[d] \in {"resolve", "drop"} /\ pc'[m] # "idle" /\ what'[m].do = "raw"
               /\ Unjudged(d, m)' \/ Judges(d, m)'
    <3>1. /\ todo[d][m] # None /\ pc[d] \in {"resolve", "drop"} /\ pc[m] # "idle"
          /\ what[m].do = "raw" /\ (Unjudged(d, m) \/ Judges(d, m))
      BY <1>3, <2>1, <2>5 DEF Counts
    <3>2. pc'[m] # "idle" /\ what'[m].do = "raw" /\ pc'[d] \in {"resolve", "drop"}
      BY <1>2, <1>3, <1>4, <2>5, <3>1
    <3>3. CASE d = c
      <4>1. m # n
        BY <1>3, <2>5, <3>3
      <4>2. ~Judges(c, m)
        BY <1>5, <4>1 DEF CountsAreOwn
      <4>3. QED
        BY <1>8, <2>5, <3>1, <3>2, <3>3, <4>2
    <3>4. CASE d # c
      BY <1>7, <1>8, <2>5, <3>1, <3>2, <3>4
    <3>5. QED
      BY <3>3, <3>4
  <2>6. QED
    BY <2>2, <2>3, <2>4, <2>5 DEF Counts
<1>11. \A d, k, m \in Call : Judges(d, k)' /\ Judges(d, m)' => k = m
  BY <1>6, <1>7 DEF CountsAreOwn
<1>12. QED
  BY <1>10, <1>11 DEF CountsAreOwn

LEMMA UpdateCounts ==
    ASSUME SessionTypes, CallsDo, CountsAreOwn, NEW c \in Call, NEW n \in Call, Update(c, n)
    PROVE  CountsAreOwn'
<1>1. /\ pc[c] = "resolve" /\ todo[c][n] # None /\ None \in Outcomes(c, n) /\ Judged(c, n)
      /\ UNCHANGED <<begun, what, outcomes>>
  BY DEF Update
<1>2. /\ pending'[n] = todo[c][n] + 1 /\ counted'[n] = counted[n] \cup {c}
      /\ \A m \in Call \ {n} : pending'[m] = pending[m] /\ counted'[m] = counted[m]
  BY DEF Update, SessionTypes, SessionTypeOK
<1>3. /\ pc'[c] \in {"resolve", "done"} /\ \A d \in Call \ {c} : pc'[d] = pc[d]
      /\ \A d, m \in Call : todo'[d][m] = IF d = c /\ m = n THEN None ELSE todo[d][m]
  BY <1>1, JudgedTypes
<1>4. \A m \in Call : todo'[c][m] # None => pc'[c] = "resolve"
  <2>1. (\A m \in Call \ {n} : todo[c][m] = None) \/ Goto(c, "resolve")
    BY <1>1 DEF Judged
  <2>2. Goto(c, "resolve") => pc'[c] = "resolve"
    BY DEF Goto, SessionTypes, SessionTypeOK
  <2>3. QED
    BY <1>3, <2>1, <2>2
<1>5. /\ Counts(n) /\ Unjudged(c, n) /\ todo[c][n] \in 0..MaxActions
      /\ pc[n] # "idle" /\ what[n].do = "raw"
      /\ Cardinality(counted[n] \cup {c}) = Cardinality(counted[n]) + 1
      /\ Cardinality(counted[n]) \in Nat
  BY <1>1, Judging
<1>6. what[c].tool # what[n].tool
  BY <1>1, NoneAssumption DEF Outcomes
<1>7. MaxActions \in Nat
  BY HooksAssumption
<1>8. \A d, m \in Call : Judges(d, m)' <=> Judges(d, m) /\ d # c
  BY <1>1, <1>3 DEF Judges
<1>9. \A d \in Call, m \in Call : todo'[d][m] # None /\ Unjudged(d, m) => Unjudged(d, m)'
  <2>1. SUFFICES ASSUME NEW d \in Call, NEW m \in Call, todo'[d][m] # None, Unjudged(d, m)
                 PROVE  Unjudged(d, m)'
    OBVIOUS
  <2>2. CASE m # n
    BY <1>1, <1>2, <1>3, <2>1, <2>2 DEF Unjudged
  <2>3. CASE m = n
    <3>1. d # c /\ todo'[d][n] = todo[d][n] /\ todo[d][n] \in Nat
      BY <1>3, <2>1, <2>3, HooksAssumption DEF SessionTypes, SessionTypeOK, Actions
    <3>2. Unjudged(d, n)
      BY <2>1, <2>3
    <3>3. d \notin counted'[n] /\ (\A o \in outcomes'[n] : o[1] # d)
      BY <1>1, <1>2, <3>1, <3>2 DEF Unjudged
    <3>4. Cardinality(counted'[n]) = Cardinality(counted[n]) + 1
      BY <1>2, <1>5
    <3>5. todo'[d][n] <= Cardinality(counted'[n])
      BY <1>5, <3>1, <3>2, <3>4 DEF Unjudged
    <3>6. QED
      BY <2>3, <3>3, <3>5 DEF Unjudged
  <2>4. QED
    BY <2>2, <2>3
<1>10. ASSUME NEW m \in Call
       PROVE  \A d \in Call : todo'[d][m] # None =>
                /\ pc'[d] \in {"resolve", "drop"} /\ pc'[m] # "idle" /\ what'[m].do = "raw"
                /\ Unjudged(d, m)' \/ Judges(d, m)'
  <2>1. SUFFICES ASSUME NEW d \in Call, todo'[d][m] # None
                 PROVE  /\ pc'[d] \in {"resolve", "drop"} /\ pc'[m] # "idle" /\ what'[m].do = "raw"
                        /\ Unjudged(d, m)' \/ Judges(d, m)'
    OBVIOUS
  <2>2. /\ todo[d][m] # None /\ pc[d] \in {"resolve", "drop"} /\ pc[m] # "idle"
        /\ what[m].do = "raw" /\ (Unjudged(d, m) \/ Judges(d, m))
    BY <1>3, <2>1 DEF Counts, CountsAreOwn
  <2>3. d = c => ~Judges(d, m)
    BY <1>1 DEF Judges
  <2>4. QED
    BY <1>1, <1>3, <1>4, <1>8, <1>9, <2>1, <2>2, <2>3
<1>11. ASSUME NEW m \in Call, m # n PROVE Counts(m)'
  <2>1. Counts(m) /\ counted[m] \subseteq Call /\ \A e \in outcomes[m] : e[1] \in Call
    BY DEF CountsAreOwn, SessionTypes, SessionTypeOK
  <2>2. QED
    BY <1>1, <1>2, <1>3, <1>10, <1>11, <2>1 DEF Counts
<1>12. Counts(n)'
  <2>1. counted[n] \subseteq Call /\ \A e \in outcomes[n] : e[1] \in Call
    BY DEF SessionTypes, SessionTypeOK
  <2>2. pc'[n] # "idle" /\ what'[n].do = "raw"
    BY <1>1, <1>3, <1>5
  <2>3. pending'[n] <= Cardinality(counted'[n])
    BY <1>2, <1>5 DEF Unjudged
  <2>4. \A d \in counted'[n] : pc'[d] \in {"resolve", "drop", "done"} /\ what'[d].tool # what'[n].tool
    BY <1>1, <1>2, <1>3, <1>5, <1>6, <2>1 DEF Counts
  <2>5. \A e \in outcomes'[n] : /\ pc'[e[1]] \in {"resolve", "drop", "done"}
                                /\ e[2] = "ignored" => Cardinality(counted'[n]) >= MaxActions
    BY <1>1, <1>2, <1>3, <1>5, <1>7, <2>1 DEF Counts
  <2>6. QED
    BY <1>10, <2>2, <2>3, <2>4, <2>5 DEF Counts
<1>13. \A d, k, m \in Call : Judges(d, k)' /\ Judges(d, m)' => k = m
  BY <1>8 DEF CountsAreOwn
<1>14. QED
  BY <1>11, <1>12, <1>13 DEF CountsAreOwn

LEMMA CutOffCounts ==
    ASSUME SessionTypes, CallsDo, CountsAreOwn, NEW c \in Call, CutOff(c)
    PROVE  CountsAreOwn'
<1>1. /\ pc'[c] = "done" /\ \A d \in Call \ {c} : pc'[d] = pc[d]
      /\ UNCHANGED <<what, pending, outcomes, counted>>
  BY DEF CutOff, Goto, SessionTypes, SessionTypeOK
<1>2. /\ \A n \in Call : todo'[c][n] = None
      /\ \A d \in Call \ {c} : todo'[d] = todo[d]
  BY DEF CutOff, SessionTypes, SessionTypeOK
<1>3. \A d, n \in Call : Judges(d, n)' <=> Judges(d, n) /\ d # c
  BY <1>1, <1>2 DEF Judges
<1>4. \A d \in Call \ {c}, n \in Call : Unjudged(d, n)' <=> Unjudged(d, n)
  BY <1>1, <1>2 DEF Unjudged
<1>5. ASSUME NEW n \in Call PROVE Counts(n)'
  <2>1. Counts(n) /\ counted[n] \subseteq Call /\ \A o \in outcomes[n] : o[1] \in Call
    BY DEF CountsAreOwn, SessionTypes, SessionTypeOK
  <2>2. \A d \in Call : todo'[d][n] # None => d # c /\ todo[d][n] # None
    BY <1>2
  <2>3. QED
    BY <1>1, <1>3, <1>4, <2>1, <2>2 DEF Counts
<1>6. QED
  BY <1>3, <1>5 DEF CountsAreOwn

LEMMA CountsStep ==
    ASSUME SessionTypes, CallsDo, CountsAreOwn, [SessionNext]_sessionVars
    PROVE  CountsAreOwn'
<1>1. ASSUME NEW c \in Call, NEW w \in Commands, Touch(c, w) \/ StopRead(c, w)
      PROVE  CountsAreOwn'
  <2>1. PICK l \in {"check", "truncate"} : Begin(c, w, l) /\ (l = "check" => w.do = "edit")
    BY <1>1 DEF Touch, StopRead
  <2>2. /\ pc[c] = "idle" /\ pc'[c] = l
        /\ \A d \in Call \ {c} : pc'[d] = pc[d] /\ what'[d] = what[d]
    BY <2>1, Begins
  <2>3. UNCHANGED <<pending, todo, outcomes, counted>>
    BY <1>1 DEF Touch, StopRead, pendingVars, sessionHistory
  <2>4. QED
    BY <2>2, <2>3, NothingIsJudged
<1>2. ASSUME NEW c \in Call, NEW l, pc[c] \notin {"idle", "resolve", "drop", "done"}, Goto(c, l),
             l \notin {"idle", "resolve", "drop"}, UNCHANGED <<what, pending, todo, outcomes, counted>>
      PROVE  CountsAreOwn'
  <2>1. pc'[c] = l /\ \A d \in Call \ {c} : pc'[d] = pc[d]
    BY <1>2 DEF Goto, SessionTypes, SessionTypeOK
  <2>2. QED
    BY <1>2, <2>1, NothingIsJudged
<1>3. ASSUME NEW c \in Call, Open(c) \/ Write(c) \/ Replace(c)
      PROVE  CountsAreOwn'
  <2>1. PICK l \in {"write", "replace", "call", "done"} : Goto(c, l)
    BY <1>3 DEF Open, Write, Replace
  <2>2. pc[c] \in {"open", "write", "replace"} /\ UNCHANGED <<what, pending, todo, outcomes, counted>>
    BY <1>3 DEF Open, Write, Replace, pendingVars, sessionHistory
  <2>3. QED
    BY <1>2, <2>1, <2>2
<1>4. ASSUME NEW c \in Call, Check(c) \/ Note(c) \/ StopTruncate(c) \/ StopReport(c)
      PROVE  CountsAreOwn'
  <2>1. PICK l \in {"claim", "report", "done"} : Goto(c, l)
    BY <1>4 DEF Check, Note, StopTruncate, StopReport
  <2>2. /\ pc[c] \in {"check", "claim", "truncate", "report"}
        /\ UNCHANGED <<what, pending, todo, outcomes, counted>>
    BY <1>4 DEF Check, Note, StopTruncate, StopReport, pendingVars, sessionHistory
  <2>3. QED
    BY <1>2, <2>1, <2>2
<1>5. ASSUME Rest \/ (\E f \in old : Sweep(f)) \/ UNCHANGED sessionVars PROVE CountsAreOwn'
  <2>1. UNCHANGED <<pc, what, pending, todo, outcomes, counted>>
    BY <1>5 DEF Rest, Sweep, sessionVars, pendingVars, sessionHistory
  <2>2. QED
    BY <2>1, NothingIsJudged
<1>6. QED
  BY <1>1, <1>3, <1>4, <1>5, PreToolCounts, LoadPendingCounts, ResolveCounts, DropCounts,
     UpdateCounts, CutOffCounts DEF SessionNext

-----------------------------------------------------------------------------
(* The edits and the files.                                                *)

\* A step that leaves the ledger and the Stops alone.
LEMMA StopsAreLeft ==
    ASSUME EditsAreKept, UNCHANGED <<touched, ledger, entries>>, SessionTypes,
           \A c \in Call : pc'[c] \in {"truncate", "report"} => pc'[c] = pc[c],
           \A c \in Call : pc[c] = "report" => pc'[c] = "report",
           reported \subseteq reported', excused \subseteq excused'
    PROVE  EditsAreKept'
<1>1. InReports \subseteq InReports'
  BY DEF InReports
<1>2. QED
  BY <1>1 DEF EditsAreKept

LEMMA EditsStep ==
    ASSUME SessionTypes, CallsDo, EditsAreKept, [SessionNext]_sessionVars
    PROVE  EditsAreKept'
<1>1. ASSUME NEW c \in Call, NEW w \in Commands, PreTool(c, w) PROVE EditsAreKept'
  <2>1. PICK l \in {"done", "open"} : Begin(c, w, l) /\ (l = "open" => w.do \in {"raw", "tool", "other"})
    BY <1>1 DEF PreTool
  <2>2. pc[c] = "idle" /\ pc'[c] = l /\ \A d \in Call \ {c} : pc'[d] = pc[d]
    BY <2>1, Begins
  <2>3. UNCHANGED <<touched, ledger, entries, reported, excused>>
    BY <1>1 DEF PreTool, ledgerVars
  <2>4. QED
    BY <2>2, <2>3, StopsAreLeft
<1>2. ASSUME NEW c \in Call, NEW w \in Commands, Touch(c, w) PROVE EditsAreKept'
  <2>1. pc[c] = "idle" /\ pc'[c] = "check" /\ \A d \in Call \ {c} : pc'[d] = pc[d]
    BY <1>2, Begins DEF Touch
  <2>2. /\ ledger' = (IF "ledger" \in old THEN {} ELSE ledger) \cup {c}
        /\ excused' = excused \cup (IF "ledger" \in old THEN ledger ELSE {})
                              \cup (IF Stopping # {} THEN {c} ELSE {})
        /\ touched' = touched \cup {c} /\ UNCHANGED <<entries, reported>>
    BY <1>2 DEF Touch
  <2>3. InReports' = InReports
    BY <2>1, <2>2 DEF InReports
  <2>4. ASSUME NEW d \in Call, pc'[d] = "truncate" PROVE ledger' \subseteq entries'[d] \cup excused'
    <3>1. pc[d] = "truncate" /\ c \in excused'
      BY <2>1, <2>2, <2>4 DEF Stopping
    <3>2. QED
      BY <2>2, <3>1 DEF EditsAreKept
  <2>5. touched' \subseteq excused' \cup ledger' \cup reported' \cup InReports'
    BY <2>2, <2>3 DEF EditsAreKept
  <2>6. QED
    BY <2>4, <2>5 DEF EditsAreKept
<1>3. ASSUME NEW c \in Call, NEW w \in Commands, StopRead(c, w) PROVE EditsAreKept'
  <2>1. pc[c] = "idle" /\ pc'[c] = "truncate" /\ \A d \in Call \ {c} : pc'[d] = pc[d]
    BY <1>3, Begins DEF StopRead
  <2>2. /\ entries'[c] = ledger /\ \A d \in Call \ {c} : entries'[d] = entries[d]
        /\ UNCHANGED <<touched, ledger, reported, excused>>
    BY <1>3 DEF StopRead, sessionHistory, SessionTypes, SessionTypeOK
  <2>3. InReports \subseteq InReports'
    BY <2>1, <2>2 DEF InReports
  <2>4. QED
    BY <2>1, <2>2, <2>3 DEF EditsAreKept
<1>4. ASSUME NEW c \in Call, NEW l, Goto(c, l), pc[c] \notin {"truncate", "report"},
             l \notin {"truncate", "report"}, UNCHANGED <<touched, ledger, entries, reported, excused>>
      PROVE  EditsAreKept'
  <2>1. pc'[c] = l /\ \A d \in Call \ {c} : pc'[d] = pc[d]
    BY <1>4 DEF Goto, SessionTypes, SessionTypeOK
  <2>2. QED
    BY <1>4, <2>1, StopsAreLeft
<1>5. ASSUME NEW c \in Call, Open(c) \/ Write(c) \/ Replace(c) \/ Check(c) \/ Note(c) PROVE EditsAreKept'
  <2>1. PICK l \in {"write", "replace", "call", "claim", "done"} : Goto(c, l)
    BY <1>5 DEF Open, Write, Replace, Check, Note
  <2>2. /\ pc[c] \in {"open", "write", "replace", "check", "claim"}
        /\ UNCHANGED <<touched, ledger, entries, reported, excused>>
    BY <1>5 DEF Open, Write, Replace, Check, Note, ledgerVars, sessionHistory
  <2>3. QED
    BY <1>4, <2>1, <2>2
<1>6. ASSUME NEW c \in Call, LoadPending(c) \/ Drop(c) PROVE EditsAreKept'
  <2>1. PICK l \in {"resolve", "done"} : Goto(c, l)
    BY <1>6 DEF LoadPending, Drop, Judged
  <2>2. pc[c] \in {"call", "drop"} /\ UNCHANGED <<touched, ledger, entries, reported, excused>>
    BY <1>6 DEF LoadPending, Drop, ledgerVars, sessionHistory
  <2>3. QED
    BY <1>4, <2>1, <2>2
<1>7. ASSUME NEW c \in Call, NEW n \in Call, Resolve(c, n) \/ Update(c, n) PROVE EditsAreKept'
  <2>1. PICK l \in {"resolve", "drop", "done"} : Goto(c, l)
    BY <1>7 DEF Resolve, Update, Judged
  <2>2. pc[c] = "resolve" /\ UNCHANGED <<touched, ledger, entries, reported, excused>>
    BY <1>7 DEF Resolve, Update, ledgerVars
  <2>3. QED
    BY <1>4, <2>1, <2>2
<1>8. ASSUME NEW c \in Call, StopTruncate(c) PROVE EditsAreKept'
  <2>1. /\ pc[c] = "truncate" /\ pc'[c] = "report" /\ \A d \in Call \ {c} : pc'[d] = pc[d]
        /\ ledger' = {} /\ UNCHANGED <<touched, entries, reported, excused>>
    BY <1>8 DEF StopTruncate, Goto, sessionHistory, SessionTypes, SessionTypeOK
  <2>2. InReports' = InReports \cup entries[c]
    BY <2>1 DEF InReports
  <2>3. ledger \subseteq entries[c] \cup excused
    BY <2>1 DEF EditsAreKept
  <2>4. QED
    BY <2>1, <2>2, <2>3 DEF EditsAreKept
<1>9. ASSUME NEW c \in Call, StopReport(c) PROVE EditsAreKept'
  <2>1. /\ pc[c] = "report" /\ pc'[c] = "done" /\ \A d \in Call \ {c} : pc'[d] = pc[d]
        /\ entries' = [entries EXCEPT ![c] = {}] /\ UNCHANGED <<touched, ledger>>
    BY <1>9 DEF StopReport, Goto, SessionTypes, SessionTypeOK
  <2>2. reported \subseteq reported' /\ excused \subseteq excused'
        /\ entries[c] \subseteq reported' \cup excused'
    BY <1>9 DEF StopReport
  <2>3. \A d \in Call \ {c} : entries'[d] = entries[d]
    BY <2>1 DEF SessionTypes, SessionTypeOK
  <2>4. InReports \subseteq InReports' \cup entries[c]
    BY <2>1, <2>3 DEF InReports
  <2>5. QED
    BY <2>1, <2>2, <2>3, <2>4 DEF EditsAreKept
<1>10. ASSUME NEW c \in Call, CutOff(c) PROVE EditsAreKept'
  <2>1. /\ pc'[c] = "done" /\ \A d \in Call \ {c} : pc'[d] = pc[d]
        /\ \A d \in Call \ {c} : entries'[d] = entries[d]
        /\ excused' = excused \cup (IF pc[c] = "report" THEN entries[c] ELSE {})
        /\ UNCHANGED <<touched, ledger, reported>>
    BY <1>10 DEF CutOff, Goto, SessionTypes, SessionTypeOK
  <2>2. InReports \subseteq InReports' \cup excused'
    BY <2>1 DEF InReports
  <2>3. QED
    BY <2>1, <2>2 DEF EditsAreKept
<1>11. ASSUME Rest \/ UNCHANGED sessionVars PROVE EditsAreKept'
  BY <1>11, StopsAreLeft DEF Rest, sessionVars, ledgerVars, sessionHistory
<1>12. ASSUME NEW f \in old, Sweep(f) PROVE EditsAreKept'
  <2>1. f \in {"nudges", "ledger", "spoken"} /\ UNCHANGED <<pc, touched, entries, reported>>
    BY <1>12 DEF Sweep, SessionTypes, SessionTypeOK
  <2>2. InReports' = InReports
    BY <2>1 DEF InReports
  <2>3. CASE f = "ledger"
    BY <1>12, <2>1, <2>2, <2>3 DEF Sweep, EditsAreKept
  <2>4. CASE f # "ledger"
    BY <1>12, <2>1, <2>4, StopsAreLeft DEF Sweep
  <2>5. QED
    BY <2>3, <2>4
<1>13. QED
  BY <1>1, <1>2, <1>3, <1>5, <1>6, <1>7, <1>8, <1>9, <1>10, <1>11, <1>12 DEF SessionNext

\* A step that leaves the files spoken of alone.
LEMMA NothingIsSpoken ==
    ASSUME FilesAreNoted, UNCHANGED <<told, spoken, raced>>,
           \A c \in Call : pc'[c] = "claim" => pc[c] = "claim" /\ what'[c] = what[c]
    PROVE  FilesAreNoted'
<1>1. \A c \in Call, f \in File : SpeaksFor(c, f)' => SpeaksFor(c, f)
  BY DEF SpeaksFor
<1>2. QED
  BY <1>1 DEF FilesAreNoted

LEMMA FilesStep ==
    ASSUME SessionTypes, CallsDo, FilesAreNoted, [SessionNext]_sessionVars
    PROVE  FilesAreNoted'
<1>1. ASSUME NEW c \in Call, NEW w \in Commands, PreTool(c, w) \/ Touch(c, w) \/ StopRead(c, w)
      PROVE  FilesAreNoted'
  <2>1. PICK l \in {"done", "open", "check", "truncate"} :
           /\ Begin(c, w, l) /\ (l = "open" => w.do \in {"raw", "tool", "other"})
           /\ l = "check" => w.do = "edit"
    BY <1>1 DEF PreTool, Touch, StopRead
  <2>2. pc'[c] = l /\ \A d \in Call \ {c} : pc'[d] = pc[d] /\ what'[d] = what[d]
    BY <2>1, Begins
  <2>3. UNCHANGED <<told, spoken, raced>>
    BY <1>1 DEF PreTool, Touch, StopRead, ledgerVars, sessionHistory
  <2>4. QED
    BY <2>2, <2>3, NothingIsSpoken
<1>2. ASSUME NEW c \in Call, NEW l, Goto(c, l), l # "claim", UNCHANGED <<what, told, spoken, raced>>
      PROVE  FilesAreNoted'
  <2>1. pc'[c] = l /\ \A d \in Call \ {c} : pc'[d] = pc[d]
    BY <1>2 DEF Goto, SessionTypes, SessionTypeOK
  <2>2. QED
    BY <1>2, <2>1, NothingIsSpoken
<1>3. ASSUME NEW c \in Call, Open(c) \/ Write(c) \/ Replace(c) \/ StopTruncate(c) \/ StopReport(c) \/ CutOff(c)
      PROVE  FilesAreNoted'
  <2>1. PICK l \in {"write", "replace", "call", "report", "done"} : Goto(c, l)
    BY <1>3 DEF Open, Write, Replace, StopTruncate, StopReport, CutOff
  <2>2. UNCHANGED <<what, told, spoken, raced>>
    BY <1>3 DEF Open, Write, Replace, StopTruncate, StopReport, CutOff, ledgerVars, sessionHistory
  <2>3. QED
    BY <1>2, <2>1, <2>2
<1>4. ASSUME NEW c \in Call, LoadPending(c) \/ Drop(c) PROVE FilesAreNoted'
  <2>1. PICK l \in {"resolve", "done"} : Goto(c, l)
    BY <1>4 DEF LoadPending, Drop, Judged
  <2>2. QED
    BY <1>2, <1>4, <2>1 DEF LoadPending, Drop, ledgerVars, sessionHistory
<1>5. ASSUME NEW c \in Call, NEW n \in Call, Resolve(c, n) \/ Update(c, n) PROVE FilesAreNoted'
  <2>1. PICK l \in {"resolve", "drop", "done"} : Goto(c, l)
    BY <1>5 DEF Resolve, Update, Judged
  <2>2. QED
    BY <1>2, <1>5, <2>1 DEF Resolve, Update, ledgerVars
<1>6. ASSUME NEW c \in Call, Check(c) PROVE FilesAreNoted'
  <2> DEFINE f == what[c].file
  <2>1. /\ pc[c] = "check" /\ UNCHANGED <<what, told, spoken>>
        /\ pc'[c] = (IF f \in spoken THEN "done" ELSE "claim")
        /\ \A d \in Call \ {c} : pc'[d] = pc[d]
        /\ raced' = IF \E d \in Call : SpeaksFor(d, f) THEN raced \cup {f} ELSE raced
    BY <1>6 DEF Check, Goto, SessionTypes, SessionTypeOK, ledgerVars, SpeaksFor
  <2>2. \A d \in Call \ {c} : \A g : SpeaksFor(d, g)' <=> SpeaksFor(d, g)
    BY <2>1 DEF SpeaksFor
  <2>3. \A g : SpeaksFor(c, g)' => g = f /\ f \notin spoken
    BY <2>1 DEF SpeaksFor
  <2>4. QED
    BY <2>1, <2>2, <2>3 DEF FilesAreNoted
<1>7. ASSUME NEW c \in Call, Note(c) PROVE FilesAreNoted'
  <2> DEFINE f == what[c].file
  <2>1. /\ pc[c] = "claim" /\ UNCHANGED <<what, raced>> /\ spoken' = spoken \cup {f}
        /\ pc'[c] = "done" /\ \A d \in Call \ {c} : pc'[d] = pc[d]
        /\ told' = [told EXCEPT ![f] = @ + 1]
    BY <1>7 DEF Note, Goto, SessionTypes, SessionTypeOK
  <2>2. \A d \in Call : \A g : SpeaksFor(d, g)' <=> d # c /\ SpeaksFor(d, g)
    BY <2>1 DEF SpeaksFor
  <2>3. SpeaksFor(c, f)
    BY <2>1 DEF SpeaksFor
  <2>4. \A g \in File : told'[g] = IF g = f THEN told[g] + 1 ELSE told[g]
    BY <2>1 DEF SessionTypes
  <2>5. f \in File \ raced => told[f] = 0 /\ \A d \in Call : SpeaksFor(d, f) => d = c
    BY <2>3 DEF FilesAreNoted
  <2>6. QED
    BY <2>1, <2>2, <2>4, <2>5 DEF FilesAreNoted
<1>8. ASSUME Rest \/ UNCHANGED sessionVars PROVE FilesAreNoted'
  BY <1>8, NothingIsSpoken DEF Rest, sessionVars, ledgerVars, sessionHistory
<1>9. ASSUME NEW f \in old, Sweep(f) PROVE FilesAreNoted'
  <2>1. f \in {"nudges", "ledger", "spoken"} /\ UNCHANGED <<pc, what, told>>
    BY <1>9 DEF Sweep, SessionTypes, SessionTypeOK
  <2>2. CASE f = "spoken"
    <3>1. spoken' = {} /\ raced' = raced \cup spoken
      BY <1>9, <2>2 DEF Sweep
    <3>2. \A c \in Call, g \in File : SpeaksFor(c, g)' <=> SpeaksFor(c, g)
      BY <2>1 DEF SpeaksFor
    <3>3. QED
      BY <2>1, <3>1, <3>2 DEF FilesAreNoted
  <2>3. CASE f # "spoken"
    BY <1>9, <2>1, <2>3, NothingIsSpoken DEF Sweep
  <2>4. QED
    BY <2>2, <2>3
<1>10. QED
  BY <1>1, <1>3, <1>4, <1>5, <1>6, <1>7, <1>8, <1>9 DEF SessionNext

-----------------------------------------------------------------------------
(* The invariant of a session.                                             *)

LEMMA SessionStarts ==
    ASSUME SessionInit
    PROVE  SessionInv
<1>1. EmptyState \in State /\ 0 \in 0..MaxCalls /\ 0 \in 0..MaxKills
  BY HooksAssumption DEF EmptyState, State
<1>2. SessionTypes
  BY <1>1 DEF SessionInit, SessionTypes, SessionTypeOK
<1>3. CallsDo
  BY HooksAssumption DEF SessionInit, CallsDo, Doing, Holding, Call
<1>4. StateIsTrue
  <2>1. Loaded = EmptyState /\ \A c \in Call : pc[c] = "idle"
    BY DEF SessionInit, Loaded
  <2>2. \A t \in Tool : hard[t] = 0 /\ friendly[t] = 0 /\ EmptyState.counts[t] = 0
    BY DEF SessionInit, EmptyState
  <2>3. Truth(Loaded) /\ nudges # Torn
    BY <2>1, <2>2, NoneAssumption DEF Truth, SessionInit
  <2>4. ~late
    BY DEF SessionInit
  <2>5. QED
    BY <2>1, <2>2, <2>3, <2>4, HooksAssumption DEF StateIsTrue, Uncrossed, HeldIsTrue, Holding
<1>5. CountsAreOwn
  BY DEF SessionInit, CountsAreOwn, Counts, Judges
<1>6. EditsAreKept
  BY DEF SessionInit, EditsAreKept
<1>7. FilesAreNoted
  BY DEF SessionInit, FilesAreNoted, SpeaksFor
<1>8. QED
  BY <1>2, <1>3, <1>4, <1>5, <1>6, <1>7 DEF SessionInv

LEMMA SessionGoesOn ==
    ASSUME SessionInv, [SessionNext]_sessionVars
    PROVE  SessionInv'
BY TypesStep, TrueStep, CountsStep, EditsStep, FilesStep DEF SessionInv

LEMMA SessionKeeps ==
    ASSUME SessionInv
    PROVE  NudgesDegrade /\ IgnoredIsEarned /\ TouchedIsSeen /\ SpokenOnce
<1>1. NudgesDegrade
  BY Zenon DEF SessionInv, StateIsTrue, Uncrossed, NudgesDegrade
<1>2. IgnoredIsEarned
  <2>1. SUFFICES ASSUME NEW n \in Call, NEW c \in Call, <<c, "ignored">> \in outcomes[n]
                 PROVE  /\ Cardinality(counted[n]) >= MaxActions
                        /\ \A d \in counted[n] : what[d].tool # what[n].tool
    BY DEF IgnoredIsEarned
  <2>2. Counts(n)
    BY DEF SessionInv, CountsAreOwn
  <2>3. <<c, "ignored">>[2] = "ignored"
    OBVIOUS
  <2>4. QED
    BY <2>1, <2>2, <2>3 DEF Counts
<1>3. TouchedIsSeen
  <2>1. InReports \subseteq UNION {entries[c] : c \in Call}
    BY DEF InReports
  <2>2. QED
    BY <2>1 DEF SessionInv, EditsAreKept, TouchedIsSeen
<1>4. SpokenOnce
  BY DEF SessionInv, FilesAreNoted, SpokenOnce
<1>5. QED
  BY <1>1, <1>2, <1>3, <1>4

---------------------------------------------------------------------------
(* What an agent reads from coord.                                         *)

\* The news that was shown, is in hand, or is lost for a cause.
Told(s) == s \in printed \cup News!InHand \cup lost

\* What every reader at work still knows to be wanted.
WantedIsKnown ==
    /\ \A s \in wanted : log[s] \in interest
    /\ \A r \in Reader : News!At(r, "looked") => \A s \in wanted : log[s] \in read[r].interest

\* What a read has behind it was told, and what it has listed is on its list.
ReadIsSound(r) ==
    /\ read[r].pc \in {"begun", "looked", "listed", "measured"} =>
          /\ read[r].last <= News!Last
          /\ \A s \in wanted : s <= read[r].last => Told(s)
    /\ read[r].pc \in {"listed", "measured"} =>
          /\ read[r].length <= News!Last
          /\ read[r].shown \cup read[r].left \subseteq 1..read[r].length
          /\ \A s \in wanted : read[r].last < s /\ s <= read[r].length
                                  => s \in read[r].shown \cup read[r].left
    /\ read[r].pc = "marked" => read[r].shown \subseteq 1..News!Last
    /\ read[r].pc = "measured" => read[r].length <= read[r].max /\ read[r].max <= News!Last

\* While the watermark never went back, what was consumed is behind it.
ConsumedIsBehind ==
    ~rewound =>
        /\ consumed \subseteq 0..watermark
        /\ \A r \in Reader :
             /\ read[r].pc \in {"begun", "looked"} => read[r].before \subseteq 0..read[r].last
             /\ read[r].pc = "marked" => read[r].shown \subseteq 0..watermark

NewsInv == /\ News!TypeOK /\ watermark <= News!Last
           /\ WantedIsKnown /\ (\A r \in Reader : ReadIsSound(r))
           /\ News!SwallowedHasCause /\ ConsumedIsBehind

\* The journal and its numbers.
LEMMA NewsNumbers ==
    ASSUME News!TypeOK
    PROVE  /\ MaxNews \in Nat /\ News!Last \in 0..MaxNews /\ watermark \in 0..MaxNews
           /\ News!Last \in Nat /\ watermark \in Nat
           /\ \A events \in {printed, consumed, wanted, lost} : events \subseteq 1..News!Last
<1>1. MaxNews \in Nat
  BY NewsAssumption
<1>2. log \in Seq(Topic \cup {Silent}) /\ News!Last <= MaxNews /\ watermark \in 0..MaxNews
  BY DEF News!TypeOK, News!Seq0
<1>3. News!Last \in Nat
  BY <1>2 DEF News!Last
<1>4. QED
  BY <1>1, <1>2, <1>3 DEF News!TypeOK

\* What a read holds.
LEMMA ReadHolds ==
    ASSUME News!TypeOK, NEW r \in Reader
    PROVE  /\ read[r] \in News!ReadState
           /\ read[r].pc \in {"idle", "begun", "looked", "listed", "measured", "marked"}
           /\ read[r].pc \in {"begun", "looked", "listed", "measured"} => read[r].last \in 0..MaxNews
           /\ read[r].pc \in {"begun", "looked"} => read[r].before \subseteq 0..MaxNews
           /\ read[r].pc = "looked" => read[r].interest \subseteq Topic
           /\ read[r].pc \in {"listed", "measured"} =>
                 read[r].length \in 0..MaxNews /\ read[r].left \subseteq 0..MaxNews
           /\ read[r].pc \in {"listed", "measured", "marked"} => read[r].shown \subseteq 0..MaxNews
           /\ read[r].pc = "measured" => read[r].max \in 0..MaxNews
<1>1. read[r] \in News!ReadState
  BY DEF News!TypeOK
<1>2. QED
  BY <1>1 DEF News!ReadState, News!ReadIdle, News!Seq0

\* A read takes a step.
LEMMA ReadBecomes ==
    ASSUME News!TypeOK, NEW r \in Reader, NEW state \in News!ReadState, News!Become(r, state)
    PROVE  /\ read' \in [Reader -> News!ReadState] /\ read'[r] = state
           /\ \A q \in Reader \ {r} : read'[q] = read[q]
BY DEF News!TypeOK, News!Become

\* The states a read goes through.
LEMMA ReadStates ==
    /\ News!ReadIdle \in News!ReadState
    /\ \A last \in 0..MaxNews, before \in SUBSET (0..MaxNews) :
          [pc |-> "begun", last |-> last, before |-> before] \in News!ReadState
    /\ \A last \in 0..MaxNews, before \in SUBSET (0..MaxNews), known \in SUBSET Topic :
          [pc |-> "looked", last |-> last, before |-> before, interest |-> known] \in News!ReadState
    /\ \A last, length \in 0..MaxNews, new, left \in SUBSET (0..MaxNews) :
          [pc |-> "listed", last |-> last, length |-> length, shown |-> new, left |-> left]
             \in News!ReadState
    /\ \A last, length, max \in 0..MaxNews, new, left \in SUBSET (0..MaxNews) :
          [pc |-> "measured", last |-> last, length |-> length, max |-> max,
           shown |-> new, left |-> left] \in News!ReadState
    /\ \A new \in SUBSET (0..MaxNews) : [pc |-> "marked", shown |-> new] \in News!ReadState
BY DEF News!ReadState, News!ReadIdle, News!Seq0

\* An event that was told stays told.
LEMMA ToldStays ==
    ASSUME NEW s, Told(s),
           printed \subseteq printed', lost \subseteq lost',
           News!InHand \subseteq News!InHand' \cup printed' \cup lost'
    PROVE  Told(s)'
BY DEF Told

\* Reads that go on, or begin, put nothing out of hand.
LEMMA HandsKeep ==
    ASSUME NEW r \in Reader, ~News!At(r, "marked"), \A q \in Reader \ {r} : read'[q] = read[q]
    PROVE  News!InHand \subseteq News!InHand'
BY DEF News!InHand, News!At

\* An event more: it is news to nobody who has looked already.
LEMMA AppendKeeps ==
    ASSUME NewsInv, NEW topic \in Topic \cup {Silent}, News!AppendEvent(topic)
    PROVE  NewsInv'
<1> USE DEF NewsInv
<1>1. /\ News!TypeOK /\ MaxNews \in Nat /\ News!Last \in 0..MaxNews /\ watermark \in 0..MaxNews
      /\ News!Last \in Nat /\ watermark \in Nat /\ wanted \subseteq 1..News!Last
      /\ printed \subseteq 1..News!Last /\ consumed \subseteq 1..News!Last /\ lost \subseteq 1..News!Last
  BY NewsNumbers
<1>2. /\ UNCHANGED <<interest, watermark, read, readKills, printed, consumed, lost, rewound>>
      /\ log' = Append(log, topic)
      /\ wanted' = wanted \cup (IF News!Known(topic) THEN {News!Last + 1} ELSE {})
      /\ News!Last < MaxNews
  BY DEF News!AppendEvent
<1>3. /\ log' \in Seq(Topic \cup {Silent}) /\ News!Last' = News!Last + 1
      /\ log'[News!Last + 1] = topic /\ \A s \in 1..News!Last : log'[s] = log[s]
  BY <1>1, <1>2 DEF News!TypeOK, News!Last
<1>4. News!TypeOK'
  <2>1. wanted' \subseteq 1..News!Last'
    BY <1>1, <1>2, <1>3
  <2>2. \A events \in {printed', consumed', wanted', lost'} : events \subseteq 1..News!Last'
    BY <1>1, <1>2, <1>3, <2>1
  <2>3. rewound' \in BOOLEAN
    BY <1>2, Zenon DEF News!TypeOK
  <2>4. QED
    BY <1>1, <1>2, <1>3, <2>2, <2>3 DEF News!TypeOK
<1>5. \A s : Told(s)' <=> Told(s)
  BY <1>2 DEF Told, News!InHand, News!At
<1>6. WantedIsKnown'
  BY <1>1, <1>2, <1>3 DEF WantedIsKnown, News!Known, News!At
<1>7. \A r \in Reader : ReadIsSound(r)'
  <2>1. SUFFICES ASSUME NEW r \in Reader PROVE ReadIsSound(r)'
    OBVIOUS
  <2>2. \A s \in wanted' : s \in wanted \/ s = News!Last + 1
    BY <1>2
  <2>3. ReadIsSound(r) /\ read'[r] = read[r]
    BY <1>2
  <2>4. /\ read[r].pc \in {"begun", "looked", "listed", "measured"} => read[r].last \in 0..MaxNews
        /\ read[r].pc \in {"listed", "measured"} => read[r].length \in 0..MaxNews
        /\ read[r].pc = "measured" => read[r].max \in 0..MaxNews
    BY <1>1, ReadHolds
  <2>5. ASSUME read[r].pc \in {"begun", "looked", "listed", "measured"}
        PROVE  read[r].last <= News!Last' /\ \A s \in wanted' : s <= read[r].last => Told(s)'
    <3>1. read[r].last \in Nat /\ read[r].last <= News!Last
      BY <2>3, <2>4, <2>5 DEF ReadIsSound
    <3>2. \A s \in wanted' : s <= read[r].last => s \in wanted
      BY <1>1, <2>2, <3>1
    <3>3. \A s \in wanted : s <= read[r].last => Told(s)
      BY <2>3, <2>5 DEF ReadIsSound
    <3>4. read[r].last <= News!Last'
      BY <1>1, <1>3, <3>1
    <3>5. QED
      BY <1>5, <3>2, <3>3, <3>4
  <2>6. ASSUME read[r].pc \in {"listed", "measured"}
        PROVE  /\ read[r].length <= News!Last'
               /\ read[r].shown \cup read[r].left \subseteq 1..read[r].length
               /\ \A s \in wanted' : read[r].last < s /\ s <= read[r].length
                                       => s \in read[r].shown \cup read[r].left
    <3>1. read[r].length \in Nat /\ read[r].length <= News!Last
      BY <2>3, <2>4, <2>6 DEF ReadIsSound
    <3>2. \A s \in wanted' : s <= read[r].length => s \in wanted
      BY <1>1, <2>2, <3>1
    <3>3. /\ read[r].shown \cup read[r].left \subseteq 1..read[r].length
          /\ \A s \in wanted : read[r].last < s /\ s <= read[r].length
                                  => s \in read[r].shown \cup read[r].left
      BY <2>3, <2>6 DEF ReadIsSound
    <3>4. read[r].length <= News!Last'
      BY <1>1, <1>3, <3>1
    <3>5. QED
      BY <3>2, <3>3, <3>4
  <2>7. read[r].pc = "measured" => read[r].length <= read[r].max /\ read[r].max <= News!Last'
    BY <1>1, <1>3, <2>3, <2>4 DEF ReadIsSound
  <2>8. read[r].pc = "marked" => read[r].shown \subseteq 1..News!Last'
    <3>1. 1..News!Last \subseteq 1..News!Last'
      BY <1>1, <1>3
    <3>2. QED
      BY <2>3, <3>1 DEF ReadIsSound
  <2>9. QED
    BY <2>3, <2>5, <2>6, <2>7, <2>8 DEF ReadIsSound
<1>8. News!SwallowedHasCause'
  <2>1. \A s : Told(s) <=> s \in printed \cup News!InHand \cup lost
    BY DEF Told
  <2>2. \A s : Told(s)' <=> s \in (printed \cup News!InHand \cup lost)'
    BY DEF Told
  <2>3. QED
    BY <1>1, <1>2, <1>3, <1>5, <2>1, <2>2 DEF News!SwallowedHasCause
<1>9. ConsumedIsBehind'
  BY <1>2 DEF ConsumedIsBehind
<1>10. QED
  BY <1>1, <1>2, <1>3, <1>4, <1>6, <1>7, <1>8, <1>9

\* What the agent is interested in changes.
LEMMA InterestKeeps ==
    ASSUME NewsInv, News!ChangeInterest
    PROVE  NewsInv'
<1> USE DEF NewsInv
<1>1. /\ interest' \subseteq Topic
      /\ wanted' = {s \in wanted : log[s] \in interest'}
      /\ UNCHANGED <<log, watermark, read, readKills, printed, consumed, lost, rewound>>
  BY DEF News!ChangeInterest, News!TypeOK
<1>2. News!Last' = News!Last /\ wanted' \subseteq wanted /\ News!InHand' = News!InHand
  BY <1>1 DEF News!Last, News!InHand, News!At
<1>3. News!TypeOK'
  <2>1. \A events \in {printed', consumed', wanted', lost'} : events \subseteq 1..News!Last'
    BY <1>1, <1>2 DEF News!TypeOK
  <2>2. rewound' \in BOOLEAN
    BY <1>1, Zenon DEF News!TypeOK
  <2>3. QED
    BY <1>1, <1>2, <2>1, <2>2 DEF News!TypeOK
<1>4. WantedIsKnown'
  BY <1>1, <1>2 DEF WantedIsKnown, News!At
<1>5. \A s : Told(s)' <=> Told(s)
  BY <1>1, <1>2 DEF Told
<1>6. \A r \in Reader : ReadIsSound(r)'
  BY <1>1, <1>2, <1>5 DEF ReadIsSound
<1>7. News!SwallowedHasCause'
  BY <1>1, <1>2 DEF News!SwallowedHasCause
<1>8. ConsumedIsBehind'
  BY <1>1 DEF ConsumedIsBehind
<1>9. QED
  BY <1>1, <1>2, <1>3, <1>4, <1>6, <1>7, <1>8

\* The record goes, and the watermark with it.
LEMMA ForgetKeeps ==
    ASSUME NewsInv, News!Forget
    PROVE  NewsInv'
<1> USE DEF NewsInv
<1>1. /\ watermark' = 0 /\ UNCHANGED <<log, interest, read, readKills, printed, consumed, wanted, lost>>
      /\ watermark \in Nat /\ News!Last \in Nat /\ wanted \subseteq 1..News!Last
  BY NewsNumbers DEF News!Forget
<1>2. rewound' = (rewound \/ watermark > 0) /\ rewound \in BOOLEAN
  BY Zenon DEF News!Forget, News!TypeOK
<1>3. News!Last' = News!Last /\ News!InHand' = News!InHand
  BY <1>1 DEF News!Last, News!InHand, News!At
<1>4. News!TypeOK'
  <2>1. rewound' \in BOOLEAN
    BY <1>2, Zenon
  <2>2. 0 \in News!Seq0
    BY NewsAssumption DEF News!Seq0
  <2>3. QED
    BY <1>1, <1>3, <2>1, <2>2 DEF News!TypeOK
<1>5. WantedIsKnown'
  BY <1>1 DEF WantedIsKnown, News!At
<1>6. \A r \in Reader : ReadIsSound(r)'
  BY <1>1, <1>3 DEF ReadIsSound, Told
<1>7. News!SwallowedHasCause'
  BY <1>1 DEF News!SwallowedHasCause
<1>8. ConsumedIsBehind'
  <2>1. SUFFICES ASSUME ~rewound' PROVE ConsumedIsBehind'
    BY Zenon DEF ConsumedIsBehind
  <2>2. ~rewound /\ ~(watermark > 0)
    BY <1>2, <2>1, Zenon
  <2>3. watermark' = watermark
    BY <1>1, <2>2
  <2>4. QED
    BY <1>1, <2>2, <2>3 DEF ConsumedIsBehind
<1>9. QED
  BY <1>1, <1>3, <1>4, <1>5, <1>6, <1>7, <1>8

\* The other reads, when one takes a step and nothing that was told is untold.
LEMMA OthersAreSound ==
    ASSUME NewsInv, NEW r \in Reader, \A q \in Reader \ {r} : read'[q] = read[q],
           UNCHANGED <<log, wanted>>, \A s \in wanted : Told(s) => Told(s)'
    PROVE  /\ News!Last' = News!Last
           /\ \A q \in Reader \ {r} : ReadIsSound(q)'
<1>1. News!Last' = News!Last
  BY DEF News!Last
<1>2. ASSUME NEW q \in Reader \ {r} PROVE ReadIsSound(q)'
  <2>1. ReadIsSound(q) /\ read'[q] = read[q]
    BY DEF NewsInv
  <2>2. QED
    BY <1>1, <2>1 DEF ReadIsSound
<1>3. QED
  BY <1>1, <1>2

\* A read goes on without marking or printing anything.
LEMMA ReadsOn ==
    ASSUME NewsInv, NEW r \in Reader, ~News!At(r, "marked"), NEW state \in News!ReadState,
           state.pc # "marked", News!Become(r, state),
           UNCHANGED <<log, interest, watermark, printed, consumed, wanted, lost, rewound>>,
           readKills' \in 0..MaxReadKills, ReadIsSound(r)',
           state.pc = "looked" => \A s \in wanted : log[s] \in state.interest,
           ~rewound /\ state.pc \in {"begun", "looked"} => state.before \subseteq 0..state.last
    PROVE  NewsInv'
<1>1. /\ read' \in [Reader -> News!ReadState] /\ read'[r] = state
      /\ \A q \in Reader \ {r} : read'[q] = read[q]
  BY ReadBecomes DEF NewsInv
<1>2. News!InHand' = News!InHand
  BY <1>1 DEF News!InHand, News!At
<1>3. \A s : Told(s)' <=> Told(s)
  BY <1>2 DEF Told
<1>4. News!Last' = News!Last /\ \A q \in Reader \ {r} : ReadIsSound(q)'
  BY <1>1, <1>3, OthersAreSound
<1>5. News!TypeOK'
  <2>1. rewound' \in BOOLEAN
    BY Zenon DEF News!TypeOK, NewsInv
  <2>2. QED
    BY <1>1, <1>4, <2>1 DEF News!TypeOK, NewsInv
<1>6. WantedIsKnown'
  BY <1>1 DEF WantedIsKnown, News!At, NewsInv
<1>7. News!SwallowedHasCause'
  BY <1>2 DEF News!SwallowedHasCause, NewsInv
<1>8. ConsumedIsBehind'
  BY <1>1 DEF ConsumedIsBehind, NewsInv
<1>9. QED
  BY <1>4, <1>5, <1>6, <1>7, <1>8 DEF NewsInv

LEMMA BeginKeeps ==
    ASSUME NewsInv, NEW r \in Reader, News!Begin(r)
    PROVE  NewsInv'
<1> DEFINE state == [pc |-> "begun", last |-> watermark, before |-> consumed]
<1>1. /\ read[r].pc = "idle" /\ News!Become(r, state)
      /\ UNCHANGED <<log, interest, watermark, readKills, printed, consumed, wanted, lost, rewound>>
  BY DEF News!Begin, News!At, News!history
<1>2. /\ News!TypeOK /\ watermark \in 0..MaxNews /\ News!Last \in 0..MaxNews /\ MaxNews \in Nat
      /\ consumed \subseteq 1..News!Last /\ watermark <= News!Last
  BY NewsNumbers DEF NewsInv
<1>3. consumed \subseteq 0..MaxNews
  BY <1>2
<1>4. state \in News!ReadState
  BY <1>2, <1>3, ReadStates
<1>5. read'[r] = state /\ \A q \in Reader \ {r} : read'[q] = read[q]
  BY <1>1, <1>2, <1>4, ReadBecomes
<1>6. News!InHand' = News!InHand /\ News!Last' = News!Last
  BY <1>1, <1>5 DEF News!InHand, News!At, News!Last
<1>7. ReadIsSound(r)'
  <2>1. \A s \in wanted : s <= watermark => Told(s)
    BY DEF NewsInv, News!SwallowedHasCause, Told
  <2>2. \A s : Told(s)' <=> Told(s)
    BY <1>1, <1>6 DEF Told
  <2>3. QED
    BY <1>1, <1>2, <1>5, <1>6, <2>1, <2>2 DEF ReadIsSound
<1>8. ~rewound => consumed \subseteq 0..watermark
  BY DEF NewsInv, ConsumedIsBehind
<1>9. readKills' \in 0..MaxReadKills
  BY <1>1, <1>2 DEF News!TypeOK
<1>10. QED
  BY <1>1, <1>4, <1>7, <1>8, <1>9, ReadsOn DEF News!At

LEMMA LookKeeps ==
    ASSUME NewsInv, NEW r \in Reader, News!Look(r)
    PROVE  NewsInv'
<1> DEFINE state == [pc |-> "looked", last |-> read[r].last, before |-> read[r].before,
                     interest |-> interest]
<1>1. /\ read[r].pc = "begun" /\ News!Become(r, state)
      /\ UNCHANGED <<log, interest, watermark, readKills, printed, consumed, wanted, lost, rewound>>
  BY DEF News!Look, News!At, News!history
<1>2. /\ News!TypeOK /\ read[r].last \in 0..MaxNews /\ read[r].before \subseteq 0..MaxNews
      /\ interest \subseteq Topic
  BY <1>1, ReadHolds DEF NewsInv, News!TypeOK
<1>3. state \in News!ReadState
  BY <1>2, ReadStates
<1>4. read'[r] = state /\ \A q \in Reader \ {r} : read'[q] = read[q]
  BY <1>1, <1>2, <1>3, ReadBecomes
<1>5. News!InHand' = News!InHand /\ News!Last' = News!Last
  BY <1>1, <1>4 DEF News!InHand, News!At, News!Last
<1>6. ReadIsSound(r)'
  <2>1. ReadIsSound(r)
    BY DEF NewsInv
  <2>2. \A s : Told(s)' <=> Told(s)
    BY <1>1, <1>5 DEF Told
  <2>3. QED
    BY <1>1, <1>4, <1>5, <2>1, <2>2 DEF ReadIsSound
<1>7. \A s \in wanted : log[s] \in interest
  BY DEF NewsInv, WantedIsKnown
<1>8. ~rewound => read[r].before \subseteq 0..read[r].last
  BY <1>1 DEF NewsInv, ConsumedIsBehind
<1>9. readKills' \in 0..MaxReadKills
  BY <1>1, <1>2 DEF News!TypeOK
<1>10. QED
  BY <1>1, <1>3, <1>6, <1>7, <1>8, <1>9, ReadsOn DEF News!At

LEMMA ListKeeps ==
    ASSUME NewsInv, NEW r \in Reader, News!List(r)
    PROVE  NewsInv'
<1>1. PICK new \in SUBSET News!News(r) :
        News!Become(r, [pc |-> "listed", last |-> read[r].last, length |-> News!Last,
                        shown |-> new, left |-> News!News(r) \ new])
  BY DEF News!List
<1> DEFINE state == [pc |-> "listed", last |-> read[r].last, length |-> News!Last,
                     shown |-> new, left |-> News!News(r) \ new]
<1>2. /\ read[r].pc = "looked"
      /\ UNCHANGED <<log, interest, watermark, readKills, printed, consumed, wanted, lost, rewound>>
  BY DEF News!List, News!At, News!history
<1>3. /\ News!TypeOK /\ read[r].last \in 0..MaxNews
      /\ News!Last \in 0..MaxNews /\ MaxNews \in Nat /\ wanted \subseteq 1..News!Last
  BY <1>2, ReadHolds, NewsNumbers DEF NewsInv
<1>4. News!News(r) \subseteq 1..News!Last
  BY DEF News!News
<1>5. state \in News!ReadState
  <2>1. new \subseteq 0..MaxNews /\ News!News(r) \ new \subseteq 0..MaxNews
    BY <1>3, <1>4
  <2>2. QED
    BY <1>3, <2>1, ReadStates
<1>6. read'[r] = state /\ \A q \in Reader \ {r} : read'[q] = read[q]
  BY <1>1, <1>3, <1>5, ReadBecomes
<1>7. News!InHand' = News!InHand /\ News!Last' = News!Last
  BY <1>2, <1>6 DEF News!InHand, News!At, News!Last
<1>8. ReadIsSound(r)'
  <2>1. ReadIsSound(r) /\ \A s \in wanted : log[s] \in read[r].interest
    BY <1>2 DEF NewsInv, WantedIsKnown, News!At
  <2>2. \A s : Told(s)' <=> Told(s)
    BY <1>2, <1>7 DEF Told
  <2>3. \A s \in wanted : read[r].last < s => s \in new \cup (News!News(r) \ new)
    BY <1>3, <2>1 DEF News!News
  <2>4. new \cup (News!News(r) \ new) \subseteq 1..News!Last
    BY <1>4
  <2>5. read[r].last <= News!Last /\ \A s \in wanted : s <= read[r].last => Told(s)
    BY <1>2, <2>1 DEF ReadIsSound
  <2>6. News!Last <= News!Last
    BY <1>3
  <2>7. QED
    BY <1>2, <1>6, <1>7, <2>2, <2>3, <2>4, <2>5, <2>6 DEF ReadIsSound
<1>9. readKills' \in 0..MaxReadKills
  BY <1>2, <1>3 DEF News!TypeOK
<1>10. QED
  BY <1>1, <1>2, <1>5, <1>8, <1>9, ReadsOn DEF News!At

LEMMA MeasureKeeps ==
    ASSUME NewsInv, NEW r \in Reader, News!Measure(r)
    PROVE  NewsInv'
<1> DEFINE state == [pc |-> "measured", last |-> read[r].last, length |-> read[r].length,
                     max |-> News!Last, shown |-> read[r].shown, left |-> read[r].left]
<1>1. /\ read[r].pc = "listed" /\ News!Become(r, state)
      /\ UNCHANGED <<log, interest, watermark, readKills, printed, consumed, wanted, lost, rewound>>
  BY DEF News!Measure, News!At, News!history
<1>2. /\ News!TypeOK /\ read[r].last \in 0..MaxNews /\ read[r].length \in 0..MaxNews
      /\ read[r].shown \subseteq 0..MaxNews /\ read[r].left \subseteq 0..MaxNews
      /\ News!Last \in 0..MaxNews /\ MaxNews \in Nat
  BY <1>1, ReadHolds, NewsNumbers DEF NewsInv
<1>3. state \in News!ReadState
  BY <1>2, ReadStates
<1>4. read'[r] = state /\ \A q \in Reader \ {r} : read'[q] = read[q]
  BY <1>1, <1>2, <1>3, ReadBecomes
<1>5. News!InHand' = News!InHand /\ News!Last' = News!Last
  BY <1>1, <1>4 DEF News!InHand, News!At, News!Last
<1>6. ReadIsSound(r)'
  <2>1. ReadIsSound(r)
    BY DEF NewsInv
  <2>2. \A s : Told(s)' <=> Told(s)
    BY <1>1, <1>5 DEF Told
  <2>3. News!Last <= News!Last
    BY <1>2
  <2>4. QED
    BY <1>1, <1>4, <1>5, <2>1, <2>2, <2>3 DEF ReadIsSound
<1>7. readKills' \in 0..MaxReadKills
  BY <1>1, <1>2 DEF News!TypeOK
<1>8. QED
  BY <1>1, <1>3, <1>6, <1>7, ReadsOn DEF News!At

\* The watermark is written: all up to it was shown, listed in vain, or came late.
LEMMA MarkSeenKeeps ==
    ASSUME NewsInv, NEW r \in Reader, News!MarkSeen(r)
    PROVE  NewsInv'
<1> DEFINE state == [pc |-> "marked", shown |-> read[r].shown]
           missed == read[r].length + 1 .. read[r].max
<1>1. /\ read[r].pc = "measured" /\ News!Become(r, state)
      /\ watermark' = read[r].max /\ rewound' = (rewound \/ watermark' < watermark)
      /\ lost' = lost \cup read[r].left \cup missed
      /\ UNCHANGED <<log, interest, readKills, printed, consumed, wanted>>
  BY DEF News!MarkSeen, News!At
<1>2. /\ News!TypeOK /\ read[r].last \in 0..MaxNews /\ read[r].length \in 0..MaxNews
      /\ read[r].max \in 0..MaxNews /\ read[r].shown \subseteq 0..MaxNews
      /\ News!Last \in 0..MaxNews /\ MaxNews \in Nat
      /\ wanted \subseteq 1..News!Last /\ lost \subseteq 1..News!Last
      /\ watermark \in 0..MaxNews
  BY <1>1, ReadHolds, NewsNumbers DEF NewsInv
<1>3. ReadIsSound(r)
  BY DEF NewsInv
<1>4. /\ read[r].length <= read[r].max /\ read[r].max <= News!Last
      /\ read[r].shown \cup read[r].left \subseteq 1..read[r].length
      /\ \A s \in wanted : read[r].last < s /\ s <= read[r].length
                              => s \in read[r].shown \cup read[r].left
      /\ \A s \in wanted : s <= read[r].last => Told(s)
  BY <1>1, <1>3 DEF ReadIsSound
<1>5. /\ read' \in [Reader -> News!ReadState] /\ read'[r] = state
      /\ \A q \in Reader \ {r} : read'[q] = read[q]
  BY <1>1, <1>2, ReadStates, ReadBecomes
<1>6. News!InHand' = News!InHand \cup read[r].shown
  BY <1>1, <1>5 DEF News!InHand, News!At
<1>7. \A s : Told(s) => Told(s)'
  BY <1>1, <1>6 DEF Told
<1>8. News!Last' = News!Last /\ \A q \in Reader \ {r} : ReadIsSound(q)'
  BY <1>1, <1>5, <1>7, OthersAreSound
<1>9. \A s \in wanted : s <= read[r].max => Told(s)'
  <2>1. SUFFICES ASSUME NEW s \in wanted, s <= read[r].max PROVE Told(s)'
    OBVIOUS
  <2>2. s \in Nat
    BY <1>2
  <2>3. CASE s <= read[r].last
    BY <1>4, <1>7, <2>3
  <2>4. CASE read[r].last < s /\ s <= read[r].length
    BY <1>1, <1>4, <1>6, <2>4 DEF Told
  <2>5. CASE read[r].length < s
    <3>1. s \in missed
      BY <1>2, <2>1, <2>2, <2>5
    <3>2. QED
      BY <1>1, <3>1 DEF Told
  <2>6. QED
    BY <1>2, <2>2, <2>3, <2>4, <2>5
<1>10. News!SwallowedHasCause'
  BY <1>1, <1>9 DEF News!SwallowedHasCause, Told
<1>11. read[r].shown \subseteq 1..News!Last /\ read[r].left \subseteq 1..News!Last
       /\ missed \subseteq 1..News!Last /\ read[r].shown \subseteq 0..read[r].max
  BY <1>2, <1>4
<1>12. News!TypeOK'
  <2>1. rewound' \in BOOLEAN
    BY <1>1, <1>2, Zenon DEF News!TypeOK
  <2>2. lost' \subseteq 1..News!Last
    BY <1>1, <1>2, <1>11
  <2>3. watermark' \in News!Seq0
    BY <1>1, <1>2 DEF News!Seq0
  <2>4. QED
    BY <1>1, <1>2, <1>5, <1>8, <2>1, <2>2, <2>3 DEF News!TypeOK
<1>13. WantedIsKnown'
  BY <1>1, <1>5 DEF WantedIsKnown, News!At, NewsInv
<1>14. ReadIsSound(r)'
  BY <1>5, <1>8, <1>11 DEF ReadIsSound
<1>15. ConsumedIsBehind'
  <2>1. SUFFICES ASSUME ~rewound' PROVE ConsumedIsBehind'
    BY Zenon DEF ConsumedIsBehind
  <2>2. ~rewound /\ ~(watermark' < watermark)
    BY <1>1, <2>1, Zenon
  <2>3. watermark <= watermark' /\ watermark' \in Nat /\ watermark \in Nat
    BY <1>1, <1>2, <2>2
  <2>4. 0..watermark \subseteq 0..watermark'
    BY <2>3
  <2>5. ConsumedIsBehind
    BY DEF NewsInv
  <2>6. QED
    BY <1>1, <1>5, <1>11, <2>2, <2>4, <2>5 DEF ConsumedIsBehind
<1>16. watermark' <= News!Last'
  BY <1>1, <1>4, <1>8
<1>17. QED
  BY <1>8, <1>10, <1>12, <1>13, <1>14, <1>15, <1>16 DEF NewsInv

\* A read ends: what it had marked is printed, or lost with it.
LEMMA EndKeeps ==
    ASSUME NewsInv, NEW r \in Reader, News!Deliver(r) \/ News!Kill(r)
    PROVE  NewsInv'
<1> DEFINE new == read[r].shown
<1>1. /\ News!Become(r, News!ReadIdle)
      /\ UNCHANGED <<log, interest, watermark, wanted, rewound>>
      /\ readKills' \in 0..MaxReadKills
      /\ printed' = printed \/ (read[r].pc \in {"measured", "marked"} /\ printed' = printed \cup new)
      /\ consumed' = consumed \/ (read[r].pc = "marked" /\ consumed' = consumed \cup new)
      /\ lost' = lost \/ (read[r].pc = "marked" /\ lost' = lost \cup new)
      /\ read[r].pc = "marked" => new \subseteq printed' \cup lost'
  BY NewsAssumption DEF News!Deliver, News!Kill, News!At, NewsInv, News!TypeOK
<1>2. /\ News!TypeOK /\ News!Last \in 0..MaxNews /\ MaxNews \in Nat /\ ReadIsSound(r)
      /\ printed \subseteq 1..News!Last /\ consumed \subseteq 1..News!Last
      /\ lost \subseteq 1..News!Last /\ wanted \subseteq 1..News!Last
      /\ read[r].pc = "measured" => read[r].length \in 0..MaxNews
  BY NewsNumbers, ReadHolds DEF NewsInv
<1>3. read[r].pc \in {"measured", "marked"} => new \subseteq 1..News!Last
  BY <1>2 DEF ReadIsSound
<1>4. /\ read' \in [Reader -> News!ReadState] /\ read'[r] = News!ReadIdle
      /\ \A q \in Reader \ {r} : read'[q] = read[q]
  BY <1>1, <1>2, ReadStates, ReadBecomes
<1>5. printed \subseteq printed' /\ lost \subseteq lost'
  BY <1>1
<1>6. News!InHand \subseteq News!InHand' \cup printed' \cup lost'
  BY <1>1, <1>4 DEF News!InHand, News!At
<1>7. \A s : Told(s) => Told(s)'
  BY <1>5, <1>6, ToldStays
<1>8. News!Last' = News!Last /\ \A q \in Reader \ {r} : ReadIsSound(q)'
  BY <1>1, <1>4, <1>7, OthersAreSound
<1>9. ReadIsSound(r)'
  BY <1>4 DEF ReadIsSound, News!ReadIdle
<1>10. News!TypeOK'
  <2>1. rewound' \in BOOLEAN
    BY <1>1, <1>2, Zenon DEF News!TypeOK
  <2>2. \A events \in {printed', consumed', wanted', lost'} : events \subseteq 1..News!Last'
    BY <1>1, <1>2, <1>3, <1>8
  <2>3. QED
    BY <1>1, <1>2, <1>4, <1>8, <2>1, <2>2 DEF News!TypeOK
<1>11. WantedIsKnown'
  BY <1>1, <1>4 DEF WantedIsKnown, News!At, News!ReadIdle, NewsInv
<1>12. News!SwallowedHasCause'
  BY <1>1, <1>7 DEF News!SwallowedHasCause, Told, NewsInv
<1>13. ConsumedIsBehind'
  BY <1>1, <1>4 DEF ConsumedIsBehind, News!ReadIdle, NewsInv
<1>14. QED
  BY <1>1, <1>8, <1>9, <1>10, <1>11, <1>12, <1>13 DEF NewsInv

LEMMA NewsGoesOn ==
    ASSUME NewsInv, News!Next \/ UNCHANGED newsVars
    PROVE  NewsInv'
<1>1. ASSUME UNCHANGED newsVars PROVE NewsInv'
  <2>1. UNCHANGED <<log, interest, watermark, read, readKills, printed, consumed, wanted, lost, rewound>>
    BY <1>1 DEF newsVars
  <2>2. News!TypeOK'
    <3>1. rewound' \in BOOLEAN
      BY <2>1, Zenon DEF NewsInv, News!TypeOK
    <3>2. QED
      BY <2>1, <3>1 DEF NewsInv, News!TypeOK, News!Last
  <2>3. /\ News!Last' = News!Last /\ News!InHand' = News!InHand /\ \A s : Told(s)' <=> Told(s)
    BY <2>1 DEF News!Last, News!InHand, News!At, Told
  <2>4. \A r \in Reader : ReadIsSound(r)'
    BY <2>1, <2>3 DEF ReadIsSound, NewsInv
  <2>5. WantedIsKnown' /\ News!SwallowedHasCause' /\ ConsumedIsBehind'
    BY <2>1, <2>3 DEF WantedIsKnown, News!SwallowedHasCause, ConsumedIsBehind, News!At, NewsInv
  <2>6. QED
    BY <2>1, <2>2, <2>3, <2>4, <2>5 DEF NewsInv
<1>2. QED
  BY <1>1, AppendKeeps, InterestKeeps, ForgetKeeps, BeginKeeps, LookKeeps, ListKeeps,
     MeasureKeeps, MarkSeenKeeps, EndKeeps DEF News!Next

LEMMA NewsStarts ==
    ASSUME News!Init
    PROVE  NewsInv
<1>1. /\ News!Last = 0 /\ News!InHand = {} /\ \A r \in Reader : read[r].pc = "idle"
      /\ MaxNews \in Nat /\ MaxReadKills \in Nat
  BY NewsAssumption DEF News!Init, News!Last, News!InHand, News!ReadIdle, News!At
<1>2. News!TypeOK
  <2>1. rewound \in BOOLEAN
    BY Zenon DEF News!Init
  <2>2. read \in [Reader -> News!ReadState]
    BY DEF News!Init, News!ReadState
  <2>3. log \in Seq(Topic \cup {Silent})
    BY DEF News!Init
  <2>4. QED
    BY <1>1, <2>1, <2>2, <2>3 DEF News!Init, News!TypeOK, News!Seq0
<1>3. QED
  BY <1>1, <1>2 DEF News!Init, NewsInv, WantedIsKnown, ReadIsSound, News!SwallowedHasCause,
                    ConsumedIsBehind, News!At

\* What a marking read has consumed is not listed again.
LEMMA ListsNoOldNews ==
    ASSUME NewsInv
    PROVE  News!NewsStaysOld
<1>1. SUFFICES ASSUME NEW r \in Reader, News!List(r), ~rewound
               PROVE  read'[r].shown \cap read[r].before = {}
  BY DEF News!NewsStaysOld
<1>2. PICK new \in SUBSET News!News(r) :
        News!Become(r, [pc |-> "listed", last |-> read[r].last, length |-> News!Last,
                        shown |-> new, left |-> News!News(r) \ new])
  BY <1>1 DEF News!List
<1>3. read[r].pc = "looked" /\ News!TypeOK
  BY <1>1 DEF News!List, News!At, NewsInv
<1>4. read'[r].shown = new
  BY <1>2, <1>3 DEF News!Become, News!TypeOK
<1>5. read[r].before \subseteq 0..read[r].last /\ read[r].last \in 0..MaxNews
  BY <1>1, <1>3, ReadHolds DEF ConsumedIsBehind, NewsInv
<1>6. \A s \in new : s > read[r].last
  BY DEF News!News
<1>7. QED
  BY <1>4, <1>5, <1>6, NewsAssumption

---------------------------------------------------------------------------
(* The lessons of zpc.                                                     *)

Marks == [Kind -> SUBSET Lesson]
HookState == {Zpc!Idle}
    \cup [at : {"ask"}, session : Session, kind : Kind, says : SUBSET Lesson]
    \cup [at : {"matched", "answered"}, session : Session, kind : Kind, fired : SUBSET Lesson]
    \cup [at : {"open", "fill", "print"}, session : Session, kind : Kind,
          fired : SUBSET Lesson, fresh : SUBSET Lesson, marks : Marks]
LessonTypes ==
    /\ seen \in [Session -> Marks \cup {None, Torn}]
    /\ hookProc \in [LessonHook -> HookState]
    /\ lessons \in [Session -> [Kind -> Seq([all : SUBSET Lesson, fresh : SUBSET Lesson])]]
    /\ met \subseteq Session

\* A hook at work for the session that is about to speak of the lesson.
Freshly(s, k, l) ==
    \E p \in LessonHook : /\ hookProc[p].at \in {"fill", "print"} /\ hookProc[p].session = s
                          /\ hookProc[p].kind = k /\ l \in hookProc[p].fresh
ShownOrDropped(s, k, l) ==
    Zpc!Printed(s, k, l) # {} \/ [session |-> s, kind |-> k, lesson |-> l] \in dropped

\* The marks have what was spoken of, and nothing that was not shown.
KeptMarks(s, marks) ==
    \A k \in Kind, l \in Lesson :
        /\ Zpc!New(s, k, l) # {} => l \in marks[k]
        /\ l \in marks[k] => ShownOrDropped(s, k, l) \/ Freshly(s, k, l)

Filling(s) == {p \in Zpc!Running(s) : hookProc[p].at = "fill"}
HookIsSound(p, s) ==
    /\ hookProc[p].at = "open" =>
          /\ hookProc[p].marks = Zpc!Marked(Zpc!Loaded(s), hookProc[p].kind, hookProc[p].fresh)
          /\ hookProc[p].fresh \cap Zpc!Loaded(s)[hookProc[p].kind] = {}
    /\ hookProc[p].at = "fill" => seen[s] = Torn /\ KeptMarks(s, hookProc[p].marks)
    /\ hookProc[p].at \in {"fill", "print"} =>
          \A l \in hookProc[p].fresh : Zpc!New(s, hookProc[p].kind, l) = {}
    /\ hookProc[p].at = "fill" => hookProc[p].fresh \subseteq hookProc[p].marks[hookProc[p].kind]
    /\ hookProc[p].at = "print" => hookProc[p].fresh \subseteq Zpc!Loaded(s)[hookProc[p].kind]
    /\ hookProc[p].at \in {"open", "fill", "print"} => hookProc[p].fresh \subseteq hookProc[p].fired

\* A session whose hooks ran one after the other.
SessionIsSound(s) ==
    /\ \A p, q \in Zpc!Running(s) : p = q
    /\ Filling(s) = {} => seen[s] # Torn /\ KeptMarks(s, Zpc!Loaded(s))
    /\ \A p \in Zpc!Running(s) : HookIsSound(p, s)
    /\ \A k \in Kind, l \in Lesson : \A i, j \in Zpc!New(s, k, l) : i = j

LessonsInv == LessonTypes /\ \A s \in Session \ met : SessionIsSound(s)

\* A file that is not there or not whole is no set of marks.
LEMMA MarksAreWhole == None # Torn /\ None \notin Marks /\ Torn \notin Marks
BY NoneAssumption, LessonAssumption DEF Marks

\* What a hook holds.
LEMMA HookHolds ==
    ASSUME LessonTypes, NEW p \in LessonHook
    PROVE  /\ hookProc[p].at \in {"idle", "ask", "matched", "answered", "open", "fill", "print"}
           /\ hookProc[p].at # "idle" => hookProc[p].session \in Session /\ hookProc[p].kind \in Kind
           /\ hookProc[p].at = "ask" => hookProc[p].says \subseteq Lesson
           /\ hookProc[p].at \in {"matched", "answered", "open", "fill", "print"} =>
                 hookProc[p].fired \subseteq Lesson
           /\ hookProc[p].at \in {"open", "fill", "print"} =>
                 hookProc[p].fresh \subseteq Lesson /\ hookProc[p].marks \in Marks
<1>1. hookProc[p] \in HookState
  BY DEF LessonTypes
<1>2. QED
  BY <1>1 DEF HookState, Zpc!Idle

\* A hook that has the file open, or had it.
LEMMA HookWithMarks ==
    ASSUME LessonTypes, NEW p \in LessonHook, hookProc[p].at \in {"open", "fill", "print"}
    PROVE  /\ hookProc[p] \in [at : {"open", "fill", "print"}, session : Session, kind : Kind,
                               fired : SUBSET Lesson, fresh : SUBSET Lesson, marks : Marks]
           /\ \A at \in {"fill", "print"} :
                 LET later == [hookProc[p] EXCEPT !.at = at] IN
                 /\ later \in HookState /\ later.at = at
                 /\ later.session = hookProc[p].session /\ later.kind = hookProc[p].kind
                 /\ later.fired = hookProc[p].fired /\ later.fresh = hookProc[p].fresh
                 /\ later.marks = hookProc[p].marks
<1>1. hookProc[p] \in HookState
  BY DEF LessonTypes
<1>2. hookProc[p] # Zpc!Idle
  BY DEF Zpc!Idle
<1>3. hookProc[p] \notin [at : {"ask"}, session : Session, kind : Kind, says : SUBSET Lesson]
  OBVIOUS
<1>4. hookProc[p] \notin [at : {"matched", "answered"}, session : Session, kind : Kind,
                          fired : SUBSET Lesson]
  OBVIOUS
<1>5. hookProc[p] \in [at : {"open", "fill", "print"}, session : Session, kind : Kind,
                       fired : SUBSET Lesson, fresh : SUBSET Lesson, marks : Marks]
  BY <1>1, <1>2, <1>3, <1>4 DEF HookState
<1>6. QED
  BY <1>5 DEF HookState

\* A hook takes a step.
LEMMA HookBecomes ==
    ASSUME LessonTypes, NEW p \in LessonHook, NEW state \in HookState, Zpc!Becomes(p, state)
    PROVE  /\ hookProc' \in [LessonHook -> HookState] /\ hookProc'[p] = state
           /\ \A q \in LessonHook \ {p} : hookProc'[q] = hookProc[q]
BY DEF LessonTypes, Zpc!Becomes

\* The states a hook goes through.
LEMMA HookStates ==
    /\ Zpc!Idle \in HookState
    /\ \A s \in Session, k \in Kind, says \in SUBSET Lesson :
          [at |-> "ask", session |-> s, kind |-> k, says |-> says] \in HookState
    /\ \A s \in Session, k \in Kind, fired \in SUBSET Lesson, at \in {"matched", "answered"} :
          [at |-> at, session |-> s, kind |-> k, fired |-> fired] \in HookState
    /\ \A s \in Session, k \in Kind, fired, fresh \in SUBSET Lesson, marks \in Marks,
          at \in {"open", "fill", "print"} :
          [at |-> at, session |-> s, kind |-> k, fired |-> fired, fresh |-> fresh,
           marks |-> marks] \in HookState
BY DEF HookState

\* What the file of a session says is read as marks.
LEMMA LoadedIsMarks ==
    ASSUME LessonTypes, NEW s \in Session
    PROVE  Zpc!Loaded(s) \in Marks
<1>1. seen[s] \in Marks \cup {None, Torn}
  BY DEF LessonTypes
<1>2. Zpc!NoneSeen \in Marks
  BY DEF Zpc!NoneSeen, Marks
<1>3. QED
  BY <1>1, <1>2 DEF Zpc!Loaded

LEMMA MarkedIsMarks ==
    ASSUME NEW marks \in Marks, NEW k \in Kind, NEW new \in SUBSET Lesson
    PROVE  /\ Zpc!Marked(marks, k, new) \in Marks
           /\ Zpc!Marked(marks, k, new)[k] = marks[k] \cup new
           /\ \A j \in Kind \ {k} : Zpc!Marked(marks, k, new)[j] = marks[j]
BY DEF Zpc!Marked, Marks

\* A session that a step has nothing to do with is as sound as before.
LEMMA Elsewhere ==
    ASSUME NEW s, SessionIsSound(s),
           \A q \in LessonHook : \/ hookProc'[q] = hookProc[q]
                                 \/ q \notin Zpc!Running(s) /\ q \notin Zpc!Running(s)',
           seen'[s] = seen[s], lessons'[s] = lessons[s], dropped \subseteq dropped'
    PROVE  SessionIsSound(s)'
<1>1. Zpc!Running(s)' = Zpc!Running(s)
  BY DEF Zpc!Running
<1>2. /\ \A q \in Zpc!Running(s) : q \in LessonHook /\ hookProc'[q] = hookProc[q]
      /\ \A q \in LessonHook : hookProc[q].at # "idle" /\ hookProc[q].session = s
                               <=> q \in Zpc!Running(s)
      /\ \A q \in LessonHook : hookProc'[q].at # "idle" /\ hookProc'[q].session = s
                               <=> q \in Zpc!Running(s)
  BY <1>1 DEF Zpc!Running
<1>3. /\ Filling(s)' = Filling(s)
      /\ Zpc!Loaded(s)' = Zpc!Loaded(s)
      /\ \A k \in Kind, l \in Lesson :
            /\ Zpc!New(s, k, l)' = Zpc!New(s, k, l)
            /\ Zpc!Printed(s, k, l)' = Zpc!Printed(s, k, l)
            /\ Freshly(s, k, l) => Freshly(s, k, l)'
  <2>1. Filling(s)' = Filling(s)
    BY <1>1, <1>2 DEF Filling
  <2>2. Zpc!Loaded(s)' = Zpc!Loaded(s)
    BY DEF Zpc!Loaded, Zpc!NoneSeen
  <2>3. ASSUME NEW k \in Kind, NEW l \in Lesson, Freshly(s, k, l) PROVE Freshly(s, k, l)'
    <3>1. PICK q \in LessonHook : /\ hookProc[q].at \in {"fill", "print"} /\ hookProc[q].session = s
                                  /\ hookProc[q].kind = k /\ l \in hookProc[q].fresh
      BY <2>3 DEF Freshly
    <3>2. hookProc'[q] = hookProc[q]
      BY <1>2, <3>1
    <3>3. QED
      BY <3>1, <3>2 DEF Freshly
  <2>4. ASSUME NEW k \in Kind, NEW l \in Lesson
        PROVE  /\ Zpc!New(s, k, l)' = Zpc!New(s, k, l)
               /\ Zpc!Printed(s, k, l)' = Zpc!Printed(s, k, l)
    BY DEF Zpc!New, Zpc!Printed
  <2>5. QED
    BY <2>1, <2>2, <2>3, <2>4
<1>4. \A marks : KeptMarks(s, marks) => \A k \in Kind, l \in Lesson :
          /\ Zpc!New(s, k, l)' # {} => l \in marks[k]
          /\ l \in marks[k] => ShownOrDropped(s, k, l)' \/ Freshly(s, k, l)'
  BY <1>3 DEF KeptMarks, ShownOrDropped
<1>5. Filling(s) = {} => seen'[s] # Torn /\ KeptMarks(s, Zpc!Loaded(s))'
  BY <1>3, <1>4 DEF SessionIsSound, KeptMarks
<1>6. ASSUME NEW q \in Zpc!Running(s) PROVE HookIsSound(q, s)'
  <2>1. hookProc'[q] = hookProc[q]
    BY <1>2
  <2>2. HookIsSound(q, s)
    BY DEF SessionIsSound
  <2>3. hookProc[q].at = "open" =>
          /\ hookProc'[q].marks = Zpc!Marked(Zpc!Loaded(s), hookProc[q].kind, hookProc[q].fresh)'
          /\ hookProc'[q].fresh \cap Zpc!Loaded(s)'[hookProc'[q].kind] = {}
    BY <1>3, <2>1, <2>2 DEF HookIsSound, Zpc!Marked
  <2>4. hookProc[q].at = "fill" => seen'[s] = Torn /\ KeptMarks(s, hookProc[q].marks)'
    <3>1. hookProc[q].at = "fill" => seen[s] = Torn /\ KeptMarks(s, hookProc[q].marks)
      BY <2>2 DEF HookIsSound
    <3>2. hookProc[q].at = "fill" => \A k \in Kind, l \in Lesson :
              /\ Zpc!New(s, k, l)' # {} => l \in hookProc[q].marks[k]
              /\ l \in hookProc[q].marks[k] => ShownOrDropped(s, k, l)' \/ Freshly(s, k, l)'
      BY <1>4, <3>1
    <3>3. QED
      BY <2>1, <3>1, <3>2 DEF KeptMarks
  <2>5. hookProc[q].at \in {"fill", "print"} =>
            \A l \in hookProc[q].fresh : Zpc!New(s, hookProc[q].kind, l)' = {}
    <3>1. ASSUME NEW k, NEW l PROVE Zpc!New(s, k, l)' = Zpc!New(s, k, l)
      BY DEF Zpc!New, Zpc!Printed
    <3>2. QED
      BY <2>1, <2>2, <3>1 DEF HookIsSound
  <2>6. QED
    BY <1>3, <2>1, <2>2, <2>3, <2>4, <2>5 DEF HookIsSound
<1>7. QED
  BY <1>1, <1>3, <1>5, <1>6 DEF SessionIsSound

\* The session of a hook that takes a step, with no other hook at work.
LEMMA AloneInSession ==
    ASSUME LessonTypes, NEW p \in LessonHook, NEW s, p \in Zpc!Running(s), SessionIsSound(s),
           \A q \in LessonHook \ {p} : hookProc'[q] = hookProc[q],
           hookProc'[p].at # "idle" => hookProc'[p].session = s
    PROVE  /\ Zpc!Running(s) = {p} /\ hookProc[p].at # "idle" /\ hookProc[p].session = s
           /\ \A q \in LessonHook \ {p} : hookProc[q].at = "idle" \/ hookProc[q].session # s
           /\ Zpc!Running(s)' = {q \in {p} : hookProc'[p].at # "idle"}
           /\ Filling(s) = {q \in {p} : hookProc[p].at = "fill"}
           /\ Filling(s)' = {q \in {p} : hookProc'[p].at = "fill"}
           /\ HookIsSound(p, s)
<1>1. Zpc!Running(s) = {p} /\ HookIsSound(p, s) /\ hookProc[p].at # "idle" /\ hookProc[p].session = s
  BY DEF SessionIsSound, Zpc!Running
<1>2. \A q \in LessonHook \ {p} : hookProc[q].at = "idle" \/ hookProc[q].session # s
  BY <1>1 DEF Zpc!Running
<1>3. Zpc!Running(s)' = {q \in {p} : hookProc'[p].at # "idle"}
  BY <1>2 DEF Zpc!Running
<1>4. QED
  BY <1>1, <1>2, <1>3 DEF Filling

\* Nothing is about to be said where no hook fills or prints.
LEMMA NothingFresh ==
    ASSUME NEW s, NEW k, NEW l, \A p \in Zpc!Running(s) : hookProc[p].at \notin {"fill", "print"}
    PROVE  ~Freshly(s, k, l)
BY DEF Freshly, Zpc!Running

\* A hook that has not opened the file, or leaves it as it was.
LEMMA QuietStep ==
    ASSUME LessonTypes, NEW p \in LessonHook, NEW s, p \in Zpc!Running(s), SessionIsSound(s),
           \A q \in LessonHook \ {p} : hookProc'[q] = hookProc[q],
           hookProc'[p].at # "idle" => hookProc'[p].session = s,
           hookProc[p].at \in {"ask", "matched", "answered", "open"},
           hookProc'[p].at \in {"idle", "matched", "answered"},
           seen'[s] = seen[s], lessons'[s] = lessons[s], dropped \subseteq dropped'
    PROVE  SessionIsSound(s)'
<1>1. /\ Zpc!Running(s) = {p} /\ Zpc!Running(s)' = {q \in {p} : hookProc'[p].at # "idle"}
      /\ Filling(s) = {} /\ Filling(s)' = {}
  BY AloneInSession
<1>2. \A k, l : ~Freshly(s, k, l)
  BY <1>1, NothingFresh
<1>3. /\ Zpc!Loaded(s)' = Zpc!Loaded(s)
      /\ \A k, l : Zpc!Printed(s, k, l)' = Zpc!Printed(s, k, l) /\ Zpc!New(s, k, l)' = Zpc!New(s, k, l)
  BY DEF Zpc!Loaded, Zpc!NoneSeen, Zpc!Printed, Zpc!New
<1>4. KeptMarks(s, Zpc!Loaded(s))'
  <2>1. KeptMarks(s, Zpc!Loaded(s))
    BY <1>1 DEF SessionIsSound
  <2>2. \A k \in Kind, l \in Lesson : ShownOrDropped(s, k, l) => ShownOrDropped(s, k, l)'
    BY <1>3 DEF ShownOrDropped
  <2>3. QED
    BY <1>2, <1>3, <2>1, <2>2 DEF KeptMarks
<1>5. \A q \in Zpc!Running(s)' : HookIsSound(q, s)'
  BY <1>1 DEF HookIsSound
<1>6. QED
  BY <1>1, <1>3, <1>4, <1>5 DEF SessionIsSound

\* A hook reads the file and finds something that is new.
LEMMA LoadStep ==
    ASSUME LessonTypes, NEW p \in LessonHook, NEW s \in Session, p \in Zpc!Running(s),
           SessionIsSound(s), NEW k \in Kind, NEW fired \in SUBSET Lesson,
           hookProc[p].at = "answered",
           \A q \in LessonHook \ {p} : hookProc'[q] = hookProc[q],
           hookProc'[p] = [at |-> "open", session |-> s, kind |-> k, fired |-> fired,
                           fresh |-> fired \ Zpc!Loaded(s)[k],
                           marks |-> Zpc!Marked(Zpc!Loaded(s), k, fired \ Zpc!Loaded(s)[k])],
           UNCHANGED <<seen, lessons, dropped>>
    PROVE  SessionIsSound(s)'
<1>1. /\ hookProc'[p].at = "open" /\ hookProc'[p].session = s /\ hookProc'[p].kind = k
      /\ hookProc'[p].fired = fired /\ hookProc'[p].fresh = fired \ Zpc!Loaded(s)[k]
      /\ hookProc'[p].marks = Zpc!Marked(Zpc!Loaded(s), k, hookProc'[p].fresh)
  OBVIOUS
<1>2. Zpc!Running(s) = {p} /\ Zpc!Running(s)' = {p} /\ Filling(s) = {} /\ Filling(s)' = {}
  BY <1>1, AloneInSession
<1>3. \A j, l : ~Freshly(s, j, l)
  BY <1>2, NothingFresh
<1>4. /\ Zpc!Loaded(s)' = Zpc!Loaded(s)
      /\ \A j, l : Zpc!Printed(s, j, l)' = Zpc!Printed(s, j, l) /\ Zpc!New(s, j, l)' = Zpc!New(s, j, l)
  BY DEF Zpc!Loaded, Zpc!NoneSeen, Zpc!Printed, Zpc!New
<1>5. KeptMarks(s, Zpc!Loaded(s))'
  <2>1. KeptMarks(s, Zpc!Loaded(s))
    BY <1>2 DEF SessionIsSound
  <2>2. \A j \in Kind, l \in Lesson : ShownOrDropped(s, j, l) => ShownOrDropped(s, j, l)'
    BY <1>4 DEF ShownOrDropped
  <2>3. QED
    BY <1>3, <1>4, <2>1, <2>2 DEF KeptMarks
<1>6. HookIsSound(p, s)'
  <2>1. /\ hookProc'[p].marks = Zpc!Marked(Zpc!Loaded(s), hookProc[p].kind, hookProc[p].fresh)'
        /\ hookProc'[p].fresh \cap Zpc!Loaded(s)'[hookProc'[p].kind] = {}
        /\ hookProc'[p].fresh \subseteq hookProc'[p].fired
    BY <1>1, <1>4 DEF Zpc!Marked
  <2>2. QED
    BY <1>1, <2>1 DEF HookIsSound
<1>7. QED
  BY <1>2, <1>4, <1>5, <1>6 DEF SessionIsSound

\* A hook empties the file, with the marks of all that was in it in hand.
LEMMA OpenStep ==
    ASSUME LessonTypes, NEW p \in LessonHook, NEW s \in Session, p \in Zpc!Running(s),
           SessionIsSound(s), hookProc[p].at = "open",
           \A q \in LessonHook \ {p} : hookProc'[q] = hookProc[q],
           hookProc'[p] = [hookProc[p] EXCEPT !.at = "fill"],
           seen'[s] = Torn, UNCHANGED <<lessons, dropped>>
    PROVE  SessionIsSound(s)'
<1> DEFINE k == hookProc[p].kind
           fresh == hookProc[p].fresh
           marks == hookProc[p].marks
<1>1. /\ hookProc'[p].at = "fill" /\ hookProc'[p].session = hookProc[p].session
      /\ hookProc'[p].kind = k /\ hookProc'[p].fired = hookProc[p].fired
      /\ hookProc'[p].fresh = fresh /\ hookProc'[p].marks = marks
  BY HookWithMarks
<1>2. hookProc'[p].at # "idle" => hookProc'[p].session = s
  BY <1>1 DEF Zpc!Running
<1>3. /\ Zpc!Running(s) = {p} /\ Zpc!Running(s)' = {p} /\ Filling(s) = {} /\ Filling(s)' = {p}
      /\ HookIsSound(p, s) /\ hookProc'[p].session = s
  <2>1. /\ Zpc!Running(s) = {p} /\ Zpc!Running(s)' = {q \in {p} : hookProc'[p].at # "idle"}
        /\ Filling(s) = {q \in {p} : hookProc[p].at = "fill"}
        /\ Filling(s)' = {q \in {p} : hookProc'[p].at = "fill"} /\ HookIsSound(p, s)
    BY <1>2, AloneInSession
  <2>2. QED
    BY <1>1, <1>2, <2>1
<1>4. /\ marks = Zpc!Marked(Zpc!Loaded(s), k, fresh) /\ fresh \cap Zpc!Loaded(s)[k] = {}
      /\ fresh \subseteq hookProc[p].fired
  BY <1>3 DEF HookIsSound
<1>5. k \in Kind /\ fresh \subseteq Lesson /\ marks \in Marks
  BY HookHolds
<1>6. marks[k] = Zpc!Loaded(s)[k] \cup fresh /\ \A j \in Kind \ {k} : marks[j] = Zpc!Loaded(s)[j]
  <2>1. Zpc!Loaded(s) \in Marks
    BY LoadedIsMarks
  <2>2. QED
    BY <1>4, <1>5, <2>1, MarkedIsMarks
<1>7. KeptMarks(s, Zpc!Loaded(s)) /\ \A j, l : ~Freshly(s, j, l)
  <2>1. KeptMarks(s, Zpc!Loaded(s))
    BY <1>3 DEF SessionIsSound
  <2>2. \A j, l : ~Freshly(s, j, l)
    BY <1>3, NothingFresh
  <2>3. QED
    BY <2>1, <2>2
<1>8. /\ \A j, l : Zpc!Printed(s, j, l)' = Zpc!Printed(s, j, l) /\ Zpc!New(s, j, l)' = Zpc!New(s, j, l)
      /\ \A j, l : ShownOrDropped(s, j, l)' <=> ShownOrDropped(s, j, l)
  BY DEF Zpc!Printed, Zpc!New, ShownOrDropped
<1>9. \A l \in fresh : Freshly(s, k, l)'
  BY <1>1, <1>3 DEF Freshly
<1>10. \A j \in Kind, l \in Lesson :
           /\ Zpc!New(s, j, l)' # {} => l \in marks[j]
           /\ l \in marks[j] => ShownOrDropped(s, j, l)' \/ Freshly(s, j, l)'
  BY <1>6, <1>7, <1>8, <1>9 DEF KeptMarks
<1>11. \A l \in fresh : Zpc!New(s, k, l)' = {}
  BY <1>4, <1>5, <1>7, <1>8 DEF KeptMarks
<1>12. HookIsSound(p, s)'
  <2>1. KeptMarks(s, hookProc[p].marks)'
    BY <1>1, <1>10 DEF KeptMarks
  <2>2. \A l \in hookProc'[p].fresh : Zpc!New(s, hookProc[p].kind, l)' = {}
    BY <1>1, <1>11
  <2>3. hookProc'[p].fresh \subseteq hookProc'[p].marks[hookProc'[p].kind]
    BY <1>1, <1>6
  <2>4. QED
    BY <1>1, <1>4, <2>1, <2>2, <2>3 DEF HookIsSound
<1>13. \A j \in Kind, l \in Lesson : \A i, m \in Zpc!New(s, j, l)' : i = m
  BY <1>8 DEF SessionIsSound
<1>14. QED
  BY <1>3, <1>12, <1>13 DEF SessionIsSound

\* A hook fills the file with what it has in hand, and nobody has written meanwhile.
LEMMA FillStep ==
    ASSUME LessonTypes, NEW p \in LessonHook, NEW s \in Session, p \in Zpc!Running(s),
           SessionIsSound(s), hookProc[p].at = "fill",
           \A q \in LessonHook \ {p} : hookProc'[q] = hookProc[q],
           hookProc'[p] = [hookProc[p] EXCEPT !.at = "print"],
           seen'[s] = hookProc[p].marks, UNCHANGED <<lessons, dropped>>
    PROVE  SessionIsSound(s)'
<1> DEFINE k == hookProc[p].kind
           fresh == hookProc[p].fresh
           marks == hookProc[p].marks
<1>1. /\ hookProc'[p].at = "print" /\ hookProc'[p].session = hookProc[p].session
      /\ hookProc'[p].kind = k /\ hookProc'[p].fired = hookProc[p].fired
      /\ hookProc'[p].fresh = fresh
  BY HookWithMarks
<1>2. hookProc'[p].at # "idle" => hookProc'[p].session = s
  BY <1>1 DEF Zpc!Running
<1>3. /\ Zpc!Running(s) = {p} /\ Zpc!Running(s)' = {p} /\ Filling(s)' = {}
      /\ HookIsSound(p, s) /\ hookProc'[p].session = s
  <2>1. /\ Zpc!Running(s) = {p} /\ Zpc!Running(s)' = {q \in {p} : hookProc'[p].at # "idle"}
        /\ Filling(s) = {q \in {p} : hookProc[p].at = "fill"}
        /\ Filling(s)' = {q \in {p} : hookProc'[p].at = "fill"} /\ HookIsSound(p, s)
    BY <1>2, AloneInSession
  <2>2. QED
    BY <1>1, <1>2, <2>1
<1>4. /\ KeptMarks(s, marks) /\ fresh \subseteq marks[k] /\ fresh \subseteq hookProc[p].fired
      /\ \A l \in fresh : Zpc!New(s, k, l) = {}
  BY <1>3 DEF HookIsSound
<1>5. marks \in Marks /\ seen'[s] # Torn /\ Zpc!Loaded(s)' = marks
  BY HookHolds, MarksAreWhole DEF Zpc!Loaded
<1>6. /\ \A j, l : Zpc!Printed(s, j, l)' = Zpc!Printed(s, j, l) /\ Zpc!New(s, j, l)' = Zpc!New(s, j, l)
      /\ \A j, l : ShownOrDropped(s, j, l)' <=> ShownOrDropped(s, j, l)
  BY DEF Zpc!Printed, Zpc!New, ShownOrDropped
<1>7. \A j, l : Freshly(s, j, l) => Freshly(s, j, l)'
  <2>1. ASSUME NEW j, NEW l, Freshly(s, j, l) PROVE k = j /\ l \in fresh
    BY <1>3, <2>1 DEF Freshly, Zpc!Running
  <2>2. \A l \in fresh : Freshly(s, k, l)'
    BY <1>1, <1>3 DEF Freshly
  <2>3. QED
    BY <2>1, <2>2
<1>8. KeptMarks(s, Zpc!Loaded(s))'
  BY <1>4, <1>5, <1>6, <1>7 DEF KeptMarks
<1>9. HookIsSound(p, s)'
  <2>1. \A l \in hookProc'[p].fresh : Zpc!New(s, hookProc[p].kind, l)' = {}
    BY <1>1, <1>4, <1>6
  <2>2. QED
    BY <1>1, <1>4, <1>5, <2>1 DEF HookIsSound
<1>10. \A j \in Kind, l \in Lesson : \A i, m \in Zpc!New(s, j, l)' : i = m
  BY <1>6 DEF SessionIsSound
<1>11. QED
  BY <1>3, <1>5, <1>8, <1>9, <1>10 DEF SessionIsSound

\* The text of a hook that speaks.
Spoke(s, k, fired, fresh) ==
    lessons' = [lessons EXCEPT ![s][k] = Append(@, [all |-> fired, fresh |-> fresh])]

\* What a hook has to say.
Brings(p, k, fired, fresh) ==
    hookProc[p].kind = k /\ hookProc[p].fired = fired /\ hookProc[p].fresh = fresh

\* One more text in the list of a session and a kind.
LEMMA SpokenOf ==
    ASSUME LessonTypes, NEW s \in Session, NEW k \in Kind,
           NEW fired \in SUBSET Lesson, NEW fresh \in SUBSET Lesson, fresh \subseteq fired,
           Spoke(s, k, fired, fresh)
    PROVE  /\ lessons' \in [Session -> [Kind -> Seq([all : SUBSET Lesson, fresh : SUBSET Lesson])]]
           /\ \A t \in Session \ {s} : lessons'[t] = lessons[t]
           /\ \A j, l : Zpc!New(s, j, l) \subseteq DOMAIN lessons[s][j]
           /\ \A j \in Kind, l \in Lesson :
                 /\ j # k => /\ Zpc!Printed(s, j, l)' = Zpc!Printed(s, j, l)
                             /\ Zpc!New(s, j, l)' = Zpc!New(s, j, l)
                 /\ Zpc!Printed(s, j, l) \subseteq Zpc!Printed(s, j, l)'
           /\ \A l \in fired : Len(lessons[s][k]) + 1 \in Zpc!Printed(s, k, l)'
           /\ \A l \in Lesson : \A i :
                 i \in Zpc!New(s, k, l)' <=>
                    i \in Zpc!New(s, k, l) \/ (i = Len(lessons[s][k]) + 1 /\ l \in fresh)
<1> DEFINE Text == [all : SUBSET Lesson, fresh : SUBSET Lesson]
           said == [all |-> fired, fresh |-> fresh]
           was == lessons[s][k]
           more == lessons'[s][k]
<1>1. /\ lessons \in [Session -> [Kind -> Seq(Text)]] /\ said \in Text
      /\ said.all = fired /\ said.fresh = fresh
  BY DEF LessonTypes
<1>2. was \in Seq(Text) /\ more = Append(was, said)
  BY <1>1 DEF Spoke
<1>3. /\ lessons' \in [Session -> [Kind -> Seq(Text)]]
      /\ \A t \in Session \ {s} : lessons'[t] = lessons[t]
      /\ \A j \in Kind \ {k} : lessons'[s][j] = lessons[s][j]
  <2>1. Append(was, said) \in Seq(Text)
    BY <1>1, <1>2
  <2>2. QED
    BY <1>1, <2>1 DEF Spoke
<1>4. /\ Len(was) \in Nat /\ DOMAIN was = 1..Len(was)
      /\ DOMAIN more = 1..(Len(was) + 1) /\ more[Len(was) + 1] = said
      /\ \A i \in 1..Len(was) : more[i] = was[i]
  BY <1>1, <1>2
<1> HIDE DEF was, more, said, Text
<1>5. /\ DOMAIN more = DOMAIN was \cup {Len(was) + 1} /\ Len(was) + 1 \notin DOMAIN was
      /\ \A i \in DOMAIN was : more[i] = was[i]
  BY <1>4
<1>6. \A j \in Kind, l \in Lesson :
          j # k => /\ Zpc!Printed(s, j, l)' = Zpc!Printed(s, j, l)
                   /\ Zpc!New(s, j, l)' = Zpc!New(s, j, l)
  BY <1>3 DEF Zpc!Printed, Zpc!New
<1>7. \A l : /\ Zpc!Printed(s, k, l) = {i \in DOMAIN was : l \in was[i].all}
             /\ Zpc!Printed(s, k, l)' = {i \in DOMAIN more : l \in more[i].all}
             /\ Zpc!New(s, k, l) = {i \in DOMAIN was : l \in was[i].all /\ l \in was[i].fresh}
             /\ Zpc!New(s, k, l)' = {i \in DOMAIN more : l \in more[i].all /\ l \in more[i].fresh}
  BY DEF Zpc!Printed, Zpc!New, was, more
<1>8. \A l : /\ Zpc!Printed(s, k, l) \subseteq Zpc!Printed(s, k, l)'
             /\ l \in fired => Len(was) + 1 \in Zpc!Printed(s, k, l)'
             /\ \A i : i \in Zpc!New(s, k, l)' <=>
                       i \in Zpc!New(s, k, l) \/ (i = Len(was) + 1 /\ l \in fresh)
  <2>1. TAKE l
  <2>2. Zpc!Printed(s, k, l) \subseteq Zpc!Printed(s, k, l)'
    BY <1>5, <1>7
  <2>3. l \in fired => Len(was) + 1 \in Zpc!Printed(s, k, l)'
    BY <1>1, <1>4, <1>5, <1>7
  <2>4. \A i \in DOMAIN was : i \in Zpc!New(s, k, l)' <=> i \in Zpc!New(s, k, l)
    BY <1>5, <1>7
  <2>5. Len(was) + 1 \in Zpc!New(s, k, l)' <=> l \in fresh
    <3>1. Len(was) + 1 \in DOMAIN more
      BY <1>5
    <3>2. l \in more[Len(was) + 1].all /\ l \in more[Len(was) + 1].fresh <=> l \in fresh
      BY <1>1, <1>4
    <3>3. QED
      BY <1>7, <3>1, <3>2
  <2>6. QED
    BY <1>5, <1>7, <2>2, <2>3, <2>4, <2>5
<1>9. \A j, l : Zpc!New(s, j, l) \subseteq DOMAIN lessons[s][j]
  BY DEF Zpc!New, Zpc!Printed
<1>10. QED
  BY <1>3, <1>6, <1>8, <1>9 DEF was, Text

\* A hook speaks of what was new to it, and of the rest that fired.
LEMMA SpeakStep ==
    ASSUME LessonTypes, NEW p \in LessonHook, NEW s \in Session, p \in Zpc!Running(s),
           SessionIsSound(s), hookProc[p].at = "print",
           \A q \in LessonHook \ {p} : hookProc'[q] = hookProc[q],
           hookProc'[p] = Zpc!Idle,
           NEW k, NEW fired, NEW fresh, Brings(p, k, fired, fresh),
           Spoke(s, k, fired, fresh),
           UNCHANGED <<seen, dropped>>
    PROVE  SessionIsSound(s)'
<1>1. hookProc'[p].at = "idle"
  BY DEF Zpc!Idle
<1>2. /\ Zpc!Running(s) = {p} /\ Zpc!Running(s)' = {} /\ Filling(s) = {} /\ Filling(s)' = {}
      /\ HookIsSound(p, s)
  BY <1>1, AloneInSession
<1>3. /\ fresh \subseteq Zpc!Loaded(s)[k] /\ fresh \subseteq fired
      /\ \A l \in fresh : Zpc!New(s, k, l) = {}
  BY <1>2 DEF HookIsSound, Brings
<1>4. k \in Kind /\ fresh \in SUBSET Lesson /\ fired \in SUBSET Lesson /\ fresh \subseteq fired
  BY <1>3, HookHolds DEF Brings
<1>5. /\ \A j \in Kind, l \in Lesson :
            /\ j # k => /\ Zpc!Printed(s, j, l)' = Zpc!Printed(s, j, l)
                        /\ Zpc!New(s, j, l)' = Zpc!New(s, j, l)
            /\ Zpc!Printed(s, j, l) \subseteq Zpc!Printed(s, j, l)'
      /\ \A l \in fired : Len(lessons[s][k]) + 1 \in Zpc!Printed(s, k, l)'
      /\ \A l \in Lesson : \A i :
            i \in Zpc!New(s, k, l)' <=>
               i \in Zpc!New(s, k, l) \/ (i = Len(lessons[s][k]) + 1 /\ l \in fresh)
  BY <1>4, SpokenOf
<1>6. seen'[s] # Torn /\ KeptMarks(s, Zpc!Loaded(s)) /\ Zpc!Loaded(s)' = Zpc!Loaded(s)
  BY <1>2 DEF SessionIsSound, Zpc!Loaded, Zpc!NoneSeen
<1>7. \A j, l : Freshly(s, j, l) => j = k /\ l \in fresh
  BY <1>2 DEF Freshly, Zpc!Running, Brings
<1>8. \A j \in Kind, l \in Lesson :
          /\ Zpc!New(s, j, l)' # {} => l \in Zpc!Loaded(s)[j]
          /\ l \in Zpc!Loaded(s)[j] => ShownOrDropped(s, j, l)'
  <2>1. TAKE j \in Kind, l \in Lesson
  <2>2. Zpc!New(s, j, l)' # {} => Zpc!New(s, j, l) # {} \/ (j = k /\ l \in fresh)
    BY <1>5
  <2>3. Zpc!New(s, j, l) # {} => l \in Zpc!Loaded(s)[j]
    BY <1>6 DEF KeptMarks
  <2>4. l \in Zpc!Loaded(s)[j] => ShownOrDropped(s, j, l) \/ (j = k /\ l \in fresh)
    BY <1>6, <1>7 DEF KeptMarks
  <2>5. ShownOrDropped(s, j, l) => ShownOrDropped(s, j, l)'
    BY <1>5 DEF ShownOrDropped
  <2>6. j = k /\ l \in fresh => ShownOrDropped(s, j, l)'
    BY <1>3, <1>5 DEF ShownOrDropped
  <2>7. QED
    BY <1>3, <2>2, <2>3, <2>4, <2>5, <2>6
<1>9. KeptMarks(s, Zpc!Loaded(s))'
  BY <1>6, <1>8 DEF KeptMarks
<1>10. \A j \in Kind, l \in Lesson : \A i, m \in Zpc!New(s, j, l)' : i = m
  <2>1. TAKE j \in Kind, l \in Lesson
  <2>2. \A i, m \in Zpc!New(s, j, l) : i = m
    BY DEF SessionIsSound
  <2>3. CASE j = k /\ l \in fresh
    BY <1>3, <1>5, <2>3
  <2>4. CASE ~(j = k /\ l \in fresh)
    BY <1>5, <2>2, <2>4
  <2>5. QED
    BY <2>3, <2>4
<1>11. QED
  BY <1>2, <1>6, <1>9, <1>10 DEF SessionIsSound

\* A hook is killed after it marked what it was about to say.
LEMMA DropStep ==
    ASSUME LessonTypes, NEW p \in LessonHook, NEW s \in Session, p \in Zpc!Running(s),
           SessionIsSound(s), hookProc[p].at = "print",
           \A q \in LessonHook \ {p} : hookProc'[q] = hookProc[q],
           hookProc'[p] = Zpc!Idle,
           dropped' = dropped \cup {[session |-> s, kind |-> hookProc[p].kind, lesson |-> l] :
                                    l \in hookProc[p].fresh},
           UNCHANGED <<seen, lessons>>
    PROVE  SessionIsSound(s)'
<1>1. hookProc'[p].at = "idle"
  BY DEF Zpc!Idle
<1>2. /\ Zpc!Running(s) = {p} /\ Zpc!Running(s)' = {} /\ Filling(s) = {} /\ Filling(s)' = {}
  BY <1>1, AloneInSession
<1>3. seen'[s] # Torn /\ KeptMarks(s, Zpc!Loaded(s)) /\ Zpc!Loaded(s)' = Zpc!Loaded(s)
  BY <1>2 DEF SessionIsSound, Zpc!Loaded, Zpc!NoneSeen
<1>4. \A j, l : Zpc!Printed(s, j, l)' = Zpc!Printed(s, j, l) /\ Zpc!New(s, j, l)' = Zpc!New(s, j, l)
  BY DEF Zpc!Printed, Zpc!New
<1>5. \A j, l : ShownOrDropped(s, j, l) \/ Freshly(s, j, l) => ShownOrDropped(s, j, l)'
  <2>1. \A j, l : Freshly(s, j, l) => j = hookProc[p].kind /\ l \in hookProc[p].fresh
    BY <1>2 DEF Freshly, Zpc!Running
  <2>2. \A l \in hookProc[p].fresh :
            [session |-> s, kind |-> hookProc[p].kind, lesson |-> l] \in dropped'
    OBVIOUS
  <2>3. \A j, l : ShownOrDropped(s, j, l) => ShownOrDropped(s, j, l)'
    BY <1>4 DEF ShownOrDropped
  <2>4. QED
    BY <2>1, <2>2, <2>3 DEF ShownOrDropped
<1>6. KeptMarks(s, Zpc!Loaded(s))'
  BY <1>3, <1>4, <1>5 DEF KeptMarks
<1>7. QED
  BY <1>2, <1>3, <1>4, <1>6 DEF SessionIsSound

\* A hook at work is at work for one session.
LEMMA AtWork ==
    ASSUME LessonTypes, NEW p \in LessonHook, hookProc[p].at # "idle"
    PROVE  \E s \in Session : p \in Zpc!Running(s)
BY HookHolds DEF Zpc!Running

\* The other sessions see nothing of the step of a hook.
LEMMA OthersGoOn ==
    ASSUME LessonsInv, NEW p \in LessonHook, NEW s \in Session, p \in Zpc!Running(s),
           \A q \in LessonHook \ {p} : hookProc'[q] = hookProc[q],
           hookProc'[p].at # "idle" => hookProc'[p].session = s,
           \A t \in Session \ {s} : seen'[t] = seen[t] /\ lessons'[t] = lessons[t],
           dropped \subseteq dropped', met \subseteq met',
           s \in met' \/ SessionIsSound(s)'
    PROVE  \A t \in Session \ met' : SessionIsSound(t)'
<1>1. SUFFICES ASSUME NEW t \in Session \ met', t # s PROVE SessionIsSound(t)'
  OBVIOUS
<1>2. SessionIsSound(t)
  BY DEF LessonsInv
<1>3. p \notin Zpc!Running(t) /\ p \notin Zpc!Running(t)'
  BY <1>1 DEF Zpc!Running
<1>4. seen'[t] = seen[t] /\ lessons'[t] = lessons[t]
  BY <1>1
<1>5. QED
  BY <1>2, <1>3, <1>4, Elsewhere

\* A lesson is promoted or retracted: the hooks have what they have.
LEMMA ChangeGoesOn ==
    ASSUME LessonsInv, NEW l \in Lesson, NEW w \in Whens, Zpc!Change(l, w)
    PROVE  LessonsInv'
<1>1. UNCHANGED <<seen, hookProc, lessons, met, dropped>>
  BY DEF Zpc!Change
<1>2. LessonTypes'
  BY <1>1 DEF LessonsInv, LessonTypes
<1>3. ASSUME NEW s \in Session \ met' PROVE SessionIsSound(s)'
  <2>1. SessionIsSound(s)
    BY <1>1, <1>3 DEF LessonsInv
  <2>2. QED
    BY <1>1, <2>1, Elsewhere
<1>4. QED
  BY <1>2, <1>3 DEF LessonsInv

\* A hook begins; where another is at work, the session is put aside.
LEMMA CallGoesOn ==
    ASSUME LessonsInv, NEW p \in LessonHook, NEW s \in Session, NEW k \in Kind,
           NEW says \in SUBSET Lesson, Zpc!Call(p, s, k, says)
    PROVE  LessonsInv'
<1> DEFINE begun0 == [at |-> "ask", session |-> s, kind |-> k, says |-> says]
<1>1. /\ UNCHANGED <<seen, lessons, dropped>> /\ hookProc[p].at = "idle"
      /\ met' = IF Zpc!Running(s) = {} THEN met ELSE met \cup {s}
      /\ Zpc!Becomes(p, begun0) /\ begun0 \in HookState /\ LessonTypes
  BY HookStates DEF Zpc!Call, LessonsInv
<1>2. /\ hookProc' \in [LessonHook -> HookState] /\ hookProc'[p] = begun0
      /\ \A q \in LessonHook \ {p} : hookProc'[q] = hookProc[q]
  BY <1>1, HookBecomes
<1>3. hookProc'[p].at = "ask" /\ hookProc'[p].session = s
  BY <1>2
<1> HIDE DEF begun0
<1>4. LessonTypes'
  BY <1>1, <1>2 DEF LessonTypes
<1>5. ASSUME NEW t \in Session \ met' PROVE SessionIsSound(t)'
  <2>1. t \notin met /\ SessionIsSound(t) /\ p \notin Zpc!Running(t)
    BY <1>1, <1>5 DEF LessonsInv, Zpc!Running
  <2>2. CASE t # s
    <3>1. p \notin Zpc!Running(t)'
      BY <1>3, <2>2 DEF Zpc!Running
    <3>2. QED
      BY <1>1, <1>2, <2>1, <3>1, Elsewhere
  <2>3. CASE t = s
    <3>1. Zpc!Running(s) = {}
      BY <1>1, <1>5, <2>3
    <3>2. Zpc!Running(s)' = {p}
      BY <1>2, <1>3, <3>1 DEF Zpc!Running
    <3>3. Filling(s) = {} /\ Filling(s)' = {}
      BY <1>3, <3>1, <3>2 DEF Filling
    <3>4. HookIsSound(p, s)'
      BY <1>3 DEF HookIsSound
    <3>5. /\ Zpc!Loaded(s)' = Zpc!Loaded(s)
          /\ \A j, l : Zpc!Printed(s, j, l)' = Zpc!Printed(s, j, l) /\ Zpc!New(s, j, l)' = Zpc!New(s, j, l)
      BY <1>1 DEF Zpc!Loaded, Zpc!NoneSeen, Zpc!Printed, Zpc!New
    <3>6. \A j, l : ~Freshly(s, j, l)
      BY <3>1, NothingFresh
    <3>7. \A j, l : ShownOrDropped(s, j, l) => ShownOrDropped(s, j, l)'
      BY <1>1, <3>5 DEF ShownOrDropped
    <3>8. seen[s] # Torn /\ KeptMarks(s, Zpc!Loaded(s))
      BY <2>1, <2>3, <3>3 DEF SessionIsSound
    <3>9. seen'[s] # Torn /\ KeptMarks(s, Zpc!Loaded(s))'
      BY <1>1, <3>5, <3>6, <3>7, <3>8 DEF KeptMarks
    <3>10. \A j \in Kind, l \in Lesson : \A i, m \in Zpc!New(s, j, l)' : i = m
      BY <2>1, <2>3, <3>5 DEF SessionIsSound
    <3>11. SessionIsSound(s)'
      BY <3>2, <3>4, <3>9, <3>10 DEF SessionIsSound
    <3>12. QED
      BY <2>3, <3>11
  <2>4. QED
    BY <2>2, <2>3
<1>6. QED
  BY <1>4, <1>5 DEF LessonsInv

\* A hook that leaves the file alone: it asks, is answered, gives up or is killed.
LEMMA QuietGoesOn ==
    ASSUME LessonsInv, NEW p \in LessonHook, NEW state \in HookState, Zpc!Becomes(p, state),
           hookProc[p].at \in {"ask", "matched", "answered", "open"},
           state = Zpc!Idle \/ (state.at \in {"matched", "answered"}
                                /\ state.session = hookProc[p].session),
           UNCHANGED <<seen, lessons, met, dropped>>
    PROVE  LessonsInv'
<1>1. /\ hookProc' \in [LessonHook -> HookState] /\ hookProc'[p] = state
      /\ \A q \in LessonHook \ {p} : hookProc'[q] = hookProc[q] /\ LessonTypes
  BY HookBecomes DEF LessonsInv
<1>2. LessonTypes /\ LessonTypes'
  BY <1>1 DEF LessonTypes, LessonsInv
<1>3. PICK s \in Session : p \in Zpc!Running(s)
  BY <1>2, AtWork
<1>4. /\ hookProc'[p].at \in {"idle", "matched", "answered"}
      /\ hookProc'[p].at # "idle" => hookProc'[p].session = s
  BY <1>1, <1>3 DEF Zpc!Idle, Zpc!Running
<1>5. s \in met' \/ SessionIsSound(s)'
  <2>1. CASE s \in met
    BY <2>1
  <2>2. CASE s \notin met
    <3>1. SessionIsSound(s)
      BY <2>2 DEF LessonsInv
    <3>2. QED
      BY <1>1, <1>2, <1>3, <1>4, <3>1, QuietStep
  <2>3. QED
    BY <2>1, <2>2
<1>6. \A t \in Session \ met' : SessionIsSound(t)'
  BY <1>1, <1>3, <1>4, <1>5, OthersGoOn
<1>7. QED
  BY <1>2, <1>6 DEF LessonsInv

\* The moment matches some lessons, or none.
LEMMA MatchGoesOn ==
    ASSUME LessonsInv, NEW p \in LessonHook, Zpc!Match(p)
    PROVE  LessonsInv'
<1> DEFINE fired == Zpc!Fired(hookProc[p].kind, hookProc[p].says)
           matched == [at |-> "matched", session |-> hookProc[p].session,
                       kind |-> hookProc[p].kind, fired |-> fired]
           next == IF fired = {} THEN Zpc!Idle ELSE matched
<1>1. hookProc[p].at = "ask" /\ Zpc!Becomes(p, next) /\ UNCHANGED <<seen, lessons, met, dropped>>
  BY DEF Zpc!Match, Zpc!Still
<1>2. /\ hookProc[p].session \in Session /\ hookProc[p].kind \in Kind /\ fired \in SUBSET Lesson
  BY <1>1, HookHolds DEF LessonsInv, Zpc!Fired
<1>3. matched \in HookState /\ matched.at = "matched" /\ matched.session = hookProc[p].session
  BY <1>2, HookStates
<1>4. /\ next \in HookState
      /\ next = Zpc!Idle \/ (next.at \in {"matched", "answered"} /\ next.session = hookProc[p].session)
  <2> HIDE DEF matched
  <2>1. QED
    BY <1>3, HookStates
<1> HIDE DEF next
<1>5. QED
  BY <1>1, <1>4, QuietGoesOn

\* The command has the receipt and answers.
LEMMA AnswerGoesOn ==
    ASSUME LessonsInv, NEW p \in LessonHook, Zpc!Answer(p)
    PROVE  LessonsInv'
<1> DEFINE next == [hookProc[p] EXCEPT !.at = "answered"]
<1>1. /\ hookProc[p].at = "matched" /\ Zpc!Becomes(p, next)
      /\ UNCHANGED <<seen, lessons, met, dropped>>
  BY DEF Zpc!Answer, Zpc!Still
<1>2. hookProc[p] \in HookState
  BY DEF LessonsInv, LessonTypes
<1>3. /\ hookProc[p] # Zpc!Idle
      /\ hookProc[p] \notin [at : {"ask"}, session : Session, kind : Kind, says : SUBSET Lesson]
      /\ hookProc[p] \notin [at : {"open", "fill", "print"}, session : Session, kind : Kind,
                             fired : SUBSET Lesson, fresh : SUBSET Lesson, marks : Marks]
  BY <1>1 DEF Zpc!Idle
<1>4. hookProc[p] \in [at : {"matched", "answered"}, session : Session, kind : Kind,
                       fired : SUBSET Lesson]
  BY <1>2, <1>3 DEF HookState
<1>5. next \in HookState /\ next.at = "answered" /\ next.session = hookProc[p].session
  BY <1>4 DEF HookState
<1> HIDE DEF next
<1>6. QED
  BY <1>1, <1>5, QuietGoesOn

\* No answer in time.
LEMMA LateGoesOn ==
    ASSUME LessonsInv, NEW p \in LessonHook, Zpc!Late(p)
    PROVE  LessonsInv'
<1>1. /\ hookProc[p].at \in {"ask", "matched", "answered"} /\ Zpc!Becomes(p, Zpc!Idle)
      /\ UNCHANGED <<seen, lessons, met, dropped>>
  BY DEF Zpc!Late, Zpc!Still
<1>2. Zpc!Idle \in HookState
  BY HookStates
<1>3. QED
  BY <1>1, <1>2, QuietGoesOn

\* What fired is compared with what the session was shown.
LEMMA LoadGoesOn ==
    ASSUME LessonsInv, NEW p \in LessonHook, Zpc!LoadSeen(p)
    PROVE  LessonsInv'
<1>1. /\ hookProc[p].at = "answered" /\ LessonTypes
      /\ UNCHANGED <<seen, lessons, met, dropped>>
  BY DEF Zpc!LoadSeen, Zpc!Still, LessonsInv
<1>2. PICK s \in Session : p \in Zpc!Running(s)
  BY <1>1, AtWork
<1>3. hookProc[p].session = s /\ hookProc[p].kind \in Kind /\ hookProc[p].fired \in SUBSET Lesson
  BY <1>1, <1>2, HookHolds DEF Zpc!Running
<1>4. PICK k \in Kind, fired \in SUBSET Lesson : hookProc[p].kind = k /\ hookProc[p].fired = fired
  BY <1>3
<1> DEFINE fresh == fired \ Zpc!Loaded(s)[k]
           marks == Zpc!Marked(Zpc!Loaded(s), k, fresh)
           open == [at |-> "open", session |-> s, kind |-> k, fired |-> fired,
                    fresh |-> fresh, marks |-> marks]
<1>5. Zpc!Becomes(p, IF fresh = {} THEN Zpc!Idle ELSE open)
  BY <1>3, <1>4 DEF Zpc!LoadSeen
<1>6. marks \in Marks
  BY LoadedIsMarks, MarkedIsMarks, <1>1
<1>7. open \in HookState /\ open.at = "open" /\ open.session = s
  <2> HIDE DEF marks
  <2>1. fresh \in SUBSET Lesson
    OBVIOUS
  <2> HIDE DEF fresh
  <2>2. QED
    BY <1>6, <2>1, HookStates
<1>8. CASE fresh = {}
  <2>1. Zpc!Becomes(p, Zpc!Idle)
    BY <1>5, <1>8
  <2>2. QED
    BY <1>1, <2>1, HookStates, QuietGoesOn
<1>9. CASE fresh # {}
  <2>1. Zpc!Becomes(p, open)
    BY <1>5, <1>9
  <2>2. /\ hookProc' \in [LessonHook -> HookState] /\ hookProc'[p] = open
        /\ \A q \in LessonHook \ {p} : hookProc'[q] = hookProc[q]
    <3> HIDE DEF open
    <3>1. QED
      BY <1>1, <1>7, <2>1, HookBecomes
  <2>3. LessonTypes'
    BY <1>1, <2>2 DEF LessonTypes
  <2>4. s \in met' \/ SessionIsSound(s)'
    <3>1. CASE s \in met
      BY <1>1, <3>1
    <3>2. CASE s \notin met
      <4>1. SessionIsSound(s)
        BY <3>2 DEF LessonsInv
      <4>2. QED
        BY <1>1, <1>2, <2>2, <4>1, LoadStep
    <3>3. QED
      BY <3>1, <3>2
  <2>5. \A t \in Session \ met' : SessionIsSound(t)'
    <3>1. hookProc'[p].at # "idle" => hookProc'[p].session = s
      BY <1>7, <2>2
    <3> HIDE DEF open
    <3>2. QED
      BY <1>1, <1>2, <2>2, <2>4, <3>1, OthersGoOn
  <2>6. QED
    BY <2>3, <2>5 DEF LessonsInv
<1>10. QED
  BY <1>8, <1>9

\* The file is emptied.
LEMMA OpenGoesOn ==
    ASSUME LessonsInv, NEW p \in LessonHook, Zpc!OpenSeen(p)
    PROVE  LessonsInv'
<1> DEFINE next == [hookProc[p] EXCEPT !.at = "fill"]
<1>1. /\ hookProc[p].at = "open" /\ LessonTypes
      /\ UNCHANGED <<lessons, met, dropped>> /\ Zpc!Becomes(p, next)
  BY DEF Zpc!OpenSeen, Zpc!Still, LessonsInv
<1>2. PICK s \in Session : p \in Zpc!Running(s)
  BY <1>1, AtWork
<1>3. hookProc[p].session = s /\ seen' = [seen EXCEPT ![s] = Torn]
  BY <1>2 DEF Zpc!OpenSeen, Zpc!Running
<1>4. /\ seen' \in [Session -> Marks \cup {None, Torn}] /\ seen'[s] = Torn
      /\ \A t \in Session \ {s} : seen'[t] = seen[t]
  BY <1>1, <1>3 DEF LessonTypes
<1>5. next \in HookState /\ next.session = s
  BY <1>1, <1>3, HookWithMarks
<1>6. /\ hookProc' \in [LessonHook -> HookState] /\ hookProc'[p] = next
      /\ \A q \in LessonHook \ {p} : hookProc'[q] = hookProc[q]
  <2> HIDE DEF next
  <2>1. QED
    BY <1>1, <1>5, HookBecomes
<1>7. LessonTypes'
  BY <1>1, <1>4, <1>6 DEF LessonTypes
<1>8. s \in met' \/ SessionIsSound(s)'
  <2>1. CASE s \in met
    BY <1>1, <2>1
  <2>2. CASE s \notin met
    <3>1. SessionIsSound(s)
      BY <2>2 DEF LessonsInv
    <3>2. QED
      BY <1>1, <1>2, <1>4, <1>6, <3>1, OpenStep
  <2>3. QED
    BY <2>1, <2>2
<1>9. \A t \in Session \ met' : SessionIsSound(t)'
  <2> HIDE DEF next
  <2>1. QED
    BY <1>1, <1>2, <1>4, <1>5, <1>6, <1>8, OthersGoOn
<1>10. QED
  BY <1>7, <1>9 DEF LessonsInv

\* The file is filled; over what another hook wrote meanwhile it may not be whole.
LEMMA FillGoesOn ==
    ASSUME LessonsInv, NEW p \in LessonHook, Zpc!FillSeen(p)
    PROVE  LessonsInv'
<1> DEFINE next == [hookProc[p] EXCEPT !.at = "print"]
<1>1. /\ hookProc[p].at = "fill" /\ LessonTypes
      /\ UNCHANGED <<lessons, met, dropped>> /\ Zpc!Becomes(p, next)
  BY DEF Zpc!FillSeen, Zpc!Still, LessonsInv
<1>2. PICK s \in Session : p \in Zpc!Running(s)
  BY <1>1, AtWork
<1>3. hookProc[p].session = s /\ hookProc[p].marks \in Marks
  BY <1>1, <1>2, HookHolds DEF Zpc!Running
<1>4. PICK f \in {hookProc[p].marks} \cup
                 IF seen[s] \in {Torn, hookProc[p].marks} THEN {} ELSE {Torn} :
          seen' = [seen EXCEPT ![s] = f]
  BY <1>3 DEF Zpc!FillSeen
<1>5. /\ seen' \in [Session -> Marks \cup {None, Torn}] /\ seen'[s] = f
      /\ \A t \in Session \ {s} : seen'[t] = seen[t]
      /\ seen[s] = Torn => f = hookProc[p].marks
  BY <1>1, <1>3, <1>4 DEF LessonTypes
<1>6. next \in HookState /\ next.session = s
  BY <1>1, <1>3, HookWithMarks
<1>7. /\ hookProc' \in [LessonHook -> HookState] /\ hookProc'[p] = next
      /\ \A q \in LessonHook \ {p} : hookProc'[q] = hookProc[q]
  <2> HIDE DEF next
  <2>1. QED
    BY <1>1, <1>6, HookBecomes
<1>8. LessonTypes'
  BY <1>1, <1>5, <1>7 DEF LessonTypes
<1>9. s \in met' \/ SessionIsSound(s)'
  <2>1. CASE s \in met
    BY <1>1, <2>1
  <2>2. CASE s \notin met
    <3>1. SessionIsSound(s)
      BY <2>2 DEF LessonsInv
    <3>2. seen[s] = Torn
      BY <1>1, <1>2, <3>1 DEF SessionIsSound, HookIsSound
    <3>3. QED
      BY <1>1, <1>2, <1>5, <1>7, <3>1, <3>2, FillStep
  <2>3. QED
    BY <2>1, <2>2
<1>10. \A t \in Session \ met' : SessionIsSound(t)'
  <2> HIDE DEF next
  <2>1. QED
    BY <1>1, <1>2, <1>5, <1>6, <1>7, <1>9, OthersGoOn
<1>11. QED
  BY <1>8, <1>10 DEF LessonsInv

\* The lessons are printed.
LEMMA SpeakGoesOn ==
    ASSUME LessonsInv, NEW p \in LessonHook, Zpc!Speak(p)
    PROVE  LessonsInv'
<1>1. /\ hookProc[p].at = "print" /\ LessonTypes
      /\ UNCHANGED <<seen, met, dropped>> /\ Zpc!Becomes(p, Zpc!Idle)
  BY DEF Zpc!Speak, LessonsInv
<1>2. PICK s \in Session : p \in Zpc!Running(s)
  BY <1>1, AtWork
<1>3. /\ hookProc[p].session = s /\ hookProc[p].kind \in Kind
      /\ hookProc[p].fired \in SUBSET Lesson /\ hookProc[p].fresh \in SUBSET Lesson
  BY <1>1, <1>2, HookHolds DEF Zpc!Running
<1>4. PICK k \in Kind, fired \in SUBSET Lesson, fresh \in SUBSET Lesson : Brings(p, k, fired, fresh)
  BY <1>3 DEF Brings
<1>5. Spoke(s, k, fired, fresh)
  BY <1>3, <1>4 DEF Zpc!Speak, Spoke, Brings
<1>6. /\ hookProc' \in [LessonHook -> HookState] /\ hookProc'[p] = Zpc!Idle
      /\ \A q \in LessonHook \ {p} : hookProc'[q] = hookProc[q]
  BY <1>1, HookStates, HookBecomes
<1>7. /\ lessons' \in [Session -> [Kind -> Seq([all : SUBSET Lesson, fresh : SUBSET Lesson])]]
      /\ \A t \in Session \ {s} : lessons'[t] = lessons[t]
  <2>1. lessons \in [Session -> [Kind -> Seq([all : SUBSET Lesson, fresh : SUBSET Lesson])]]
    BY <1>1 DEF LessonTypes
  <2>2. Append(lessons[s][k], [all |-> fired, fresh |-> fresh])
           \in Seq([all : SUBSET Lesson, fresh : SUBSET Lesson])
    <3>1. k \in Kind
      BY <1>4
    <3>2. lessons[s][k] \in Seq([all : SUBSET Lesson, fresh : SUBSET Lesson])
      BY <2>1, <3>1
    <3>3. [all |-> fired, fresh |-> fresh] \in [all : SUBSET Lesson, fresh : SUBSET Lesson]
      OBVIOUS
    <3>4. QED
      BY <3>2, <3>3
  <2>3. QED
    BY <1>5, <2>1, <2>2 DEF Spoke
<1>8. LessonTypes'
  BY <1>1, <1>6, <1>7 DEF LessonTypes
<1>9. s \in met' \/ SessionIsSound(s)'
  <2>1. CASE s \in met
    BY <1>1, <2>1
  <2>2. CASE s \notin met
    <3>1. SessionIsSound(s)
      BY <2>2 DEF LessonsInv
    <3>2. QED
      BY <1>1, <1>2, <1>4, <1>5, <1>6, <3>1, SpeakStep
  <2>3. QED
    BY <2>1, <2>2
<1>10. hookProc'[p].at = "idle"
  BY <1>6 DEF Zpc!Idle
<1>11. \A t \in Session \ met' : SessionIsSound(t)'
  BY <1>1, <1>2, <1>6, <1>7, <1>9, <1>10, OthersGoOn
<1>12. QED
  BY <1>8, <1>11 DEF LessonsInv

\* A hook is killed, wherever it is.
LEMMA KillGoesOn ==
    ASSUME LessonsInv, NEW p \in LessonHook, Zpc!Kill(p)
    PROVE  LessonsInv'
<1>1. /\ hookProc[p].at \in {"ask", "matched", "answered", "open", "fill", "print"}
      /\ LessonTypes /\ UNCHANGED <<seen, lessons>> /\ Zpc!Becomes(p, Zpc!Idle)
      /\ met \subseteq met' /\ dropped \subseteq dropped'
  BY HookHolds DEF Zpc!Kill, LessonsInv
<1>2. PICK s \in Session : p \in Zpc!Running(s)
  BY <1>1, AtWork
<1>3. hookProc[p].session = s
  BY <1>2 DEF Zpc!Running
<1>4. /\ hookProc' \in [LessonHook -> HookState] /\ hookProc'[p] = Zpc!Idle
      /\ \A q \in LessonHook \ {p} : hookProc'[q] = hookProc[q]
  BY <1>1, HookStates, HookBecomes
<1>5. hookProc'[p].at = "idle"
  BY <1>4 DEF Zpc!Idle
<1>6. LessonTypes'
  <2>1. met' \subseteq Session
    BY <1>1, HookHolds DEF Zpc!Kill, LessonTypes
  <2>2. QED
    BY <1>1, <1>4, <2>1 DEF LessonTypes
<1>7. s \in met' \/ SessionIsSound(s)'
  <2>1. CASE s \in met
    BY <1>1, <2>1
  <2>2. CASE s \notin met
    <3>1. SessionIsSound(s)
      BY <2>2 DEF LessonsInv
    <3>2. CASE hookProc[p].at \in {"ask", "matched", "answered", "open"}
      BY <1>1, <1>2, <1>4, <1>5, <3>1, <3>2, QuietStep
    <3>3. CASE hookProc[p].at = "fill"
      BY <1>3, <3>3 DEF Zpc!Kill
    <3>4. CASE hookProc[p].at = "print"
      <4>1. dropped' = dropped \cup {[session |-> s, kind |-> hookProc[p].kind, lesson |-> l] :
                                     l \in hookProc[p].fresh}
        BY <1>3, <3>4 DEF Zpc!Kill
      <4>2. QED
        BY <1>1, <1>2, <1>4, <3>1, <3>4, <4>1, DropStep
    <3>5. QED
      BY <1>1, <3>2, <3>3, <3>4
  <2>3. QED
    BY <2>1, <2>2
<1>8. \A t \in Session \ met' : SessionIsSound(t)'
  BY <1>1, <1>2, <1>4, <1>5, <1>7, OthersGoOn
<1>9. QED
  BY <1>6, <1>8 DEF LessonsInv

\* Nothing was shown at first, and nobody is at work.
LEMMA LessonsStart == Zpc!Init => LessonsInv
<1> SUFFICES ASSUME Zpc!Init PROVE LessonsInv
  OBVIOUS
<1>1. /\ seen = [s \in Session |-> None] /\ hookProc = [p \in LessonHook |-> Zpc!Idle]
      /\ lessons = [s \in Session |-> [k \in Kind |-> <<>>]] /\ met = {}
  BY DEF Zpc!Init
<1>2. LessonTypes
  <2>1. <<>> \in Seq([all : SUBSET Lesson, fresh : SUBSET Lesson])
    OBVIOUS
  <2>2. QED
    BY <1>1, <2>1, HookStates DEF LessonTypes
<1>3. ASSUME NEW s \in Session PROVE SessionIsSound(s)
  <2>1. Zpc!Running(s) = {}
    BY <1>1 DEF Zpc!Running, Zpc!Idle
  <2>2. seen[s] = None /\ seen[s] # Torn /\ Zpc!Loaded(s) = [k \in Kind |-> {}]
    BY <1>1, MarksAreWhole DEF Zpc!Loaded, Zpc!NoneSeen
  <2>3. \A k \in Kind : \A l : Zpc!New(s, k, l) = {}
    BY <1>1 DEF Zpc!New, Zpc!Printed
  <2>4. KeptMarks(s, Zpc!Loaded(s))
    BY <2>2, <2>3 DEF KeptMarks
  <2>5. QED
    BY <2>1, <2>2, <2>3, <2>4 DEF SessionIsSound
<1>4. QED
  BY <1>2, <1>3 DEF LessonsInv

\* Every step of the hooks and of the store keeps the invariant.
LEMMA LessonsGoOn ==
    ASSUME LessonsInv, Zpc!Next \/ UNCHANGED lessonVars
    PROVE  LessonsInv'
<1>1. ASSUME NEW l \in Lesson, NEW w \in Whens, Zpc!Change(l, w) PROVE LessonsInv'
  BY <1>1, ChangeGoesOn
<1>2. ASSUME NEW p \in LessonHook,
             \/ \E s \in Session, k \in Kind, says \in SUBSET Lesson : Zpc!Call(p, s, k, says)
             \/ Zpc!Match(p) \/ Zpc!Answer(p) \/ Zpc!Late(p) \/ Zpc!LoadSeen(p)
             \/ Zpc!OpenSeen(p) \/ Zpc!FillSeen(p) \/ Zpc!Speak(p) \/ Zpc!Kill(p)
      PROVE  LessonsInv'
  BY <1>2, CallGoesOn, MatchGoesOn, AnswerGoesOn, LateGoesOn, LoadGoesOn, OpenGoesOn, FillGoesOn,
     SpeakGoesOn, KillGoesOn
<1>3. ASSUME UNCHANGED lessonVars PROVE LessonsInv'
  <2>1. UNCHANGED <<seen, hookProc, lessons, met, dropped>>
    BY <1>3 DEF lessonVars
  <2>2. LessonTypes'
    BY <2>1 DEF LessonsInv, LessonTypes
  <2>3. ASSUME NEW s \in Session \ met' PROVE SessionIsSound(s)'
    <3>1. SessionIsSound(s)
      BY <2>1, <2>3 DEF LessonsInv
    <3>2. QED
      BY <2>1, <3>1, Elsewhere
  <2>4. QED
    BY <2>2, <2>3 DEF LessonsInv
<1>4. QED
  BY <1>1, <1>2, <1>3 DEF Zpc!Next

LEMMA ZpcCardinality == \A S : Zpc!Cardinality(S) = Cardinality(S)
BY DEF Zpc!Cardinality, Cardinality

\* A lesson speaks once, and what is marked was shown, dropped, or is about to be.
LEMMA SpeaksOnce == LessonsInv => Zpc!SpeaksOnce
<1> SUFFICES ASSUME LessonsInv PROVE Zpc!SpeaksOnce
  OBVIOUS
<1> SUFFICES ASSUME NEW s \in Session \ met, NEW k \in Kind, NEW l \in Lesson
             PROVE  /\ Cardinality(Zpc!New(s, k, l)) <= 1
                    /\ l \in Zpc!Loaded(s)[k] =>
                         \/ Zpc!Printed(s, k, l) # {} \/ [session |-> s, kind |-> k, lesson |-> l] \in dropped
                         \/ \E p \in Zpc!Running(s) : /\ hookProc[p].at \in {"open", "fill", "print"}
                                                      /\ l \in hookProc[p].fresh
  BY ZpcCardinality, Zenon DEF Zpc!SpeaksOnce
<1>1. SessionIsSound(s)
  BY DEF LessonsInv
<1>2. Cardinality(Zpc!New(s, k, l)) <= 1
  <2>1. \A i, j \in Zpc!New(s, k, l) : i = j
    BY <1>1 DEF SessionIsSound
  <2>2. CASE Zpc!New(s, k, l) = {}
    BY <2>2, FS_EmptySet
  <2>3. CASE Zpc!New(s, k, l) # {}
    <3>1. PICK i : Zpc!New(s, k, l) = {i}
      BY <2>1, <2>3
    <3>2. QED
      BY <3>1, FS_Singleton
  <2>4. QED
    BY <2>2, <2>3
<1>3. ASSUME l \in Zpc!Loaded(s)[k]
      PROVE  \/ ShownOrDropped(s, k, l)
             \/ \E p \in Zpc!Running(s) : /\ hookProc[p].at \in {"open", "fill", "print"}
                                          /\ l \in hookProc[p].fresh
  <2>1. CASE Filling(s) = {}
    <3>1. ShownOrDropped(s, k, l) \/ Freshly(s, k, l)
      BY <1>1, <1>3, <2>1 DEF SessionIsSound, KeptMarks
    <3>2. QED
      BY <3>1 DEF Freshly, Zpc!Running
  <2>2. CASE Filling(s) # {}
    <3>1. seen[s] = Torn
      BY <1>1, <2>2 DEF Filling, SessionIsSound, HookIsSound
    <3>2. QED
      BY <1>3, <3>1 DEF Zpc!Loaded, Zpc!NoneSeen
  <2>3. QED
    BY <2>1, <2>2
<1>4. QED
  BY <1>2, <1>3 DEF ShownOrDropped

---------------------------------------------------------------------------
(* The hooks, whichever part they play.                                     *)

\* What holds of the part that is played: SessionInv holds of the hooks' memory at
\* rest, too, when another part is.
HooksInv == /\ SessionInv
            /\ part = "coord" => NewsInv
            /\ part = "zpc" => LessonsInv

\* The inductive invariant of the hooks.  What the memory of the hooks, the journal
\* of coord and the marks of zpc say is related to what was really demonstrated,
\* shown and told, while calls run side by side and are killed anywhere
\* (nudge_tracker.py and the hooks that use it, coord.py's interrupts,
\* agent-do-zpc-trigger.py).
THEOREM HooksInvariant == HooksSpec => []HooksInv
<1>1. HooksInit => HooksInv
  BY SessionStarts, NewsStarts, LessonsStart DEF HooksInit, HooksInv
<1>2. HooksInv /\ [HooksNext]_hooksVars => HooksInv'
  <2> SUFFICES ASSUME HooksInv, [HooksNext]_hooksVars PROVE HooksInv'
    OBVIOUS
  <2>1. part' = part
    BY DEF HooksNext, hooksVars
  <2>2. [SessionNext]_sessionVars
    BY DEF HooksNext, hooksVars
  <2>3. part = "coord" => News!Next \/ UNCHANGED newsVars
    BY DEF HooksNext, hooksVars
  <2>4. part = "zpc" => Zpc!Next \/ UNCHANGED lessonVars
    BY DEF HooksNext, hooksVars
  <2>5. SessionInv'
    BY <2>2, SessionGoesOn DEF HooksInv
  <2>6. part = "coord" => NewsInv'
    BY <2>3, NewsGoesOn DEF HooksInv
  <2>7. part = "zpc" => LessonsInv'
    BY <2>4, LessonsGoOn DEF HooksInv
  <2>8. QED
    BY <2>1, <2>5, <2>6, <2>7 DEF HooksInv
<1>3. QED
  BY <1>1, <1>2, PTL DEF HooksSpec

\* A nudge is held back only by what was demonstrated or shown often enough, and is
\* counted as ignored only if the tool was not used after it: however many calls
\* race for the file of nudges or are killed over it.
THEOREM NudgesAlwaysEarned == HooksSpec => []NudgesAreEarned
<1>1. HooksInv => NudgesAreEarned
  BY SessionKeeps DEF HooksInv, NudgesAreEarned
<1>2. QED
  BY <1>1, HooksInvariant, PTL

\* An edited file stays in the ledger until it is reported and is spoken of once;
\* a lesson makes the hook speak once for a kind, and a mark says it was shown: but
\* for the sessions whose hooks met, and what a kill cut off.
THEOREM ToldAlwaysOnce == HooksSpec => []ToldOnce
<1>1. HooksInv => ToldOnce
  BY SessionKeeps, SpeaksOnce DEF HooksInv, ToldOnce
<1>2. QED
  BY <1>1, HooksInvariant, PTL

\* News behind the watermark was shown or lost for a cause, and
\* what a marking read has shown is not news again, as long as no read that was
\* overtaken put the watermark back.
THEOREM NewsAlwaysShownOnce == HooksSpec => NewsIsShownOnce
<1> DEFINE Shown == part = "coord" => News!NewsStaysOld /\ News!SwallowedHasCause'
<1>1. HooksInv /\ HooksInv' /\ [HooksNext]_hooksVars => [Shown]_hooksVars
  <2> SUFFICES ASSUME HooksInv, HooksInv', part = "coord", HooksNext
               PROVE  News!NewsStaysOld /\ News!SwallowedHasCause'
    OBVIOUS
  <2>1. part' = part
    BY DEF HooksNext
  <2>2. News!NewsStaysOld
    BY ListsNoOldNews DEF HooksInv
  <2>3. News!SwallowedHasCause'
    BY <2>1 DEF HooksInv, NewsInv
  <2>4. QED
    BY <2>2, <2>3
<1>2. QED
  BY <1>1, HooksInvariant, PTL DEF HooksSpec, NewsIsShownOnce
===========================================================================
