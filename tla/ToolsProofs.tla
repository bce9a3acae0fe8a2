----------------------------- MODULE ToolsProofs -----------------------------
(***************************************************************************)
(* Theorems about the tools, for any values of the constants: the profiles *)
(* of agent-psql as a system of their own (PsqlProfiles), and, among the   *)
(* tools of Tools, the sessions of agent-db, the workbooks of agent-excel  *)
(* and the stores of agent-zpc, each with an inductive invariant that is   *)
(* void while another tool is picked.                                      *)
(***************************************************************************)
EXTENDS Tools, FiniteSetTheorems, WellFoundedInduction, TLAPS

-----------------------------------------------------------------------------
(* The profiles of agent-psql.                                             *)

-----------------------------------------------------------------------------
(* Strings and records.                                                    *)

\* A password in a connection string is one the Keychain may keep.
LEMMA SecretIsKey ==
    ASSUME NEW u \in Uri
    PROVE  SecretOf[u] \in Key
BY UriAssumption DEF Key, Secret

\* A published record says of its string what the string is.
LEMMA ParsedRecord ==
    ASSUME NEW u \in Supported
    PROVE  /\ Parsed(u) \in Record
           /\ Parsed(u) # None
           /\ Parsed(u).uri = u
           /\ Parsed(u).password = "none" => SecretOf[u] = None
           /\ Expects(Parsed(u)) = "yes" => SecretOf[u] # None
BY UriAssumption, ProfilesAssumption DEF Parsed, Record, Expects

\* A record that is used without a password says that it has none.
LEMMA NoCredential ==
    ASSUME NEW r \in Record, Expects(r) = "no"
    PROVE  r.password = "none"
BY DEF Expects, Record

\* A valid record is of a string that parses.
LEMMA ExpectsKinds ==
    ASSUME NEW r \in Record
    PROVE  Expects(r) \in {"yes", "no", "invalid"}
BY DEF Expects, Record

-----------------------------------------------------------------------------
(* The end of a command, and what a step may leave alone.                  *)

\* A command that ends lets go of what is its own and of nothing else.
LEMMA Ends ==
    ASSUME TypeOK, NEW p \in Proc, End(p)
    PROVE  /\ pc' \in [Proc -> Holding \cup {"idle", "lock", "detail", "plain"}]
           /\ job' \in [Proc -> Job \cup {None}]
           /\ staged' \in [Proc -> File \cup {None}]
           /\ lock' \in Proc \cup {None}
           /\ pc'[p] = "idle"
           /\ \A q \in Proc \ {p} : /\ pc'[q] = pc[q] /\ job'[q] = job[q]
                                    /\ staged'[q] = staged[q]
                                    /\ lock = q => lock' = q
BY ProfilesAssumption DEF TypeOK, End, Goto

\* The properties of profiles and passwords survive a step that changes neither.
LEMMA Frame ==
    ASSUME ProfilesInv, UNCHANGED <<profiles, keychain, orphaned>>
    PROVE  NoneMeansNone' /\ BoundIsOwn'
BY DEF ProfilesInv, NoneMeansNone, BoundIsOwn

\* A mutation that is not the one that steps goes on as it was, if the step
\* leaves profiles and passwords alone.
LEMMA OthersMutate ==
    ASSUME ProfilesInv, NEW p \in Proc, NEW q \in Proc \ {p},
           pc'[q] = pc[q], job'[q] = job[q], staged'[q] = staged[q],
           lock = q => lock' = q,
           UNCHANGED <<profiles, keychain>>, orphaned => orphaned'
    PROVE  Mutates(q)'
BY DEF ProfilesInv, Mutating, Mutates, Requested, Adding, Removing, Stored

\* While a mutation holds the lock no other one is at work.
LEMMA Alone ==
    ASSUME ProfilesInv, NEW p \in Proc, pc[p] \in Holding, NEW q \in Proc \ {p}
    PROVE  pc[q] \notin Holding
BY DEF ProfilesInv, Mutating, Mutates

\* A connect that is not the one that steps goes on as it was: a change of its
\* profile or its password leaves it behind.
LEMMA OthersConnect ==
    ASSUME ProfilesInv, NEW b, NEW q \in Proc,
           pc'[q] = pc[q], job'[q] = job[q], found'[q] = found[q],
           ~stale'[q] => ~stale[q] /\ ~(found[q] # None /\ job[q].a = b),
           \A c \in Account \ {b} : profiles'[c] = profiles[c] /\ keychain'[c] = keychain[c]
    PROVE  Connected(q)'
<1>1. CASE pc[q] \notin {"detail", "plain"}
  BY <1>1 DEF ProfilesInv, Connecting, Connected
<1>2. CASE pc[q] \in {"detail", "plain"}
  <2>1. found[q] # None /\ job[q].a \in Account
    BY <1>2, UriAssumption DEF ProfilesInv, Connecting, Connected, Job
  <2>2. QED
    BY <1>2, <2>1 DEF ProfilesInv, Connecting, Connected
<1>3. QED
  BY <1>1, <1>2

-----------------------------------------------------------------------------
(* Every step keeps the invariant.                                         *)

LEMMA BeginInv ==
    ASSUME ProfilesInv, NEW p \in Proc, NEW j \in Job, Begin(p, j),
           (j.do = "add" /\ j.u \in Supported) \/ j.do = "remove"
    PROVE  ProfilesInv'
<1> USE DEF ProfilesInv
<1>1. TypeOK'
  BY ProfilesAssumption DEF TypeOK, Begin, Goto, Holding, connecting
<1>2. Mutating'
  <2> SUFFICES ASSUME NEW q \in Proc PROVE Mutates(q)'
    BY DEF Mutating
  <2>1. CASE q = p
    BY <2>1 DEF TypeOK, Begin, Goto, Mutates, Requested, Holding
  <2>2. CASE q # p
    BY <2>2, OthersMutate DEF TypeOK, Begin, Goto
  <2>3. QED
    BY <2>1, <2>2
<1>3. Connecting'
  BY DEF TypeOK, Begin, Goto, Connecting, Connected, connecting
<1>4. StraysAreOrphans' /\ ConnectIsRight'
  BY DEF Begin, StraysAreOrphans, ConnectIsRight, connecting
<1>5. QED
  BY <1>1, <1>2, <1>3, <1>4, Frame DEF Begin

LEMMA TakeLockInv ==
    ASSUME ProfilesInv, NEW p \in Proc, TakeLock(p)
    PROVE  ProfilesInv'
<1> USE DEF ProfilesInv
<1>1. TypeOK'
  <2>1. CASE lock = None
    BY <2>1 DEF TypeOK, TakeLock, Goto, Holding, connecting
  <2>2. CASE lock # None
    BY <2>2, Ends DEF TypeOK, TakeLock, connecting
  <2>3. QED
    BY <2>1, <2>2
<1>2. Mutating'
  <2> SUFFICES ASSUME NEW q \in Proc PROVE Mutates(q)'
    BY DEF Mutating
  <2>1. CASE q = p /\ lock = None
    BY <2>1 DEF TypeOK, TakeLock, Goto, Mutating, Mutates, Requested, Holding
  <2>2. CASE q = p /\ lock # None
    BY <2>2, Ends DEF TypeOK, TakeLock, Holding, Mutates
  <2>3. CASE q # p /\ lock = None
    <3>1. lock # q
      BY <2>3, ProfilesAssumption
    <3>2. QED
      BY <2>3, <3>1, OthersMutate DEF TypeOK, TakeLock, Goto
  <2>4. CASE q # p /\ lock # None
    BY <2>4, Ends, OthersMutate DEF TakeLock
  <2>5. QED
    BY <2>1, <2>2, <2>3, <2>4
<1>3. Connecting'
  <2>1. pc'[p] \in {"load", "idle"} /\ pc[p] = "lock"
    BY Ends DEF TakeLock, TypeOK, Goto
  <2>2. \A q \in Proc \ {p} : pc'[q] = pc[q] /\ job'[q] = job[q]
    BY Ends DEF TakeLock, TypeOK, Goto
  <2>3. QED
    BY <2>1, <2>2 DEF TakeLock, Connecting, Connected, connecting
<1>4. StraysAreOrphans' /\ ConnectIsRight'
  BY DEF TakeLock, StraysAreOrphans, ConnectIsRight, connecting
<1>5. QED
  BY <1>1, <1>2, <1>3, <1>4, Frame DEF TakeLock

\* What the two loading steps have in common.
LEMMA LoadInv ==
    ASSUME ProfilesInv, NEW p \in Proc, pc[p] = "load",
           \/ End(p)
           \/ /\ Adding(p)' \/ Removing(p)'
              /\ pc' \in {[pc EXCEPT ![p] = "store"], [pc EXCEPT ![p] = "publish"]}
              /\ pc'[p] = "store" => Adding(p)'
              /\ pc'[p] = "publish" => (Stored(p)' \/ Removing(p)')
              /\ \E f \in File : staged' = [staged EXCEPT ![p] = f]
              /\ UNCHANGED <<job, lock>>,
           UNCHANGED <<profiles, keychain, strays, connecting, stale, orphaned, runs, kills>>
    PROVE  ProfilesInv'
<1> USE DEF ProfilesInv
<1>a. CASE End(p)
  <2>1. TypeOK'
    BY <1>a, Ends DEF TypeOK, connecting
  <2>2. Mutating'
    BY <1>a, Ends, OthersMutate DEF TypeOK, Mutating, Mutates, Holding
  <2>3. Connecting'
    BY <1>a, Ends DEF Connecting, Connected, connecting
  <2>4. StraysAreOrphans' /\ ConnectIsRight'
    BY DEF StraysAreOrphans, ConnectIsRight, connecting
  <2>5. QED
    BY <2>1, <2>2, <2>3, <2>4, Frame
<1>b. CASE ~End(p)
  <2>1. TypeOK'
    BY <1>b DEF TypeOK, Holding, connecting
  <2>2. /\ pc'[p] \in {"store", "publish"} /\ job' = job /\ lock' = lock
        /\ \A q \in Proc \ {p} : pc'[q] = pc[q] /\ staged'[q] = staged[q]
    BY <1>b DEF TypeOK
  <2>3. lock = p /\ Requested(p)
    BY DEF Mutating, Mutates, Holding
  <2>4. Mutating'
    <3>1. Requested(p)'
      BY <2>2, <2>3 DEF Requested
    <3>2. QED
      BY <1>b, <2>2, <2>3, <3>1, OthersMutate DEF Mutating, Mutates, Holding
  <2>5. Connecting'
    BY <2>2 DEF Connecting, Connected, connecting
  <2>6. StraysAreOrphans' /\ ConnectIsRight'
    BY DEF StraysAreOrphans, ConnectIsRight, connecting
  <2>7. QED
    BY <2>1, <2>4, <2>5, <2>6, Frame
<1>c. QED
  BY <1>a, <1>b

LEMMA LoadAddInv ==
    ASSUME ProfilesInv, NEW p \in Proc, LoadAdd(p)
    PROVE  ProfilesInv'
<1> DEFINE a == job[p].a
           u == job[p].u
<1> USE DEF ProfilesInv
<1>1. CASE End(p)
  BY <1>1, LoadInv DEF LoadAdd
<1>2. CASE ~End(p)
  <2>1. /\ pc[p] = "load" /\ job[p].do = "add"
        /\ profiles[a] = None
        /\ staged' = [staged EXCEPT ![p] = [profiles EXCEPT ![a] = Parsed(u)]]
        /\ UNCHANGED <<job, lock>>
        /\ pc' = [pc EXCEPT ![p] = IF SecretOf[u] # None /\ Darwin
                                   THEN "store" ELSE "publish"]
        /\ UNCHANGED <<profiles, keychain, strays, connecting, stale, orphaned, runs, kills>>
    BY <1>2 DEF LoadAdd, Stage, Goto
  <2>2. a \in Account /\ u \in Supported
    BY <2>1 DEF Mutating, Mutates, Requested, Job
  <2>3. [profiles EXCEPT ![a] = Parsed(u)] \in File
    BY <2>2, ParsedRecord DEF TypeOK, File
  <2>4. Adding(p)'
    BY <2>1 DEF Adding, TypeOK
  <2>5. pc'[p] = "publish" => Stored(p)'
    BY <2>1 DEF TypeOK, Stored
  <2>6. QED
    BY <2>1, <2>3, <2>4, <2>5, LoadInv
<1>3. QED
  BY <1>1, <1>2

LEMMA LoadRemoveInv ==
    ASSUME ProfilesInv, NEW p \in Proc, LoadRemove(p)
    PROVE  ProfilesInv'
<1> DEFINE a == job[p].a
<1> USE DEF ProfilesInv
<1>1. CASE End(p)
  BY <1>1, LoadInv DEF LoadRemove
<1>2. CASE ~End(p)
  <2>1. /\ pc[p] = "load" /\ job[p].do = "remove"
        /\ profiles[a] # None
        /\ staged' = [staged EXCEPT ![p] = [profiles EXCEPT ![a] = None]]
        /\ UNCHANGED <<job, lock>>
        /\ pc' = [pc EXCEPT ![p] = "publish"]
        /\ UNCHANGED <<profiles, keychain, strays, connecting, stale, orphaned, runs, kills>>
    BY <1>2 DEF LoadRemove, Stage, Goto
  <2>2. [profiles EXCEPT ![a] = None] \in File
    BY DEF TypeOK, File
  <2>3. Removing(p)'
    BY <2>1 DEF Removing, TypeOK
  <2>4. pc'[p] = "publish"
    BY <2>1 DEF TypeOK
  <2>5. QED
    BY <2>1, <2>2, <2>3, <2>4, LoadInv
<1>3. QED
  BY <1>1, <1>2

LEMMA StorePasswordInv ==
    ASSUME ProfilesInv, NEW p \in Proc, StorePassword(p)
    PROVE  ProfilesInv'
<1> DEFINE a == job[p].a
           u == job[p].u
<1> USE DEF ProfilesInv
<1>0. /\ pc[p] = "store" /\ lock = p /\ Requested(p) /\ Adding(p)
      /\ a \in Account /\ u \in Supported /\ profiles[a] = None
      /\ SecretOf[u] \in Key
  <2>1. pc[p] = "store" /\ lock = p /\ Requested(p) /\ Adding(p)
    BY DEF StorePassword, Mutating, Mutates, Holding
  <2>2. QED
    BY <2>1, SecretIsKey, UriAssumption DEF Requested, Adding, Job
<1>1. CASE End(p) /\ UNCHANGED <<keychain, stale>>
  <2>1. End(p)
    BY <1>1
  <2>2. TypeOK'
    BY <1>1, <2>1, Ends DEF StorePassword, TypeOK, connecting
  <2>3. Mutating'
    BY <1>1, <2>1, Ends, OthersMutate DEF StorePassword, Mutating, Mutates, Holding
  <2>4. Connecting'
    BY <1>0, <1>1, <2>1, Ends DEF StorePassword, Connecting, Connected, connecting
  <2>5. StraysAreOrphans' /\ ConnectIsRight'
    BY <1>1 DEF StorePassword, StraysAreOrphans, ConnectIsRight, connecting
  <2>6. QED
    BY <1>1, <2>2, <2>3, <2>4, <2>5, Frame DEF StorePassword
<1>2. CASE ~(End(p) /\ UNCHANGED <<keychain, stale>>)
  <2>1. /\ keychain' = [keychain EXCEPT ![a] = SecretOf[u]]
        /\ Touch(a)
        /\ \/ Goto(p, "publish") /\ UNCHANGED <<job, staged, lock>>
           \/ End(p)
        /\ UNCHANGED <<profiles, strays, connecting, orphaned, runs, kills>>
    BY <1>2 DEF StorePassword
  <2>2. /\ pc'[p] \in {"publish", "idle"}
        /\ pc'[p] = "publish" => UNCHANGED <<job, staged, lock>>
        /\ pc' \in [Proc -> Holding \cup {"idle", "lock", "detail", "plain"}]
        /\ job' \in [Proc -> Job \cup {None}]
        /\ staged' \in [Proc -> File \cup {None}]
        /\ lock' \in Proc \cup {None}
        /\ \A q \in Proc \ {p} : pc'[q] = pc[q] /\ job'[q] = job[q]
    <3>1. CASE End(p)
      BY <3>1, Ends
    <3>2. CASE ~End(p)
      BY <2>1, <3>2 DEF TypeOK, Goto, Holding
    <3>3. QED
      BY <3>1, <3>2
  <2>3. TypeOK'
    <3>1. stale' \in [Proc -> BOOLEAN]
      BY <2>1 DEF Touch, TypeOK
    <3>2. keychain' \in [Account -> Key]
      BY <2>1, <1>0 DEF TypeOK
    <3>3. QED
      BY <2>1, <2>2, <3>1, <3>2 DEF TypeOK, connecting
  <2>4. Mutating'
    <3>1. \A q \in Proc \ {p} : pc'[q] \notin Holding /\ (pc'[q] = "lock" => Requested(q)')
      BY <1>0, <2>2, Alone DEF Mutating, Mutates, Requested, Holding
    <3>2. pc'[p] = "publish" => Requested(p)' /\ lock' = p /\ Adding(p)' /\ Stored(p)'
      BY <1>0, <2>1, <2>2 DEF Requested, Adding, Stored, TypeOK
    <3>3. QED
      BY <2>2, <3>1, <3>2 DEF Mutating, Mutates, Holding
  <2>5. Connecting'
    <3>1. \A q \in Proc : ~stale'[q] => ~stale[q] /\ ~(found[q] # None /\ job[q].a = a)
      BY <2>1 DEF Touch
    <3>2. \A c \in Account \ {a} : profiles'[c] = profiles[c] /\ keychain'[c] = keychain[c]
      BY <2>1 DEF TypeOK
    <3>3. found'[p] = None
      BY <1>0, <2>1 DEF Connecting, Connected, connecting
    <3>4. \A q \in Proc \ {p} : found'[q] = found[q]
      BY <2>1 DEF connecting
    <3>5. \A q \in Proc \ {p} : Connected(q)'
      BY <2>2, <3>1, <3>2, <3>4, OthersConnect
    <3>6. Connected(p)'
      BY <2>2, <3>3 DEF Connected
    <3>7. QED
      BY <3>5, <3>6 DEF Connecting
  <2>6. StraysAreOrphans' /\ NoneMeansNone'
    BY <2>1 DEF StraysAreOrphans, NoneMeansNone
  <2>7. BoundIsOwn'
    BY <1>0, <2>1 DEF BoundIsOwn, TypeOK
  <2>8. ConnectIsRight'
    BY <2>1 DEF ConnectIsRight, Touch, connecting
  <2>9. QED
    BY <2>3, <2>4, <2>5, <2>6, <2>7, <2>8
<1>3. QED
  BY <1>1, <1>2

\* A mutation that ends without having changed anything.
LEMMA EndInv ==
    ASSUME ProfilesInv, NEW p \in Proc, pc[p] \in Holding, End(p),
           UNCHANGED <<profiles, keychain, strays, connecting, stale, orphaned, runs, kills>>
    PROVE  ProfilesInv'
<1> USE DEF ProfilesInv
<1>1. TypeOK'
  BY Ends DEF TypeOK, connecting
<1>2. Mutating'
  BY Ends, OthersMutate DEF Mutating, Mutates, Holding
<1>3. Connecting'
  BY Ends DEF Connecting, Connected, connecting, Holding
<1>4. StraysAreOrphans' /\ ConnectIsRight'
  BY DEF StraysAreOrphans, ConnectIsRight, connecting
<1>5. QED
  BY <1>1, <1>2, <1>3, <1>4, Frame

\* A mutation that changes its own profile or its own password, and goes on to
\* the deletion of the password or ends.
LEMMA ChangeInv ==
    ASSUME ProfilesInv, NEW p \in Proc, pc[p] \in Holding, NEW a \in Account,
           profiles' \in File, keychain' \in [Account -> Key], Touch(a),
           \A c \in Account \ {a} : profiles'[c] = profiles[c] /\ keychain'[c] = keychain[c],
           (profiles'[a] # None /\ profiles'[a].password = "none") =>
               SecretOf[profiles'[a].uri] = None,
           (Darwin /\ ~orphaned /\ profiles'[a] # None /\ Expects(profiles'[a]) = "yes") =>
               keychain'[a] = SecretOf[profiles'[a].uri],
           \/ End(p)
           \/ /\ pc' = [pc EXCEPT ![p] = "delete"] /\ UNCHANGED <<job, staged, lock>>
              /\ job[p].a = a /\ profiles'[a] = None,
           UNCHANGED <<strays, connecting, orphaned, runs, kills>>
    PROVE  ProfilesInv'
<1> USE DEF ProfilesInv
<1>1. /\ pc'[p] \in {"delete", "idle"}
      /\ pc'[p] = "delete" => /\ UNCHANGED <<job, staged, lock>>
                              /\ job[p].a = a /\ profiles'[a] = None
      /\ pc' \in [Proc -> Holding \cup {"idle", "lock", "detail", "plain"}]
      /\ job' \in [Proc -> Job \cup {None}]
      /\ staged' \in [Proc -> File \cup {None}]
      /\ lock' \in Proc \cup {None}
      /\ \A q \in Proc \ {p} : pc'[q] = pc[q] /\ job'[q] = job[q]
  <2>1. CASE End(p)
    BY <2>1, Ends
  <2>2. CASE ~End(p)
    BY <2>2 DEF TypeOK, Holding
  <2>3. QED
    BY <2>1, <2>2
<1>2. TypeOK'
  <2>1. stale' \in [Proc -> BOOLEAN]
    BY DEF Touch, TypeOK
  <2>2. QED
    BY <1>1, <2>1 DEF TypeOK, connecting
<1>3. Mutating'
  <2>1. \A q \in Proc \ {p} : pc'[q] \notin Holding /\ (pc'[q] = "lock" => Requested(q)')
    BY <1>1, Alone DEF Mutating, Mutates, Requested, Holding
  <2>2. pc'[p] = "delete" => Requested(p)' /\ lock' = p /\ profiles'[job'[p].a] = None
    BY <1>1 DEF Requested, Mutating, Mutates, Holding
  <2>3. QED
    BY <1>1, <2>1, <2>2 DEF Mutating, Mutates, Holding
<1>4. Connecting'
  <2>1. \A q \in Proc : ~stale'[q] => ~stale[q] /\ ~(found[q] # None /\ job[q].a = a)
    BY DEF Touch
  <2>2. \A q \in Proc : found'[q] = found[q]
    BY DEF connecting
  <2>3. \A q \in Proc \ {p} : Connected(q)'
    BY <1>1, <2>1, <2>2, OthersConnect
  <2>4. Connected(p)'
    BY <1>1, <2>2 DEF Connecting, Connected, Holding
  <2>5. QED
    BY <2>3, <2>4 DEF Connecting
<1>5. StraysAreOrphans' /\ NoneMeansNone'
  BY DEF StraysAreOrphans, NoneMeansNone
<1>6. BoundIsOwn'
  BY DEF BoundIsOwn
<1>7. ConnectIsRight'
  BY DEF ConnectIsRight, Touch, connecting
<1>8. QED
  BY <1>2, <1>3, <1>4, <1>5, <1>6, <1>7

\* What a mutation publishes is the present file but for its own profile.
LEMMA Publishes ==
    ASSUME ProfilesInv, NEW p \in Proc, pc[p] = "publish"
    PROVE  /\ job[p].a \in Account /\ staged[p] \in File
           /\ \A c \in Account \ {job[p].a} : staged[p][c] = profiles[c]
           /\ \/ /\ job[p].do = "add" /\ job[p].u \in Supported
                 /\ profiles[job[p].a] = None /\ Stored(p)
                 /\ staged[p][job[p].a] = Parsed(job[p].u)
              \/ /\ job[p].do = "remove" /\ profiles[job[p].a] # None
                 /\ staged[p][job[p].a] = None
<1> USE DEF ProfilesInv
<1>1. /\ Requested(p) /\ ((Adding(p) /\ Stored(p)) \/ Removing(p))
      /\ profiles \in File
  BY DEF Mutating, Mutates, TypeOK
<1>2. job[p].a \in Account
  BY <1>1 DEF Requested, Job
<1>3. CASE Removing(p)
  BY <1>1, <1>2, <1>3 DEF Removing, File
<1>4. CASE Adding(p) /\ Stored(p)
  <2>1. job[p].u \in Supported
    BY <1>1, <1>4 DEF Requested, Adding
  <2>2. QED
    BY <1>1, <1>2, <1>4, <2>1, ParsedRecord DEF Adding, File
<1>5. QED
  BY <1>1, <1>3, <1>4

LEMMA PublishInv ==
    ASSUME ProfilesInv, NEW p \in Proc, Publish(p)
    PROVE  ProfilesInv'
<1> DEFINE a == job[p].a
<1> USE DEF ProfilesInv
<1>1. pc[p] = "publish" /\ pc[p] \in Holding
  BY DEF Publish, Holding
<1>2. CASE End(p) /\ UNCHANGED <<profiles, stale>>
  BY <1>1, <1>2, EndInv DEF Publish
<1>3. CASE ~(End(p) /\ UNCHANGED <<profiles, stale>>)
  <2>1. /\ profiles' = staged[p] /\ Touch(a)
        /\ \/ End(p)
           \/ /\ job[p].do = "remove"
              /\ pc' = [pc EXCEPT ![p] = "delete"] /\ UNCHANGED <<job, staged, lock>>
        /\ UNCHANGED <<keychain, strays, connecting, orphaned, runs, kills>>
    BY <1>3 DEF Publish, Goto
  <2>2. /\ a \in Account /\ profiles' \in File /\ keychain' \in [Account -> Key]
        /\ \A c \in Account \ {a} : profiles'[c] = profiles[c] /\ keychain'[c] = keychain[c]
    BY <1>1, <2>1, Publishes DEF TypeOK
  <2>3. job[p].do = "remove" => profiles'[a] = None
    BY <1>1, <2>1, Publishes
  <2>4. /\ (profiles'[a] # None /\ profiles'[a].password = "none") =>
               SecretOf[profiles'[a].uri] = None
        /\ (Darwin /\ ~orphaned /\ profiles'[a] # None /\ Expects(profiles'[a]) = "yes") =>
               keychain'[a] = SecretOf[profiles'[a].uri]
    <3>1. CASE job[p].do = "remove"
      BY <2>3, <3>1
    <3>2. CASE job[p].do # "remove"
      <4>1. /\ job[p].u \in Supported /\ Stored(p)
            /\ profiles'[a] = Parsed(job[p].u)
        BY <1>1, <2>1, <3>2, Publishes
      <4>2. QED
        BY <2>1, <4>1, ParsedRecord DEF Stored
    <3>3. QED
      BY <3>1, <3>2
  <2>5. QED
    BY <1>1, <2>1, <2>2, <2>3, <2>4, ChangeInv
<1>4. QED
  BY <1>2, <1>3

LEMMA DeletePasswordInv ==
    ASSUME ProfilesInv, NEW p \in Proc, DeletePassword(p)
    PROVE  ProfilesInv'
<1> DEFINE a == job[p].a
<1> USE DEF ProfilesInv
<1>1. /\ pc[p] = "delete" /\ pc[p] \in Holding /\ a \in Account
      /\ profiles[a] = None /\ End(p)
      /\ UNCHANGED <<profiles, strays, connecting, orphaned, runs, kills>>
  BY DEF DeletePassword, Holding, Mutating, Mutates, Requested, Job
<1>2. CASE UNCHANGED <<keychain, stale>>
  BY <1>1, <1>2, EndInv
<1>3. CASE ~UNCHANGED <<keychain, stale>>
  <2>1. keychain' = [keychain EXCEPT ![a] = None] /\ Touch(a)
    BY <1>3 DEF DeletePassword
  <2>2. /\ keychain' \in [Account -> Key] /\ profiles' \in File
        /\ \A c \in Account \ {a} : profiles'[c] = profiles[c] /\ keychain'[c] = keychain[c]
        /\ profiles'[a] = None
    BY <1>1, <2>1 DEF TypeOK, Key
  <2>3. QED
    BY <1>1, <2>1, <2>2, ChangeInv
<1>4. QED
  BY <1>2, <1>3

\* The end of a connect, with what it answers.
LEMMA UseInv ==
    ASSUME ProfilesInv, NEW p \in Proc, pc[p] \in {"idle", "detail", "plain"},
           NEW uri \in Uri \cup {None},
           NEW s \in Key \cup {Garbled(t) : t \in Secret},
           Use(p, uri, s),
           stale' \in [Proc -> BOOLEAN],
           \A q \in Proc \ {p} : stale'[q] = stale[q],
           (~orphaned /\ uri # None /\ ~stale'[p]) => s = SecretOf[uri],
           runs' \in 0..MaxRuns,
           UNCHANGED <<profiles, keychain, strays, orphaned, kills>>
    PROVE  ProfilesInv'
<1> USE DEF ProfilesInv
<1>1. End(p)
  BY DEF Use
<1>2. /\ used' = [used EXCEPT ![p] = [uri |-> uri, secret |-> s]]
      /\ found' = [found EXCEPT ![p] = None]
  BY DEF Use
<1>3. TypeOK'
  BY <1>1, <1>2, Ends DEF TypeOK
<1>4. Mutating'
  BY <1>1, Ends, OthersMutate DEF Mutating, Mutates, Holding
<1>5. Connecting'
  <2>1. \A q \in Proc \ {p} : Connected(q)'
    BY <1>1, <1>2, Ends DEF Connecting, Connected, TypeOK
  <2>2. Connected(p)'
    BY <1>1, <1>2, Ends DEF Connected, TypeOK
  <2>3. QED
    BY <2>1, <2>2 DEF Connecting
<1>6. StraysAreOrphans'
  BY DEF StraysAreOrphans
<1>7. ConnectIsRight'
  <2>1. used'[p].uri = uri /\ used'[p].secret = s
    BY <1>2 DEF TypeOK
  <2>2. \A q \in Proc \ {p} : used'[q] = used[q]
    BY <1>2 DEF TypeOK
  <2>3. QED
    BY <2>1, <2>2 DEF ConnectIsRight
<1>8. QED
  BY <1>3, <1>4, <1>5, <1>6, <1>7, Frame

\* A connect that was told nothing.
LEMMA GiveUpInv ==
    ASSUME ProfilesInv, NEW p \in Proc, pc[p] \in {"detail", "plain"}, GiveUp(p),
           UNCHANGED <<profiles, keychain, strays, orphaned, runs, kills>>
    PROVE  ProfilesInv'
BY UseInv DEF GiveUp, ProfilesInv, TypeOK, Key

LEMMA ReadProfileInv ==
    ASSUME ProfilesInv, NEW p \in Proc, NEW a \in Account, ReadProfile(p, a)
    PROVE  ProfilesInv'
<1> DEFINE r == profiles[a]
<1> USE DEF ProfilesInv
<1>1. /\ pc[p] = "idle" /\ runs < MaxRuns /\ runs' = runs + 1
      /\ r # None /\ Expects(r) # "invalid"
      /\ stale' = [stale EXCEPT ![p] = FALSE]
      /\ UNCHANGED <<profiles, keychain, strays, orphaned, kills>>
  BY DEF ReadProfile
<1>2. r \in Record /\ r.uri \in Uri
  BY <1>1 DEF TypeOK, File, Record
<1>3. stale' \in [Proc -> BOOLEAN] /\ runs' \in 0..MaxRuns
  BY <1>1, ProfilesAssumption DEF TypeOK
<1>4. CASE Expects(r) # "yes"
  <2>1. Expects(r) = "no"
    BY <1>1, <1>2, <1>4, ExpectsKinds
  <2>2. SecretOf[r.uri] = None
    BY <1>1, <1>2, <2>1, NoCredential DEF NoneMeansNone
  <2>3. Use(p, r.uri, None) /\ None \in Key
    BY <1>4 DEF ReadProfile, Key
  <2>4. \A q \in Proc \ {p} : stale'[q] = stale[q]
    BY <1>1 DEF TypeOK
  <2>5. QED
    BY <1>1, <1>2, <1>3, <2>2, <2>3, <2>4, UseInv
<1>5. CASE Expects(r) = "yes"
  <2>0. /\ job' = [job EXCEPT ![p] = [do |-> "connect", a |-> a, u |-> None]]
        /\ found' = [found EXCEPT ![p] = r.uri]
        /\ used' = [used EXCEPT ![p] = NoPair]
        /\ pc' = [pc EXCEPT ![p] = "detail"] /\ UNCHANGED <<staged, lock>>
    BY <1>5 DEF ReadProfile, Goto
  <2>1. [do |-> "connect", a |-> a, u |-> None] \in Job
    BY DEF Job
  <2>2. TypeOK'
    BY <1>1, <1>2, <1>3, <2>0, <2>1 DEF TypeOK, NoPair, Key
  <2>3. Mutating'
    <3>1. Mutates(p)'
      BY <2>0 DEF TypeOK, Mutates, Holding
    <3>2. \A q \in Proc \ {p} : Mutates(q)'
      BY <1>1, <2>0, OthersMutate DEF TypeOK, Mutates
    <3>3. QED
      BY <3>1, <3>2 DEF Mutating
  <2>4. Connecting'
    <3>1. Connected(p)'
      BY <1>1, <1>2, <1>5, <2>0, <2>1 DEF TypeOK, Connected
    <3>2. \A q \in Proc \ {p} : Connected(q)'
      BY <1>1, <2>0 DEF TypeOK, Connecting, Connected
    <3>3. QED
      BY <3>1, <3>2 DEF Connecting
  <2>5. StraysAreOrphans'
    BY <1>1 DEF StraysAreOrphans
  <2>6. ConnectIsRight'
    BY <1>1, <2>0 DEF TypeOK, ConnectIsRight, NoPair
  <2>7. QED
    BY <1>1, <2>2, <2>3, <2>4, <2>5, <2>6, Frame
<1>6. QED
  BY <1>4, <1>5

\* A connect that is not behind reads the password of its endpoint.
LEMMA RightPassword ==
    ASSUME ProfilesInv, NEW p \in Proc, pc[p] \in {"detail", "plain"}, Darwin,
           ~orphaned, ~stale[p]
    PROVE  /\ keychain[job[p].a] = SecretOf[found[p]]
           /\ pc[p] = "plain" => keychain[job[p].a] \notin Binary
BY DEF ProfilesInv, Connecting, Connected, BoundIsOwn, Job

LEMMA ReadDetailInv ==
    ASSUME ProfilesInv, NEW p \in Proc, ReadDetail(p)
    PROVE  ProfilesInv'
<1> DEFINE s == keychain[job[p].a]
<1> USE DEF ProfilesInv
<1>1. /\ pc[p] = "detail" /\ job[p].a \in Account /\ found[p] \in Uri /\ s \in Key
      /\ UNCHANGED <<profiles, keychain, strays, orphaned, runs, kills>>
  BY DEF ReadDetail, Connecting, Connected, Job, TypeOK
<1>2. CASE Darwin /\ s \in Binary /\ Use(p, found[p], s) /\ UNCHANGED stale
  BY <1>1, <1>2, RightPassword, UseInv DEF TypeOK
<1>3. CASE /\ Darwin /\ s # None /\ s \notin Binary
           /\ Goto(p, "plain") /\ UNCHANGED <<job, staged, lock, connecting, stale>>
  <2>1. TypeOK'
    BY <1>1, <1>3 DEF TypeOK, Goto, connecting
  <2>2. Mutating'
    <3>1. Mutates(p)'
      BY <1>1, <1>3 DEF TypeOK, Mutates, Holding, Goto
    <3>2. \A q \in Proc \ {p} : Mutates(q)'
      BY <1>1, <1>3, OthersMutate DEF TypeOK, Mutates, Goto
    <3>3. QED
      BY <3>1, <3>2 DEF Mutating
  <2>3. Connecting'
    BY <1>1, <1>3 DEF TypeOK, Connecting, Connected, Goto, connecting
  <2>4. StraysAreOrphans' /\ ConnectIsRight'
    BY <1>1, <1>3 DEF StraysAreOrphans, ConnectIsRight, connecting
  <2>5. QED
    BY <1>1, <2>1, <2>2, <2>3, <2>4, Frame
<1>4. CASE GiveUp(p)
  BY <1>1, <1>4, GiveUpInv
<1>5. QED
  BY <1>2, <1>3, <1>4 DEF ReadDetail

LEMMA ReadPlainInv ==
    ASSUME ProfilesInv, NEW p \in Proc, ReadPlain(p)
    PROVE  ProfilesInv'
<1> DEFINE s == keychain[job[p].a]
           answer == IF s \in Binary THEN Garbled(s) ELSE s
<1> USE DEF ProfilesInv
<1>1. /\ pc[p] = "plain" /\ Darwin /\ job[p].a \in Account /\ found[p] \in Uri
      /\ s \in Key
      /\ UNCHANGED <<profiles, keychain, strays, orphaned, runs, kills>>
  BY DEF ReadPlain, Connecting, Connected, Job, TypeOK
<1>2. CASE s # None /\ Use(p, found[p], answer) /\ UNCHANGED stale
  <2>1. answer \in Key \cup {Garbled(t) : t \in Secret}
    BY <1>1, ProfilesAssumption
  <2>2. (~orphaned /\ ~stale'[p]) => answer = SecretOf[found[p]]
    BY <1>1, <1>2, RightPassword
  <2>3. QED
    BY <1>1, <1>2, <2>1, <2>2, UseInv DEF TypeOK
<1>3. CASE GiveUp(p)
  BY <1>1, <1>3, GiveUpInv
<1>4. QED
  BY <1>2, <1>3 DEF ReadPlain

LEMMA KillInv ==
    ASSUME ProfilesInv, NEW p \in Proc, Kill(p)
    PROVE  ProfilesInv'
<1> USE DEF ProfilesInv
<1>1. /\ End(p) /\ kills < MaxKills /\ kills' = kills + 1
      /\ found' = [found EXCEPT ![p] = None]
      /\ UNCHANGED <<profiles, keychain, stale, used, runs>>
  BY DEF Kill
<1>2. /\ strays' \subseteq [a : Account, secret : Key]
      /\ (UNCHANGED <<strays, orphaned>>) \/ orphaned' = TRUE
  <2>1. CASE UNCHANGED <<strays, orphaned>>
    BY <2>1 DEF TypeOK
  <2>2. CASE ~UNCHANGED <<strays, orphaned>>
    <3> DEFINE stray == [a |-> job[p].a,
                         secret |-> IF pc[p] = "store" THEN SecretOf[job[p].u] ELSE None]
    <3>1. /\ pc[p] \in {"store", "delete"} /\ strays' = strays \cup {stray}
          /\ orphaned' = TRUE
      BY <2>2 DEF Kill
    <3>2. Requested(p) /\ (pc[p] = "store" => Adding(p))
      BY <3>1 DEF Mutating, Mutates
    <3>3. job[p].a \in Account
      BY <3>2 DEF Requested, Job
    <3>4. pc[p] = "store" => SecretOf[job[p].u] \in Key
      BY <3>2, SecretIsKey, UriAssumption DEF Requested, Adding
    <3>5. stray \in [a : Account, secret : Key]
      BY <3>3, <3>4 DEF Key
    <3>6. QED
      BY <3>1, <3>5 DEF TypeOK
  <2>3. QED
    BY <2>1, <2>2
<1>3. TypeOK'
  <2>1. kills' \in 0..MaxKills
    BY <1>1, ProfilesAssumption DEF TypeOK
  <2>2. orphaned' \in BOOLEAN
    BY <1>2 DEF TypeOK
  <2>3. QED
    BY <1>1, <1>2, <2>1, <2>2, Ends DEF TypeOK
<1>4. orphaned => orphaned'
  BY <1>2
<1>5. Mutating'
  <2>1. Mutates(p)'
    BY <1>1, Ends DEF Mutates, Holding
  <2>2. \A q \in Proc \ {p} : Mutates(q)'
    BY <1>1, <1>4, Ends, OthersMutate DEF Mutates
  <2>3. QED
    BY <2>1, <2>2 DEF Mutating
<1>6. Connecting'
  <2>1. Connected(p)'
    BY <1>1, Ends DEF TypeOK, Connected
  <2>2. \A q \in Proc \ {p} : Connected(q)'
    BY <1>1, Ends DEF TypeOK, Connecting, Connected
  <2>3. QED
    BY <2>1, <2>2 DEF Connecting
<1>7. StraysAreOrphans'
  BY <1>2 DEF StraysAreOrphans
<1>8. NoneMeansNone' /\ BoundIsOwn' /\ ConnectIsRight'
  BY <1>1, <1>2 DEF NoneMeansNone, BoundIsOwn, ConnectIsRight
<1>9. QED
  BY <1>3, <1>5, <1>6, <1>7, <1>8

LEMMA StrayLandsInv ==
    ASSUME ProfilesInv, NEW o \in strays, StrayLands(o)
    PROVE  ProfilesInv'
<1> USE DEF ProfilesInv
<1>1. /\ keychain' = [keychain EXCEPT ![o.a] = o.secret] /\ Touch(o.a)
      /\ strays' = strays \ {o}
      /\ UNCHANGED <<profiles, lock, pc, job, staged, connecting, orphaned, runs, kills>>
  BY DEF StrayLands
<1>2. orphaned /\ orphaned'
  BY <1>1 DEF StraysAreOrphans
<1>3. TypeOK'
  <2>1. o \in [a : Account, secret : Key]
    BY DEF TypeOK
  <2>2. keychain' \in [Account -> Key]
    BY <1>1, <2>1 DEF TypeOK
  <2>3. stale' \in [Proc -> BOOLEAN]
    BY <1>1 DEF Touch, TypeOK
  <2>4. QED
    BY <1>1, <2>2, <2>3 DEF TypeOK, connecting
<1>4. Mutating'
  BY <1>1, <1>2 DEF Mutating, Mutates, Requested, Adding, Removing, Stored
<1>5. Connecting'
  <2>1. \A q \in Proc : ~stale'[q] => ~stale[q] /\ ~(found[q] # None /\ job[q].a = o.a)
    BY <1>1 DEF Touch
  <2>2. \A c \in Account \ {o.a} : profiles'[c] = profiles[c] /\ keychain'[c] = keychain[c]
    BY <1>1 DEF TypeOK
  <2>3. \A q \in Proc : found'[q] = found[q] /\ pc'[q] = pc[q] /\ job'[q] = job[q]
    BY <1>1 DEF connecting
  <2>4. \A q \in Proc : Connected(q)'
    BY <2>1, <2>2, <2>3, OthersConnect
  <2>5. QED
    BY <2>4 DEF Connecting
<1>6. StraysAreOrphans' /\ NoneMeansNone' /\ BoundIsOwn' /\ ConnectIsRight'
  BY <1>1, <1>2 DEF StraysAreOrphans, NoneMeansNone, BoundIsOwn, ConnectIsRight
<1>7. QED
  BY <1>3, <1>4, <1>5, <1>6

-----------------------------------------------------------------------------
(* The theorems.                                                           *)

LEMMA InitInv ==
    ASSUME Init
    PROVE  ProfilesInv
<1>1. profiles \in File /\ \A a \in Account : profiles[a] # None => profiles[a] \in Legacy
  BY ProfilesAssumption DEF Init, File
<1>2. keychain \in [Account -> Key]
  <2>1. \A a \in Account : profiles[a] # None => SecretOf[profiles[a].uri] \in Key
    BY <1>1, ProfilesAssumption, SecretIsKey DEF Record
  <2>2. QED
    BY <2>1 DEF Init, Key
<1>3. TypeOK
  <2>1. used \in [Proc -> [uri : Uri \cup {None},
                           secret : Key \cup {Garbled(s) : s \in Secret}]]
    <3>1. None \in Key \cup {Garbled(s) : s \in Secret}
      BY DEF Key
    <3>2. QED
      BY <3>1 DEF Init, NoPair
  <2>2. runs \in 0..MaxRuns /\ kills \in 0..MaxKills
    BY ProfilesAssumption DEF Init
  <2>3. QED
    BY <1>1, <1>2, <2>1, <2>2 DEF Init, TypeOK, Holding
<1>4. Mutating /\ Connecting
  BY DEF Init, Mutating, Mutates, Connecting, Connected, Holding
<1>5. StraysAreOrphans /\ ConnectIsRight
  BY DEF Init, StraysAreOrphans, ConnectIsRight, NoPair
<1>6. NoneMeansNone
  BY <1>1, LegacyAssumption DEF NoneMeansNone
<1>7. BoundIsOwn
  BY DEF Init, BoundIsOwn
<1>8. QED
  BY <1>3, <1>4, <1>5, <1>6, <1>7 DEF ProfilesInv

LEMMA NextInv ==
    ASSUME ProfilesInv, [Next]_vars
    PROVE  ProfilesInv'
<1>1. ASSUME NEW p \in Proc, NEW a \in Account, NEW u \in Uri, StartAdd(p, a, u)
      PROVE  ProfilesInv'
  <2>1. [do |-> "add", a |-> a, u |-> u] \in Job
    BY DEF Job
  <2>2. QED
    BY <1>1, <2>1, BeginInv DEF StartAdd
<1>2. ASSUME NEW p \in Proc, NEW a \in Account, StartRemove(p, a)
      PROVE  ProfilesInv'
  <2>1. [do |-> "remove", a |-> a, u |-> None] \in Job
    BY DEF Job
  <2>2. QED
    BY <1>2, <2>1, BeginInv DEF StartRemove
<1>3. CASE UNCHANGED vars
  BY <1>3 DEF vars, connecting, ProfilesInv, TypeOK, Mutating, Mutates, Requested, Adding,
              Removing, Stored, Connecting, Connected, StraysAreOrphans, NoneMeansNone,
              BoundIsOwn, ConnectIsRight
<1>4. QED
  BY <1>1, <1>2, <1>3, ReadProfileInv, TakeLockInv, LoadAddInv, LoadRemoveInv,
     StorePasswordInv, PublishInv, DeletePasswordInv, ReadDetailInv, ReadPlainInv,
     KillInv, StrayLandsInv DEF Next

\* The inductive invariant: a mutation that found its way holds the lock and has
\* staged the present file but for its own profile, and a connect that is not
\* behind holds the endpoint that is published.
THEOREM ProfilesInvariant == Spec => []ProfilesInv
<1>1. Init => ProfilesInv
  BY InitInv
<1>2. ProfilesInv /\ [Next]_vars => ProfilesInv'
  BY NextInv
<1>3. QED
  BY <1>1, <1>2, PTL DEF Spec

\* Every variable of the profiles and of the commands on them keeps its type.
THEOREM TypeCorrect == Spec => []TypeOK
<1>1. ProfilesInv => TypeOK
  BY DEF ProfilesInv
<1>2. QED
  BY <1>1, ProfilesInvariant, PTL

\* store_profile and remove_profile: as long as no child outlived its parent, a
\* profile that expects a password has the one that was given with its endpoint,
\* whatever failed or was killed in between.
THEOREM PasswordsAreBound == Spec => []BoundIsOwn
<1>1. ProfilesInv => BoundIsOwn
  BY DEF ProfilesInv
<1>2. QED
  BY <1>1, ProfilesInvariant, PTL

\* connect: an endpoint is never given another one's password, unless the profile
\* or its password changed between the reads.
THEOREM ConnectionsArePaired == Spec => []ConnectIsRight
<1>1. ProfilesInv => ConnectIsRight
  BY DEF ProfilesInv
<1>2. QED
  BY <1>1, ProfilesInvariant, PTL

\* _profile_mutation_lock and _stage_profiles: a file staged earlier never takes
\* back the addition or the removal of another process.
THEOREM NobodyIsOverwritten == Spec => OnlyOwnAccount
<1> DEFINE Own == \A a \in Account :
          (profiles'[a] # profiles[a]) =>
              \E p \in Proc : /\ pc[p] = "publish" /\ job[p].a = a
                              /\ \/ job[p].do = "add" /\ profiles[a] = None
                                 \/ job[p].do = "remove" /\ profiles'[a] = None
<1>1. ASSUME ProfilesInv, NEW p \in Proc, Publish(p)
      PROVE  Own
  <2>1. pc[p] = "publish" /\ (profiles' = profiles \/ profiles' = staged[p])
    BY <1>1 DEF Publish
  <2>2. QED
    BY <1>1, <2>1, Publishes
<1>2. ASSUME [Next]_vars, ~ \E p \in Proc : Publish(p)
      PROVE  profiles' = profiles
  <2>1. CASE UNCHANGED vars
    BY <2>1 DEF vars
  <2>2. CASE Next
    BY <1>2, <2>2 DEF Next, StartAdd, StartRemove, Begin, ReadProfile, TakeLock, LoadAdd,
       LoadRemove, StorePassword, DeletePassword, ReadDetail, ReadPlain, Kill, StrayLands
  <2>3. QED
    BY <1>2, <2>1, <2>2
<1>3. ProfilesInv /\ [Next]_vars => [Own]_vars
  BY <1>1, <1>2
<1>4. QED
  BY <1>3, ProfilesInvariant, PTL DEF Spec, OnlyOwnAccount

-----------------------------------------------------------------------------
(* agent-db.                                                               *)

\* What session.json may say, and the profiles that may be staged.
DbSessions == [profile : Account \cup {None}, database : Database \cup {None},
               tx : BOOLEAN, history : Seq(Write \cup {None})]
DbFiles == [Account -> Database \cup {None}]

\* Where a command that changes the profiles may be, and where another may.
FileSteps == {"loaded", "staged", "refill"}
SessionSteps == {"loaded", "connected", "save", "rewrite"}

Changing == {"add", "remove"}

\* The type of a command.
DbRunning(r) ==
    /\ DOMAIN r = {"at", "cmd", "db", "s"}
    /\ r.cmd \in Db!Command
    /\ IF r.cmd.op \in Changing
       THEN r.at \in FileSteps /\ (r.at # "loaded" => r.s \in DbFiles)
       ELSE r.at \in SessionSteps /\ r.s \in DbSessions
    /\ r.at = "connected" => r.cmd.op \notin Db!NoConnection /\ r.db \in Database

DbTyped ==
    /\ dbProfiles \in DbFiles
    /\ dbSession \in DbSessions
    /\ dbCommitted \in [Database -> SUBSET dbExecuted]
    /\ dbExecuted \subseteq Write
    /\ dbMarked \subseteq dbExecuted
    /\ dbBegun \in BOOLEAN /\ dbAlone \in BOOLEAN
    /\ DOMAIN dbProc = Proc
    /\ \A p \in Proc : dbProc[p] = Db!Idle \/ DbRunning(dbProc[p])

\* What a session says was in the profiles.
DbOfEntry(s) == s = Db!Blank \/ <<s.profile, s.database>> \in dbEntries
DbNames(r) ==
    r.cmd.op \notin Changing =>
    /\ r.at = "loaded" => DbOfEntry(r.s)
    /\ r.at \in {"connected", "save", "rewrite"} => <<r.s.profile, r.s.database>> \in dbEntries
DbEntered ==
    /\ \A n \in Account : dbProfiles[n] # None => <<n, dbProfiles[n]>> \in dbEntries
    /\ DbOfEntry(dbSession)
    /\ \A p \in Proc : dbProc[p].at # "idle" => DbNames(dbProc[p])

\* What command r goes by, when the session file's flag is flag and begun tells
\* whether a transaction is open.
DbAgrees(r, flag, begun) ==
    /\ r.at # "rewrite" /\ begun => flag
    /\ r.cmd.op \notin Changing =>
        /\ r.at \in {"loaded", "connected"} => r.s.tx = flag
        /\ r.at \in {"save", "rewrite"} =>
            \/ r.cmd.op \in {"commit", "rollback"}
            \/ r.s.tx
            \/ r.cmd.op # "begin" /\ ~begun

\* While commands come one after another, the flag of an open transaction is in
\* session.json or with the command that rewrites it.
DbFlagged ==
    dbAlone =>
    /\ \A p, q \in Proc : dbProc[p].at # "idle" /\ dbProc[q].at # "idle" => p = q
    /\ \A p \in Proc : dbProc[p].at # "idle" => DbAgrees(dbProc[p], dbSession.tx, dbBegun)
    /\ (\A p \in Proc : dbProc[p].at = "idle") /\ dbBegun => dbSession.tx
    /\ \A d \in Database : dbMarked \cap dbCommitted[d] = {}

DbInv == DbTyped /\ DbEntered /\ DbFlagged

\* No command runs where a process is idle.
LEMMA DbIdle ==
    ASSUME NEW r, DbRunning(r)
    PROVE  r # Db!Idle /\ r.at # "idle" /\ r.at \in FileSteps \cup SessionSteps
<1>1. r.at # "idle" /\ r.at \in FileSteps \cup SessionSteps
    BY DEF DbRunning, FileSteps, SessionSteps
<1>2. QED BY <1>1 DEF Db!Idle

\* A step of one command leaves the others where they are.
LEMMA DbOthers ==
    ASSUME DbTyped, NEW p \in Proc, NEW r, Db!Becomes(p, r)
    PROVE  /\ DOMAIN dbProc' = Proc /\ dbProc'[p] = r
           /\ \A q \in Proc \ {p} : dbProc'[q] = dbProc[q]
BY DEF DbTyped, Db!Becomes

LEMMA DbReplaces ==
    ASSUME DbTyped, NEW p \in Proc, NEW r, Db!Becomes(p, r), r = Db!Idle \/ DbRunning(r)
    PROVE  /\ DOMAIN dbProc' = Proc
           /\ \A q \in Proc : dbProc'[q] = Db!Idle \/ DbRunning(dbProc'[q])
<1>1. DOMAIN dbProc' = Proc /\ dbProc'[p] = r /\ \A q \in Proc \ {p} : dbProc'[q] = dbProc[q]
    BY DbOthers
<1>2. \A q \in Proc : dbProc[q] = Db!Idle \/ DbRunning(dbProc[q])
    BY DEF DbTyped
<1>3. ASSUME NEW q \in Proc PROVE dbProc'[q] = Db!Idle \/ DbRunning(dbProc'[q])
    <2>1. CASE q = p BY <2>1, <1>1
    <2>2. CASE q # p
        <3>1. dbProc'[q] = dbProc[q] BY <2>2, <1>1
        <3>2. QED BY <3>1, <1>2
    <2>3. QED BY <2>1, <2>2
<1>4. QED BY <1>1, <1>3

\* A command that is somewhere is a command.
LEMMA DbAt ==
    ASSUME DbTyped, NEW p \in Proc, NEW at, Db!At(p, at), at # "idle"
    PROVE  DbRunning(dbProc[p]) /\ dbProc[p].at = at
BY DEF DbTyped, Db!At, Db!Idle

\* What a command may be given besides.
LEMMA DbArgs ==
    ASSUME NEW c \in Db!Command
    PROVE  /\ c.op \in {"connect", "remove"} => c.arg \in Account
           /\ c.op = "add" => /\ c.arg[1] \in Account /\ c.arg[2] \in Database
           /\ c.op \in {"query", "export", "explain"} => c.arg \in Write \cup {None}
BY DEF Db!Command, Db!Reads, Db!NoConnection

\* The actions, as the parts of the proofs take them.
DbReads(p) ==
    Db!Snapshot(p) \/ Db!Describe(p) \/ Db!Sample(p) \/ Db!Count(p) \/ Db!Relations(p)
DbStep(p) ==
    \/ \E c \in DbAsked[p] : Db!Load(p, c)
    \/ Db!Show(p) \/ Db!Disconnect(p)
    \/ Db!ReadProfiles(p) \/ Db!TruncateProfiles(p) \/ Db!WriteProfiles(p)
    \/ \E up \in BOOLEAN : Db!Dial(p, up)
    \/ Db!Connect(p) \/ DbReads(p)
    \/ Db!Query(p) \/ Db!QueryFails(p)
    \/ Db!Begin(p) \/ Db!EndTransaction(p) \/ Db!Truncate(p) \/ Db!Save(p) \/ Db!Kill(p)

LEMMA DbSteps ==
    ASSUME Db!Next
    PROVE  \E p \in Proc : DbStep(p)
BY DEF Db!Next, DbStep, DbReads

\* Steps that end a command and change nothing else.
DbEnds(p) ==
    /\ Db!Finish(p) /\ Db!Quiet
    /\ UNCHANGED <<dbProfiles, dbTorn, dbSession, dbEntries>>
    /\ dbAlone' \in {dbAlone, FALSE}

LEMMA DbEnding ==
    ASSUME NEW p \in Proc, DbTyped,
           Db!Show(p) \/ DbReads(p) \/ Db!QueryFails(p) \/ Db!Kill(p)
    PROVE  DbEnds(p)
BY DEF DbEnds, DbTyped, Db!Show, DbReads, Db!Snapshot, Db!Describe, Db!Sample, Db!Count,
       Db!Relations, Db!Only, Db!QueryFails, Db!Kill

\* The parts of a type.
LEMMA DbTypes ==
    ASSUME DbTyped
    PROVE  /\ dbProfiles \in DbFiles
           /\ dbSession \in DbSessions
           /\ dbCommitted \in [Database -> SUBSET dbExecuted]
           /\ dbExecuted \subseteq Write
           /\ dbMarked \subseteq dbExecuted
           /\ dbBegun \in BOOLEAN /\ dbAlone \in BOOLEAN
BY DEF DbTyped

\* A step that replaces a command by r and leaves the databases alone keeps types.
LEMMA DbTypedQuiet ==
    ASSUME DbTyped, NEW p \in Proc, NEW r, Db!Becomes(p, r), r = Db!Idle \/ DbRunning(r),
           UNCHANGED <<dbCommitted, dbExecuted>>,
           dbMarked' \in {dbMarked, {}}, dbBegun' \in BOOLEAN, dbAlone' \in BOOLEAN,
           dbProfiles' \in DbFiles, dbSession' \in DbSessions
    PROVE  DbTyped'
<1>1. /\ DOMAIN dbProc' = Proc
      /\ \A q \in Proc : dbProc'[q] = Db!Idle \/ DbRunning(dbProc'[q])
    BY DbReplaces
<1>2. (\A q \in Proc : dbProc[q] = Db!Idle \/ DbRunning(dbProc[q]))'
    BY <1>1 DEF DbRunning, DbSessions, DbFiles, Db!Command, Db!Idle, Db!NoConnection,
       Db!Reads, FileSteps, SessionSteps, Changing
<1>3. QED BY <1>1, <1>2, DbTypes DEF DbTyped

LEMMA DbBlank ==
    Db!Blank \in DbSessions
<1>1. <<>> \in Seq(Write \cup {None}) OBVIOUS
<1>2. QED BY <1>1 DEF Db!Blank, DbSessions

\* A command that was at a place and moves to another one.
LEMMA DbMoved ==
    ASSUME NEW r, DbRunning(r), NEW at, NEW s, r.cmd.op \notin Changing,
           at \in {"save", "rewrite"}, s \in DbSessions
    PROVE  DbRunning([r EXCEPT !.at = at, !.s = s])
BY DEF DbRunning, SessionSteps

-----------------------------------------------------------------------------
(* What the fields may be.                                                 *)

LEMMA DbTypedLoad ==
    ASSUME DbTyped, NEW p \in Proc, NEW c \in DbAsked[p], Db!Load(p, c)
    PROVE  DbTyped'
<1> DEFINE r == [at |-> "loaded", cmd |-> c, db |-> None, s |-> dbSession]
<1>1. c \in Db!Command BY DbAssumption
<1>2. DbRunning(r)
    BY <1>1, DbTypes DEF DbRunning, FileSteps, SessionSteps
<1>3. Db!Becomes(p, r) BY DEF Db!Load
<1>4. QED BY <1>2, <1>3, DbTypedQuiet, DbTypes DEF Db!Load, Db!Quiet, Db!At

LEMMA DbTypedReadProfiles ==
    ASSUME DbTyped, NEW p \in Proc, Db!ReadProfiles(p)
    PROVE  DbTyped'
<1>1. DbRunning(dbProc[p]) /\ dbProc[p].at = "loaded" /\ dbProc[p].cmd.op \in Changing
    BY DbAt DEF Db!ReadProfiles, Db!Op, Changing
<1>2. dbProc[p].cmd \in Db!Command BY <1>1 DEF DbRunning
<1>3. PICK r : Db!Becomes(p, r) /\ (r = Db!Idle \/ DbRunning(r))
    <2>1. CASE Db!Finish(p) BY <2>1 DEF Db!Finish
    <2>2. CASE ~Db!Finish(p)
        <3> DEFINE s == IF Db!Op(p) = "add"
                        THEN [dbProfiles EXCEPT ![Db!Arg(p)[1]] = Db!Arg(p)[2]]
                        ELSE [dbProfiles EXCEPT ![Db!Arg(p)] = None]
        <3>1. Db!Becomes(p, [dbProc[p] EXCEPT !.at = "staged", !.s = s])
            BY <2>2 DEF Db!ReadProfiles
        <3>2. s \in DbFiles
            BY <1>1, <1>2, DbArgs, DbTypes DEF DbFiles, Db!Op, Db!Arg, Changing
        <3>3. DbRunning([dbProc[p] EXCEPT !.at = "staged", !.s = s])
            BY <1>1, <3>2 DEF DbRunning, FileSteps
        <3>4. QED BY <3>1, <3>3
    <2>3. QED BY <2>1, <2>2
<1>4. QED BY <1>3, DbTypedQuiet, DbTypes DEF Db!ReadProfiles, Db!Quiet

LEMMA DbTypedTruncateProfiles ==
    ASSUME DbTyped, NEW p \in Proc, Db!TruncateProfiles(p)
    PROVE  DbTyped'
<1>1. DbRunning(dbProc[p]) /\ dbProc[p].at = "staged"
    BY DbAt DEF Db!TruncateProfiles
<1>2. DbRunning([dbProc[p] EXCEPT !.at = "refill"])
    BY <1>1 DEF DbRunning, FileSteps, SessionSteps
<1>3. Db!Becomes(p, [dbProc[p] EXCEPT !.at = "refill"]) BY DEF Db!TruncateProfiles
<1>4. QED BY <1>2, <1>3, DbTypedQuiet, DbTypes DEF Db!TruncateProfiles, Db!Quiet

LEMMA DbTypedWriteProfiles ==
    ASSUME DbTyped, NEW p \in Proc, Db!WriteProfiles(p)
    PROVE  DbTyped'
<1>1. DbRunning(dbProc[p]) /\ dbProc[p].at = "refill"
    BY DbAt DEF Db!WriteProfiles
<1>2. dbProc[p].s \in DbFiles
    BY <1>1 DEF DbRunning, FileSteps, SessionSteps
<1>3. QED BY <1>2, DbTypedQuiet, DbTypes
          DEF Db!WriteProfiles, Db!Quiet, Db!Finish, Db!Mem

LEMMA DbDials ==
    ASSUME DbTyped, DbEntered, NEW p \in Proc, NEW up \in BOOLEAN, Db!Dial(p, up)
    PROVE  \E r : /\ Db!Becomes(p, r)
                  /\ \/ r = Db!Idle
                     \/ /\ DbRunning(r) /\ r.at = "connected"
                        /\ r.cmd = dbProc[p].cmd /\ r.s.tx = dbProc[p].s.tx
                        /\ <<r.s.profile, r.s.database>> \in dbEntries
<1>1. /\ DbRunning(dbProc[p]) /\ dbProc[p].at = "loaded"
      /\ dbProc[p].cmd.op \notin Changing /\ dbProc[p].cmd.op \notin Db!NoConnection
    BY DbAt DEF Db!Dial, Db!Op, Changing
<1>2. dbProc[p].cmd \in Db!Command /\ dbProc[p].s \in DbSessions
    BY <1>1 DEF DbRunning
<1>3. CASE Db!Finish(p) BY <1>3 DEF Db!Finish
<1>4. CASE ~Db!Finish(p)
    <2> DEFINE n == Db!Wanted(p)
               r == Db!Opened(p, dbProfiles[n])
    <2>1. n # None /\ dbProfiles[n] # None /\ Db!Becomes(p, r)
        BY <1>4 DEF Db!Dial
    <2>2. n \in Account
        BY <1>2, <2>1, DbArgs DEF DbSessions, Db!Wanted, Db!Op, Db!Arg, Db!Mem
    <2>3. dbProfiles[n] \in Database BY <2>1, <2>2, DbTypes DEF DbFiles
    <2>4. <<n, dbProfiles[n]>> \in dbEntries BY <2>1, <2>2 DEF DbEntered
    <2> DEFINE s == [dbProc[p].s EXCEPT !.profile = n, !.database = dbProfiles[n]]
    <2>5. /\ s \in DbSessions /\ s.profile = n /\ s.database = dbProfiles[n]
          /\ s.tx = dbProc[p].s.tx
        BY <1>2, <2>2, <2>3 DEF DbSessions
    <2>6. r = [dbProc[p] EXCEPT !.at = "connected", !.db = dbProfiles[n], !.s = s]
        BY DEF Db!Opened, Db!Mem
    <2> HIDE DEF s, n
    <2>7. DbRunning(r) /\ r.at = "connected" /\ r.cmd = dbProc[p].cmd /\ r.s = s
        BY <1>1, <2>3, <2>5, <2>6 DEF DbRunning, SessionSteps
    <2>8. QED BY <2>1, <2>4, <2>5, <2>7
<1>5. QED BY <1>3, <1>4

LEMMA DbTypedDial ==
    ASSUME DbTyped, DbEntered, NEW p \in Proc, NEW up \in BOOLEAN, Db!Dial(p, up)
    PROVE  DbTyped'
<1>1. PICK r : Db!Becomes(p, r) /\ (r = Db!Idle \/ DbRunning(r))
    BY DbDials
<1>2. QED BY <1>1, DbTypedQuiet, DbTypes DEF Db!Dial, Db!Quiet

\* A command on a connection, and what it may save.
LEMMA DbConnected ==
    ASSUME DbTyped, NEW p \in Proc, Db!At(p, "connected")
    PROVE  /\ DbRunning(dbProc[p]) /\ dbProc[p].at = "connected"
           /\ dbProc[p].cmd.op \notin Changing
           /\ dbProc[p].cmd \in Db!Command
           /\ dbProc[p].s \in DbSessions
           /\ dbProc[p].db \in Database
BY DbAt DEF DbRunning, FileSteps

\* Where a saving command comes from, and what of its session it keeps.
DbSaves(p, s) ==
    /\ Db!Saving(p, s) /\ Db!At(p, "connected") /\ s \in DbSessions
    /\ s.profile = dbProc[p].s.profile /\ s.database = dbProc[p].s.database
    /\ s.tx = CASE Db!Op(p) = "begin" -> TRUE
                [] Db!Op(p) \in {"commit", "rollback"} -> FALSE
                [] OTHER -> dbProc[p].s.tx

LEMMA DbConnects ==
    ASSUME DbTyped, NEW p \in Proc, Db!Connect(p)
    PROVE  DbSaves(p, dbProc[p].s)
<1>1. dbProc[p].s \in DbSessions BY DbConnected DEF Db!Connect
<1>2. QED BY <1>1 DEF Db!Connect, DbSaves, Db!Mem, Db!Op

LEMMA DbQueries ==
    ASSUME DbTyped, NEW p \in Proc, Db!Query(p)
    PROVE  \E s : DbSaves(p, s)
<1>1. dbProc[p].s \in DbSessions /\ dbProc[p].cmd \in Db!Command
    BY DbConnected DEF Db!Query
<1>2. Db!Arg(p) \in Write \cup {None}
    BY <1>1, DbArgs DEF Db!Query, Db!Op, Db!Arg
<1> DEFINE s == [dbProc[p].s EXCEPT !.history = Append(@, Db!Arg(p))]
<1>3. s \in DbSessions
    <2>1. dbProc[p].s.history \in Seq(Write \cup {None}) BY <1>1 DEF DbSessions
    <2>2. Append(dbProc[p].s.history, Db!Arg(p)) \in Seq(Write \cup {None})
        BY <1>2, <2>1
    <2>3. QED BY <1>1, <2>2 DEF DbSessions
<1>4. Db!Saving(p, s) BY DEF Db!Query, Db!Remember, Db!Mem
<1>5. s.profile = dbProc[p].s.profile /\ s.database = dbProc[p].s.database /\ s.tx = dbProc[p].s.tx
    BY <1>1 DEF DbSessions
<1> HIDE DEF s
<1>6. QED BY <1>3, <1>4, <1>5 DEF DbSaves, Db!Query, Db!Op

LEMMA DbFlags ==
    ASSUME DbTyped, NEW p \in Proc, Db!Begin(p) \/ Db!EndTransaction(p)
    PROVE  Db!Finish(p) \/ \E s : DbSaves(p, s)
<1>1. dbProc[p].s \in DbSessions BY DbConnected DEF Db!Begin, Db!EndTransaction
<1>2. CASE Db!Begin(p)
    <2> DEFINE s == [dbProc[p].s EXCEPT !.tx = TRUE]
    <2>1. /\ s \in DbSessions /\ s.tx = TRUE
          /\ s.profile = dbProc[p].s.profile /\ s.database = dbProc[p].s.database
        BY <1>1 DEF DbSessions
    <2>2. Db!Finish(p) \/ Db!Saving(p, s) BY <1>2 DEF Db!Begin, Db!Mem
    <2>3. Db!At(p, "connected") /\ Db!Op(p) = "begin" BY <1>2 DEF Db!Begin
    <2> HIDE DEF s
    <2>4. QED BY <2>1, <2>2, <2>3 DEF DbSaves
<1>3. CASE Db!EndTransaction(p)
    <2> DEFINE s == [dbProc[p].s EXCEPT !.tx = FALSE]
    <2>1. /\ s \in DbSessions /\ s.tx = FALSE
          /\ s.profile = dbProc[p].s.profile /\ s.database = dbProc[p].s.database
        BY <1>1 DEF DbSessions
    <2>2. Db!Finish(p) \/ Db!Saving(p, s) BY <1>3 DEF Db!EndTransaction, Db!Mem
    <2>3. Db!At(p, "connected") /\ Db!Op(p) \in {"commit", "rollback"}
        BY <1>3 DEF Db!EndTransaction
    <2> HIDE DEF s
    <2>4. QED BY <2>1, <2>2, <2>3 DEF DbSaves
<1>4. QED BY <1>2, <1>3

LEMMA DbSaved ==
    ASSUME DbTyped, NEW p \in Proc, NEW s, DbSaves(p, s)
    PROVE  \E r : /\ Db!Becomes(p, r) /\ DbRunning(r)
                  /\ r.at = "save" /\ r.s = s /\ r.cmd = dbProc[p].cmd
<1>1. /\ DbRunning(dbProc[p]) /\ dbProc[p].at = "connected" /\ dbProc[p].cmd.op \notin Changing
    BY DbConnected DEF DbSaves
<1> DEFINE r == [dbProc[p] EXCEPT !.at = "save", !.s = s]
<1>2. DbRunning(r) BY <1>1, DbMoved DEF DbSaves
<1>3. r.at = "save" /\ r.s = s /\ r.cmd = dbProc[p].cmd BY <1>1 DEF DbRunning
<1>4. Db!Becomes(p, r) BY DEF DbSaves, Db!Saving
<1>5. QED BY <1>2, <1>3, <1>4

LEMMA DbTypedFlags ==
    ASSUME DbTyped, NEW p \in Proc, Db!Connect(p) \/ Db!Begin(p) \/ Db!EndTransaction(p)
    PROVE  DbTyped'
<1>1. Db!Finish(p) \/ \E s : DbSaves(p, s) BY DbConnects, DbFlags
<1>2. PICK r : Db!Becomes(p, r) /\ (r = Db!Idle \/ DbRunning(r))
    <2>1. CASE Db!Finish(p) BY <2>1 DEF Db!Finish
    <2>2. CASE \E s : DbSaves(p, s) BY <2>2, DbSaved
    <2>3. QED BY <1>1, <2>1, <2>2
<1>3. Db!Quiet /\ UNCHANGED <<dbProfiles, dbTorn, dbSession, dbEntries, dbAlone, dbRuns>>
    BY DEF Db!Connect, Db!Begin, Db!EndTransaction
<1>4. QED BY <1>2, <1>3, DbTypedQuiet, DbTypes DEF Db!Quiet

LEMMA DbTypedQuery ==
    ASSUME DbTyped, NEW p \in Proc, Db!Query(p)
    PROVE  DbTyped'
<1>1. PICK r : Db!Becomes(p, r) /\ DbRunning(r) BY DbQueries, DbSaved
<1>2. /\ DOMAIN dbProc' = Proc
      /\ \A q \in Proc : dbProc'[q] = Db!Idle \/ DbRunning(dbProc'[q])
    BY <1>1, DbReplaces
<1>3. (\A q \in Proc : dbProc[q] = Db!Idle \/ DbRunning(dbProc[q]))'
    BY <1>2 DEF DbRunning, DbSessions, DbFiles, Db!Command, Db!Idle, Db!NoConnection,
       Db!Reads, FileSteps, SessionSteps, Changing
<1>4. Db!Arg(p) \in Write \cup {None} /\ dbProc[p].db \in Database
    BY DbConnected, DbArgs DEF Db!Query, Db!Op, Db!Arg
<1>5. /\ dbExecuted' \subseteq Write /\ dbMarked' \subseteq dbExecuted'
      /\ dbExecuted' = dbExecuted \cup ({Db!Arg(p)} \ {None})
    BY <1>4, DbTypes DEF Db!Query
<1>6. dbCommitted' \in [Database -> SUBSET dbExecuted']
    <2>1. CASE dbCommitted' = dbCommitted BY <2>1, <1>5, DbTypes
    <2>2. CASE dbCommitted' # dbCommitted
        <3>1. /\ dbCommitted' = [dbCommitted EXCEPT ![dbProc[p].db] = @ \cup {Db!Arg(p)}]
              /\ Db!Arg(p) # None
            BY <2>2 DEF Db!Query
        <3>2. QED BY <3>1, <1>4, <1>5, DbTypes
    <2>3. QED BY <2>1, <2>2
<1>7. UNCHANGED <<dbProfiles, dbSession, dbBegun, dbAlone>> BY DEF Db!Query
<1>8. QED BY <1>2, <1>3, <1>5, <1>6, <1>7, DbTypes DEF DbTyped

LEMMA DbTypedTruncate ==
    ASSUME DbTyped, NEW p \in Proc, Db!Truncate(p)
    PROVE  DbTyped'
<1>1. DbRunning(dbProc[p]) /\ dbProc[p].at = "save" BY DbAt DEF Db!Truncate
<1>2. DbRunning([dbProc[p] EXCEPT !.at = "rewrite"])
    BY <1>1 DEF DbRunning, FileSteps, SessionSteps
<1>3. QED BY <1>2, DbTypedQuiet, DbTypes, DbBlank DEF Db!Truncate, Db!Quiet

LEMMA DbRewrites ==
    ASSUME DbTyped, NEW p \in Proc, Db!Save(p)
    PROVE  /\ DbRunning(dbProc[p]) /\ dbProc[p].at = "rewrite"
           /\ dbProc[p].cmd.op \notin Changing
           /\ dbSession' \in DbSessions /\ dbSession'.tx = dbProc[p].s.tx
           /\ dbSession'.profile = dbProc[p].s.profile
           /\ dbSession'.database = dbProc[p].s.database
<1>1. DbRunning(dbProc[p]) /\ dbProc[p].at = "rewrite" BY DbAt DEF Db!Save
<1>2. dbProc[p].cmd.op \notin Changing /\ dbProc[p].s \in DbSessions
    BY <1>1 DEF DbRunning, FileSteps
<1>3. ASSUME NEW h \in Seq(Write \cup {None}) PROVE Db!LastKept(h) \in Seq(Write \cup {None})
    <2>1. CASE h = <<>>
        <3>1. ~(Len(h) > DbKeep) BY <2>1, DbAssumption
        <3>2. QED BY <3>1 DEF Db!LastKept
    <2>2. CASE h # <<>>
        <3>1. Tail(h) \in Seq(Write \cup {None}) BY <2>2
        <3>2. QED BY <3>1 DEF Db!LastKept
    <2>3. QED BY <2>1, <2>2
<1>4. dbProc[p].s.history \in Seq(Write \cup {None}) BY <1>2 DEF DbSessions
<1>5. Db!LastKept(dbProc[p].s.history) \in Seq(Write \cup {None}) BY <1>3, <1>4
<1>6. dbSession' = [dbProc[p].s EXCEPT !.history = Db!LastKept(dbProc[p].s.history)]
    BY DEF Db!Save, Db!Mem
<1>7. QED BY <1>1, <1>2, <1>5, <1>6 DEF DbSessions

LEMMA DbTypedSave ==
    ASSUME DbTyped, NEW p \in Proc, Db!Save(p)
    PROVE  DbTyped'
BY DbRewrites, DbTypedQuiet, DbTypes DEF Db!Save, Db!Finish

LEMMA DbTypedDisconnect ==
    ASSUME DbTyped, NEW p \in Proc, Db!Disconnect(p)
    PROVE  DbTyped'
BY DbBlank, DbTypedQuiet, DbTypes DEF Db!Disconnect, Db!Finish

LEMMA DbTypedEnd ==
    ASSUME DbTyped, NEW p \in Proc, DbEnds(p)
    PROVE  DbTyped'
BY DbTypedQuiet, DbTypes DEF DbEnds, Db!Finish, Db!Quiet

LEMMA DbTypedStep ==
    ASSUME DbTyped, DbEntered, NEW p \in Proc, DbStep(p)
    PROVE  DbTyped'
<1>1. CASE \E c \in DbAsked[p] : Db!Load(p, c)
    <2>1. PICK c \in DbAsked[p] : Db!Load(p, c) BY <1>1
    <2>2. QED BY <2>1, DbTypedLoad
<1>2. CASE Db!Show(p) \/ DbReads(p) \/ Db!QueryFails(p) \/ Db!Kill(p)
    BY <1>2, DbEnding, DbTypedEnd
<1>3. CASE Db!Disconnect(p) BY <1>3, DbTypedDisconnect
<1>4. CASE Db!ReadProfiles(p) BY <1>4, DbTypedReadProfiles
<1>5. CASE Db!TruncateProfiles(p) BY <1>5, DbTypedTruncateProfiles
<1>6. CASE Db!WriteProfiles(p) BY <1>6, DbTypedWriteProfiles
<1>7. CASE \E up \in BOOLEAN : Db!Dial(p, up)
    <2>1. PICK up \in BOOLEAN : Db!Dial(p, up) BY <1>7
    <2>2. QED BY <2>1, DbTypedDial
<1>8. CASE Db!Connect(p) \/ Db!Begin(p) \/ Db!EndTransaction(p) BY <1>8, DbTypedFlags
<1>9. CASE Db!Query(p) BY <1>9, DbTypedQuery
<1>10. CASE Db!Truncate(p) BY <1>10, DbTypedTruncate
<1>11. CASE Db!Save(p) BY <1>11, DbTypedSave
<1>12. QED BY <1>1, <1>2, <1>3, <1>4, <1>5, <1>6, <1>7, <1>8, <1>9, <1>10, <1>11 DEF DbStep

-----------------------------------------------------------------------------
(* What a session says, an entry of the profiles says too.                 *)

\* What was an entry stays one.
LEMMA DbEntriesGrow ==
    ASSUME dbEntries \subseteq dbEntries'
    PROVE  /\ \A r : DbNames(r) => (r.cmd.op \notin Changing =>
                /\ r.at = "loaded" => r.s = Db!Blank \/ <<r.s.profile, r.s.database>> \in dbEntries'
                /\ r.at \in {"connected", "save", "rewrite"}
                        => <<r.s.profile, r.s.database>> \in dbEntries')
           /\ DbOfEntry(dbSession) =>
                dbSession = Db!Blank \/ <<dbSession.profile, dbSession.database>> \in dbEntries'
BY DEF DbNames, DbOfEntry

\* A step whose session and command name entries.
LEMMA DbEnteredQuiet ==
    ASSUME DbTyped, DbEntered, NEW p \in Proc, NEW r, Db!Becomes(p, r),
           r.at # "idle" => DbNames(r), dbEntries \subseteq dbEntries',
           \A n \in Account : dbProfiles'[n] # None => <<n, dbProfiles'[n]>> \in dbEntries',
           \/ dbSession' \in {dbSession, Db!Blank}
           \/ <<dbSession'.profile, dbSession'.database>> \in dbEntries'
    PROVE  DbEntered'
<1>1. dbProc'[p] = r /\ \A q \in Proc \ {p} : dbProc'[q] = dbProc[q] BY DbOthers
<1>2. DbOfEntry(dbSession)' BY DbEntriesGrow DEF DbOfEntry, DbEntered, Db!Blank
<1>3. ASSUME NEW q \in Proc, dbProc'[q].at # "idle"
      PROVE  \E s : DbNames(s) /\ dbProc'[q] = s
    <2>1. CASE q = p BY <2>1, <1>1, <1>3
    <2>2. CASE q # p BY <2>2, <1>1, <1>3 DEF DbEntered
    <2>3. QED BY <2>1, <2>2
<1>4. ASSUME NEW q \in Proc, dbProc'[q].at # "idle", dbProc'[q].cmd.op \notin Changing
      PROVE  /\ dbProc'[q].at = "loaded" => \/ dbProc'[q].s = Db!Blank
                                            \/ <<dbProc'[q].s.profile, dbProc'[q].s.database>> \in dbEntries'
             /\ dbProc'[q].at \in {"connected", "save", "rewrite"}
                        => <<dbProc'[q].s.profile, dbProc'[q].s.database>> \in dbEntries'
    <2>1. PICK s : DbNames(s) /\ dbProc'[q] = s BY <1>3, <1>4
    <2>2. QED BY <2>1, <1>4, DbEntriesGrow
<1>5. (\A q \in Proc : dbProc[q].at # "idle" => DbNames(dbProc[q]))'
    BY <1>4 DEF DbNames, DbOfEntry, Changing, Db!Blank
<1>6. QED BY <1>2, <1>5 DEF DbEntered

LEMMA DbEnteredIdle ==
    ASSUME DbTyped, DbEntered, NEW p \in Proc, Db!Finish(p), dbEntries \subseteq dbEntries',
           \A n \in Account : dbProfiles'[n] # None => <<n, dbProfiles'[n]>> \in dbEntries',
           \/ dbSession' \in {dbSession, Db!Blank}
           \/ <<dbSession'.profile, dbSession'.database>> \in dbEntries'
    PROVE  DbEntered'
<1>1. Db!Idle.at = "idle" BY DEF Db!Idle
<1>2. QED BY <1>1, DbEnteredQuiet DEF Db!Finish

\* The session of a running command.
LEMMA DbHeld ==
    ASSUME DbTyped, DbEntered, NEW p \in Proc, DbRunning(dbProc[p])
    PROVE  DbNames(dbProc[p])
BY DbIdle DEF DbEntered

LEMMA DbEnteredSaved ==
    ASSUME DbTyped, DbEntered, NEW p \in Proc, NEW s, DbSaves(p, s),
           UNCHANGED <<dbProfiles, dbEntries, dbSession>>
    PROVE  DbEntered'
<1>1. PICK r : /\ Db!Becomes(p, r) /\ r.at = "save" /\ r.s = s /\ r.cmd = dbProc[p].cmd
    BY DbSaved
<1>2. /\ dbProc[p].at = "connected" /\ dbProc[p].cmd.op \notin Changing /\ DbNames(dbProc[p])
    BY DbConnected, DbHeld DEF DbSaves
<1>3. <<s.profile, s.database>> \in dbEntries BY <1>2 DEF DbNames, DbSaves
<1>4. DbNames(r) BY <1>1, <1>3 DEF DbNames
<1>5. QED BY <1>1, <1>4, DbEnteredQuiet DEF DbEntered

LEMMA DbEnteredStep ==
    ASSUME DbTyped, DbEntered, NEW p \in Proc, DbStep(p)
    PROVE  DbEntered'
<1> USE DEF DbEntered
<1>1. CASE \E c \in DbAsked[p] : Db!Load(p, c)
    <2>1. PICK c \in DbAsked[p] : Db!Load(p, c) BY <1>1
    <2> DEFINE r == [at |-> "loaded", cmd |-> c, db |-> None, s |-> dbSession]
    <2>2. Db!Becomes(p, r) /\ UNCHANGED <<dbProfiles, dbEntries, dbSession>> BY <2>1 DEF Db!Load
    <2>3. DbNames(r) BY DEF DbNames
    <2>4. QED BY <2>2, <2>3, DbEnteredQuiet
<1>2. CASE Db!Show(p) \/ DbReads(p) \/ Db!QueryFails(p) \/ Db!Kill(p)
    BY <1>2, DbEnding, DbEnteredIdle DEF DbEnds
<1>3. CASE Db!Disconnect(p) BY <1>3, DbEnteredIdle DEF Db!Disconnect
<1>4. CASE Db!ReadProfiles(p)
    <2>1. UNCHANGED <<dbProfiles, dbEntries, dbSession>> BY <1>4 DEF Db!ReadProfiles
    <2>2. CASE Db!Finish(p) BY <2>1, <2>2, DbEnteredIdle
    <2>3. CASE ~Db!Finish(p)
        <3>1. PICK s : Db!Becomes(p, [dbProc[p] EXCEPT !.at = "staged", !.s = s])
            BY <1>4, <2>3 DEF Db!ReadProfiles
        <3>2. DbRunning(dbProc[p]) /\ dbProc[p].cmd.op \in Changing
            BY <1>4, DbAt DEF Db!ReadProfiles, Db!Op, Changing
        <3>3. DbNames([dbProc[p] EXCEPT !.at = "staged", !.s = s])
            BY <3>2 DEF DbNames, DbRunning
        <3>4. QED BY <2>1, <3>1, <3>3, DbEnteredQuiet
    <2>4. QED BY <2>2, <2>3
<1>5. CASE Db!TruncateProfiles(p)
    <2>1. DbRunning(dbProc[p]) /\ dbProc[p].at = "staged"
        BY <1>5, DbAt DEF Db!TruncateProfiles
    <2>2. dbProc[p].cmd.op \in Changing BY <2>1 DEF DbRunning, SessionSteps
    <2>3. DbNames([dbProc[p] EXCEPT !.at = "refill"]) BY <2>1, <2>2 DEF DbNames, DbRunning
    <2>4. QED BY <1>5, <2>3, DbEnteredQuiet DEF Db!TruncateProfiles
<1>6. CASE Db!WriteProfiles(p)
    <2>1. DbRunning(dbProc[p]) /\ dbProc[p].at = "refill"
        BY <1>6, DbAt DEF Db!WriteProfiles
    <2>2. dbProc[p].s \in DbFiles BY <2>1 DEF DbRunning, SessionSteps
    <2>3. /\ dbProfiles' = dbProc[p].s /\ Db!Finish(p) /\ dbSession' = dbSession
          /\ dbEntries' = dbEntries \cup {e \in Account \X Database : dbProc[p].s[e[1]] = e[2]}
        BY <1>6 DEF Db!WriteProfiles, Db!Mem
    <2>4. ASSUME NEW n \in Account, dbProfiles'[n] # None
          PROVE  <<n, dbProfiles'[n]>> \in dbEntries'
        BY <2>2, <2>3, <2>4 DEF DbFiles
    <2>5. dbEntries \subseteq dbEntries' BY <2>3
    <2>6. QED BY <2>3, <2>4, <2>5, DbEnteredIdle
<1>7. CASE \E up \in BOOLEAN : Db!Dial(p, up)
    <2>1. PICK up \in BOOLEAN : Db!Dial(p, up) BY <1>7
    <2>2. UNCHANGED <<dbProfiles, dbEntries, dbSession>> BY <2>1 DEF Db!Dial
    <2>3. PICK r : /\ Db!Becomes(p, r)
                   /\ \/ r = Db!Idle
                      \/ /\ DbRunning(r) /\ r.at = "connected"
                         /\ <<r.s.profile, r.s.database>> \in dbEntries
        BY <2>1, DbDials
    <2>4. r.at # "idle" => DbNames(r) BY <2>3 DEF DbNames, Db!Idle
    <2>5. QED BY <2>2, <2>3, <2>4, DbEnteredQuiet
<1>8. CASE Db!Connect(p) \/ Db!Begin(p) \/ Db!EndTransaction(p)
    <2>1. UNCHANGED <<dbProfiles, dbEntries, dbSession>>
        BY <1>8 DEF Db!Connect, Db!Begin, Db!EndTransaction
    <2>2. CASE Db!Finish(p) BY <2>1, <2>2, DbEnteredIdle
    <2>3. CASE \E s : DbSaves(p, s) BY <2>1, <2>3, DbEnteredSaved
    <2>4. QED BY <1>8, <2>2, <2>3, DbConnects, DbFlags
<1>9. CASE Db!Query(p)
    BY <1>9, DbQueries, DbEnteredSaved DEF Db!Query
<1>10. CASE Db!Truncate(p)
    <2>1. DbRunning(dbProc[p]) /\ dbProc[p].at = "save" BY <1>10, DbAt DEF Db!Truncate
    <2>2. DbNames(dbProc[p]) BY <2>1, DbHeld
    <2>3. DbNames([dbProc[p] EXCEPT !.at = "rewrite"]) BY <2>1, <2>2 DEF DbNames, DbRunning
    <2>4. QED BY <1>10, <2>3, DbEnteredQuiet DEF Db!Truncate
<1>11. CASE Db!Save(p)
    <2>1. /\ DbRunning(dbProc[p]) /\ dbProc[p].at = "rewrite" /\ dbProc[p].cmd.op \notin Changing
          /\ dbSession'.profile = dbProc[p].s.profile /\ dbSession'.database = dbProc[p].s.database
        BY <1>11, DbRewrites
    <2>2. <<dbSession'.profile, dbSession'.database>> \in dbEntries
        BY <2>1, DbHeld DEF DbNames
    <2>3. UNCHANGED <<dbProfiles, dbEntries>> /\ Db!Finish(p) BY <1>11 DEF Db!Save
    <2>4. QED BY <2>2, <2>3, DbEnteredIdle
<1>12. QED BY <1>1, <1>2, <1>3, <1>4, <1>5, <1>6, <1>7, <1>8, <1>9, <1>10, <1>11 DEF DbStep

-----------------------------------------------------------------------------
(* A transaction that is open has its flag in session.json, or with the   *)
(* command that rewrites it.                                               *)

\* The parts of DbFlagged.
LEMMA DbLone ==
    ASSUME DbTyped, DbFlagged, dbAlone, NEW p \in Proc, DbRunning(dbProc[p])
    PROVE  /\ \A q \in Proc \ {p} : dbProc[q].at = "idle"
           /\ DbAgrees(dbProc[p], dbSession.tx, dbBegun)
           /\ \A d \in Database : dbMarked \cap dbCommitted[d] = {}
<1>1. dbProc[p].at # "idle" BY DbIdle
<1>2. QED BY <1>1 DEF DbFlagged

\* A step of the only command.
LEMMA DbFlaggedAlone ==
    ASSUME DbTyped, NEW p \in Proc, NEW r, Db!Becomes(p, r),
           \A q \in Proc \ {p} : dbProc[q].at = "idle",
           r.at # "idle" => DbAgrees(r, dbSession'.tx, dbBegun'),
           r.at = "idle" /\ dbBegun' => dbSession'.tx,
           \A d \in Database : dbMarked' \cap dbCommitted'[d] = {}
    PROVE  DbFlagged'
<1>1. dbProc'[p] = r /\ \A q \in Proc \ {p} : dbProc'[q] = dbProc[q] BY DbOthers
<1>2. \A q \in Proc \ {p} : dbProc'[q].at = "idle" BY <1>1
<1>3. (\A a, b \in Proc : dbProc[a].at # "idle" /\ dbProc[b].at # "idle" => a = b)'
    BY <1>2
<1>4. ASSUME NEW q \in Proc, dbProc'[q].at # "idle"
      PROVE  DbAgrees(dbProc'[q], dbSession'.tx, dbBegun')
    <2>1. q = p BY <1>2, <1>4
    <2>2. QED BY <2>1, <1>1, <1>4
<1>5. (\A q \in Proc : dbProc[q].at # "idle" => DbAgrees(dbProc[q], dbSession.tx, dbBegun))'
    BY <1>4 DEF DbAgrees, Changing
<1>6. ((\A q \in Proc : dbProc[q].at = "idle") /\ dbBegun => dbSession.tx)'
    BY <1>1
<1>7. QED BY <1>3, <1>5, <1>6 DEF DbFlagged

\* Where commands have overlapped, nothing is said.
LEMMA DbFlaggedOverlap ==
    ASSUME ~dbAlone'
    PROVE  DbFlagged'
BY DEF DbFlagged

\* A command that ends and leaves the session alone.
LEMMA DbFlaggedEnd ==
    ASSUME DbTyped, DbFlagged, NEW p \in Proc, DbRunning(dbProc[p]), dbProc[p].at # "rewrite",
           Db!Finish(p), UNCHANGED <<dbSession, dbAlone>>, Db!Quiet
    PROVE  DbFlagged'
<1>1. CASE dbAlone
    <2>1. /\ \A q \in Proc \ {p} : dbProc[q].at = "idle"
          /\ DbAgrees(dbProc[p], dbSession.tx, dbBegun)
          /\ \A d \in Database : dbMarked \cap dbCommitted[d] = {}
        BY <1>1, DbLone
    <2>2. dbBegun => dbSession.tx BY <2>1 DEF DbAgrees
    <2>3. Db!Idle.at = "idle" BY DEF Db!Idle
    <2>4. QED BY <2>1, <2>2, <2>3, DbFlaggedAlone DEF Db!Finish, Db!Quiet
<1>2. QED BY <1>1, DbFlaggedOverlap

\* A command that goes on and leaves the session alone.
LEMMA DbFlaggedGoes ==
    ASSUME DbTyped, DbFlagged, NEW p \in Proc, DbRunning(dbProc[p]), dbProc[p].at # "rewrite",
           NEW r, Db!Becomes(p, r), DbRunning(r), r.at # "rewrite",
           r.cmd.op \notin Changing =>
               /\ r.at \in {"loaded", "connected"} => r.s.tx = dbSession.tx
               /\ r.at = "save" => \/ r.cmd.op \in {"commit", "rollback"}
                                   \/ r.s.tx
                                   \/ r.cmd.op # "begin" /\ ~dbBegun,
           UNCHANGED <<dbSession, dbAlone, dbBegun>>,
           dbAlone => \A d \in Database : dbMarked' \cap dbCommitted'[d] = {}
    PROVE  DbFlagged'
<1>1. CASE dbAlone
    <2>1. /\ \A q \in Proc \ {p} : dbProc[q].at = "idle"
          /\ DbAgrees(dbProc[p], dbSession.tx, dbBegun)
        BY <1>1, DbLone
    <2>2. dbBegun => dbSession.tx BY <2>1 DEF DbAgrees
    <2>3. DbAgrees(r, dbSession.tx, dbBegun) BY <2>2 DEF DbAgrees
    <2>4. r.at # "idle" BY DbIdle
    <2>5. QED BY <1>1, <2>1, <2>3, <2>4, DbFlaggedAlone
<1>2. QED BY <1>1, DbFlaggedOverlap

LEMMA DbFlaggedLoad ==
    ASSUME DbTyped, DbFlagged, NEW p \in Proc, NEW c \in DbAsked[p], Db!Load(p, c)
    PROVE  DbFlagged'
<1> DEFINE r == [at |-> "loaded", cmd |-> c, db |-> None, s |-> dbSession]
<1>1. CASE dbAlone'
    <2>1. dbAlone /\ \A q \in Proc : dbProc[q].at = "idle" BY <1>1 DEF Db!Load, Db!At
    <2>2. /\ dbBegun => dbSession.tx
          /\ \A d \in Database : dbMarked \cap dbCommitted[d] = {}
        BY <2>1 DEF DbFlagged
    <2>3. /\ Db!Becomes(p, r)
          /\ UNCHANGED <<dbSession, dbBegun, dbMarked, dbCommitted>>
        BY DEF Db!Load, Db!Quiet
    <2>4. DbAgrees(r, dbSession.tx, dbBegun) BY <2>2 DEF DbAgrees
    <2>5. r.at # "idle" OBVIOUS
    <2> HIDE DEF r
    <2>6. QED BY <2>1, <2>2, <2>3, <2>4, <2>5, DbFlaggedAlone
<1>2. QED BY <1>1, DbFlaggedOverlap

\* A step of a command that is saved as DbSaves says, begin and the end of a
\* transaction among them.
LEMMA DbFlaggedSaved ==
    ASSUME DbTyped, DbFlagged, NEW p \in Proc, NEW s, DbSaves(p, s),
           UNCHANGED <<dbSession, dbAlone, dbBegun>>,
           dbAlone => \A d \in Database : dbMarked' \cap dbCommitted'[d] = {}
    PROVE  DbFlagged'
<1>1. PICK r : /\ Db!Becomes(p, r) /\ DbRunning(r)
               /\ r.at = "save" /\ r.s = s /\ r.cmd = dbProc[p].cmd
    BY DbSaved
<1>2. DbRunning(dbProc[p]) /\ dbProc[p].at = "connected" /\ dbProc[p].cmd.op \notin Changing
    BY DbConnected DEF DbSaves
<1>3. CASE dbAlone
    <2>1. DbAgrees(dbProc[p], dbSession.tx, dbBegun) BY <1>2, <1>3, DbLone
    <2>2. \/ r.cmd.op \in {"commit", "rollback"} \/ r.s.tx
          \/ r.cmd.op # "begin" /\ ~dbBegun
        BY <1>1, <1>2, <2>1 DEF DbAgrees, DbSaves, Db!Op
    <2>3. QED BY <1>1, <1>2, <2>2, DbFlaggedGoes
<1>4. CASE ~dbAlone BY <1>4, DbFlaggedOverlap
<1>5. QED BY <1>3, <1>4

\* What a query executes since a begin is not committed, and what is committed is
\* not one of the writes since the begin.
LEMMA DbFlaggedQuery ==
    ASSUME DbTyped, DbFlagged, NEW p \in Proc, Db!Query(p)
    PROVE  DbFlagged'
<1>1. DbRunning(dbProc[p]) /\ dbProc[p].at = "connected" /\ dbProc[p].cmd.op \notin Changing
      /\ dbProc[p].db \in Database
    BY DbConnected DEF Db!Query
<1>2. ASSUME dbAlone, NEW d \in Database
      PROVE  dbMarked' \cap dbCommitted'[d] = {}
    <2>1. /\ DbAgrees(dbProc[p], dbSession.tx, dbBegun)
          /\ dbMarked \cap dbCommitted[d] = {}
        BY <1>1, <1>2, DbLone
    <2>2. dbBegun => dbProc[p].s.tx BY <1>1, <2>1 DEF DbAgrees
    <2>3. /\ Db!Arg(p) \notin dbExecuted
          /\ dbCommitted[d] \subseteq dbExecuted /\ dbMarked \subseteq dbExecuted
        BY DbTypes DEF Db!Query
    <2>4. CASE dbBegun
        <3>1. dbCommitted' = dbCommitted /\ dbMarked' \subseteq dbMarked \cup {Db!Arg(p)}
            BY <2>2, <2>4 DEF Db!Query, Db!Mem
        <3>2. QED BY <3>1, <2>1, <2>3
    <2>5. CASE ~dbBegun
        <3>1. dbMarked' = dbMarked BY <2>5 DEF Db!Query
        <3>2. dbCommitted'[d] \subseteq dbCommitted[d] \cup {Db!Arg(p)}
            BY <1>1, DbTypes DEF Db!Query
        <3>3. QED BY <3>1, <3>2, <2>1, <2>3
    <2>6. QED BY <2>4, <2>5
<1>3. UNCHANGED <<dbSession, dbAlone, dbBegun>> BY DEF Db!Query
<1>4. QED BY <1>2, <1>3, DbQueries, DbFlaggedSaved

LEMMA DbFlaggedStep ==
    ASSUME DbTyped, DbEntered, DbFlagged, NEW p \in Proc, DbStep(p)
    PROVE  DbFlagged'
<1>1. CASE \E c \in DbAsked[p] : Db!Load(p, c)
    <2>1. PICK c \in DbAsked[p] : Db!Load(p, c) BY <1>1
    <2>2. QED BY <2>1, DbFlaggedLoad
<1>2. CASE Db!Show(p)
    <2>1. DbRunning(dbProc[p]) /\ dbProc[p].at = "loaded" BY <1>2, DbAt DEF Db!Show
    <2>2. QED BY <1>2, <2>1, DbFlaggedEnd DEF Db!Show
<1>3. CASE DbReads(p) \/ Db!QueryFails(p)
    <2>1. /\ Db!At(p, "connected") /\ Db!Finish(p) /\ Db!Quiet
          /\ UNCHANGED <<dbSession, dbAlone>>
        BY <1>3 DEF DbReads, Db!QueryFails, Db!Only, Db!Snapshot, Db!Describe, Db!Sample,
                    Db!Count, Db!Relations
    <2>2. DbRunning(dbProc[p]) /\ dbProc[p].at = "connected" BY <2>1, DbAt
    <2>3. QED BY <2>1, <2>2, DbFlaggedEnd
<1>4. CASE Db!Disconnect(p)
    <2>1. DbRunning(dbProc[p]) BY <1>4, DbAt DEF Db!Disconnect
    <2>2. Db!Idle.at = "idle" BY DEF Db!Idle
    <2>3. CASE dbAlone
        <3>1. /\ \A q \in Proc \ {p} : dbProc[q].at = "idle"
              /\ \A d \in Database : dbMarked \cap dbCommitted[d] = {}
            BY <2>1, <2>3, DbLone
        <3>2. QED BY <1>4, <2>2, <3>1, DbFlaggedAlone DEF Db!Disconnect, Db!Finish
    <2>4. CASE ~dbAlone BY <1>4, <2>4, DbFlaggedOverlap DEF Db!Disconnect
    <2>5. QED BY <2>3, <2>4
<1>5. CASE Db!ReadProfiles(p) \/ Db!TruncateProfiles(p)
    <2>1. /\ DbRunning(dbProc[p]) /\ dbProc[p].at \in {"loaded", "staged"}
          /\ dbProc[p].cmd.op \in Changing
        <3>1. DbRunning(dbProc[p]) /\ dbProc[p].at \in {"loaded", "staged"}
            BY <1>5, DbAt DEF Db!ReadProfiles, Db!TruncateProfiles
        <3>2. QED BY <1>5, <3>1 DEF DbRunning, SessionSteps, Db!ReadProfiles, Db!Op, Changing,
                                    Db!TruncateProfiles, Db!At
    <2>2. /\ UNCHANGED <<dbSession, dbAlone>> /\ Db!Quiet
          /\ \/ Db!Finish(p)
             \/ Db!Becomes(p, [dbProc[p] EXCEPT !.at = "refill"])
             \/ \E s : Db!Becomes(p, [dbProc[p] EXCEPT !.at = "staged", !.s = s])
        BY <1>5 DEF Db!ReadProfiles, Db!TruncateProfiles
    <2>3. CASE Db!Finish(p) BY <2>1, <2>2, <2>3, DbFlaggedEnd
    <2>4. CASE ~Db!Finish(p)
        <3>1. PICK r : Db!Becomes(p, r) /\ r.at \in {"staged", "refill"} /\ r.cmd = dbProc[p].cmd
            <4>1. CASE Db!Becomes(p, [dbProc[p] EXCEPT !.at = "refill"])
                BY <2>1, <4>1 DEF DbRunning
            <4>2. CASE \E s : Db!Becomes(p, [dbProc[p] EXCEPT !.at = "staged", !.s = s])
                <5>1. PICK s : Db!Becomes(p, [dbProc[p] EXCEPT !.at = "staged", !.s = s])
                    BY <4>2
                <5> DEFINE r == [dbProc[p] EXCEPT !.at = "staged", !.s = s]
                <5>2. r.at = "staged" /\ r.cmd = dbProc[p].cmd BY <2>1 DEF DbRunning
                <5>3. Db!Becomes(p, r) BY <5>1
                <5> HIDE DEF r
                <5>4. QED BY <5>2, <5>3
            <4>3. QED BY <2>2, <2>4, <4>1, <4>2
        <3>2. CASE dbAlone
            <4>1. /\ \A q \in Proc \ {p} : dbProc[q].at = "idle"
                  /\ DbAgrees(dbProc[p], dbSession.tx, dbBegun)
                  /\ \A d \in Database : dbMarked \cap dbCommitted[d] = {}
                BY <2>1, <3>2, DbLone
            <4>2. DbAgrees(r, dbSession.tx, dbBegun) BY <2>1, <3>1, <4>1 DEF DbAgrees
            <4>3. QED BY <2>2, <3>1, <4>1, <4>2, DbFlaggedAlone DEF Db!Quiet
        <3>3. QED BY <2>2, <3>2, DbFlaggedOverlap
    <2>5. QED BY <2>3, <2>4
<1>6. CASE Db!WriteProfiles(p)
    <2>1. DbRunning(dbProc[p]) /\ dbProc[p].at = "refill" BY <1>6, DbAt DEF Db!WriteProfiles
    <2>2. QED BY <1>6, <2>1, DbFlaggedEnd DEF Db!WriteProfiles
<1>7. CASE \E up \in BOOLEAN : Db!Dial(p, up)
    <2>1. PICK up \in BOOLEAN : Db!Dial(p, up) BY <1>7
    <2>2. /\ DbRunning(dbProc[p]) /\ dbProc[p].at = "loaded"
          /\ dbProc[p].cmd.op \notin Changing
        BY <2>1, DbAt DEF Db!Dial, Db!Op, Changing
    <2>3. UNCHANGED <<dbSession, dbAlone>> /\ Db!Quiet BY <2>1 DEF Db!Dial
    <2>4. PICK r : /\ Db!Becomes(p, r)
                   /\ \/ r = Db!Idle
                      \/ /\ DbRunning(r) /\ r.at = "connected"
                         /\ r.cmd = dbProc[p].cmd /\ r.s.tx = dbProc[p].s.tx
        BY <2>1, DbDials
    <2>5. CASE r = Db!Idle BY <2>2, <2>3, <2>4, <2>5, DbFlaggedEnd DEF Db!Finish
    <2>6. CASE r # Db!Idle /\ dbAlone
        <3>1. DbAgrees(dbProc[p], dbSession.tx, dbBegun)
              /\ \A d \in Database : dbMarked \cap dbCommitted[d] = {}
            BY <2>2, <2>6, DbLone
        <3>2. r.s.tx = dbSession.tx BY <2>2, <2>4, <2>6, <3>1 DEF DbAgrees
        <3>3. QED BY <2>2, <2>3, <2>4, <2>6, <3>1, <3>2, DbFlaggedGoes DEF Db!Quiet
    <2>7. CASE ~dbAlone BY <2>3, <2>7, DbFlaggedOverlap
    <2>8. QED BY <2>5, <2>6, <2>7
<1>8. CASE Db!Connect(p) \/ Db!Begin(p) \/ Db!EndTransaction(p)
    <2>1. UNCHANGED <<dbSession, dbAlone>> /\ Db!Quiet
        BY <1>8 DEF Db!Connect, Db!Begin, Db!EndTransaction
    <2>2. DbRunning(dbProc[p]) /\ dbProc[p].at = "connected"
        BY <1>8, DbConnected DEF Db!Connect, Db!Begin, Db!EndTransaction
    <2>3. CASE Db!Finish(p) BY <2>1, <2>2, <2>3, DbFlaggedEnd
    <2>4. CASE \E s : DbSaves(p, s)
        <3>1. dbAlone => \A d \in Database : dbMarked \cap dbCommitted[d] = {}
            BY DEF DbFlagged
        <3>2. QED BY <2>1, <2>4, <3>1, DbFlaggedSaved DEF Db!Quiet
    <2>5. QED BY <1>8, <2>3, <2>4, DbConnects, DbFlags
<1>9. CASE Db!Query(p) BY <1>9, DbFlaggedQuery
<1>10. CASE Db!Truncate(p)
    <2>1. DbRunning(dbProc[p]) /\ dbProc[p].at = "save" BY <1>10, DbAt DEF Db!Truncate
    <2> DEFINE r == [dbProc[p] EXCEPT !.at = "rewrite"]
    <2>2. r.at = "rewrite" /\ r.cmd = dbProc[p].cmd /\ r.s = dbProc[p].s BY <2>1 DEF DbRunning
    <2>3. Db!Becomes(p, r) /\ UNCHANGED dbAlone /\ Db!Quiet BY <1>10 DEF Db!Truncate
    <2> HIDE DEF r
    <2>4. CASE dbAlone
        <3>1. /\ \A q \in Proc \ {p} : dbProc[q].at = "idle"
              /\ DbAgrees(dbProc[p], dbSession.tx, dbBegun)
              /\ \A d \in Database : dbMarked \cap dbCommitted[d] = {}
            BY <2>1, <2>4, DbLone
        <3>2. DbAgrees(r, dbSession'.tx, dbBegun) BY <2>1, <2>2, <3>1 DEF DbAgrees
        <3>3. QED BY <2>2, <2>3, <3>1, <3>2, DbFlaggedAlone DEF Db!Quiet
    <2>5. CASE ~dbAlone BY <2>3, <2>5, DbFlaggedOverlap
    <2>6. QED BY <2>4, <2>5
<1>11. CASE Db!Save(p)
    <2>1. /\ DbRunning(dbProc[p]) /\ dbProc[p].at = "rewrite" /\ dbProc[p].cmd.op \notin Changing
          /\ dbSession'.tx = dbProc[p].s.tx
        BY <1>11, DbRewrites
    <2>2. CASE dbAlone
        <3>1. /\ \A q \in Proc \ {p} : dbProc[q].at = "idle"
              /\ DbAgrees(dbProc[p], dbSession.tx, dbBegun)
              /\ \A d \in Database : dbMarked \cap dbCommitted[d] = {}
            BY <2>1, <2>2, DbLone
        <3>2. dbBegun' => dbSession'.tx
            BY <1>11, <2>1, <3>1 DEF DbAgrees, Db!Save, Db!Op
        <3>3. dbMarked' \in {{}, dbMarked} /\ dbCommitted' = dbCommitted
            BY <1>11 DEF Db!Save
        <3>4. \A d \in Database : dbMarked' \cap dbCommitted'[d] = {} BY <3>1, <3>3
        <3>5. Db!Becomes(p, Db!Idle) /\ Db!Idle.at = "idle"
            BY <1>11 DEF Db!Save, Db!Finish, Db!Idle
        <3>6. QED BY <3>1, <3>2, <3>4, <3>5, DbFlaggedAlone
    <2>3. CASE ~dbAlone BY <1>11, <2>3, DbFlaggedOverlap DEF Db!Save
    <2>4. QED BY <2>2, <2>3
<1>12. CASE Db!Kill(p) BY <1>12, DbFlaggedOverlap DEF Db!Kill
<1>13. QED BY <1>1, <1>2, <1>3, <1>4, <1>5, <1>6, <1>7, <1>8, <1>9, <1>10, <1>11, <1>12
           DEF DbStep

-----------------------------------------------------------------------------
(* The invariant.                                                          *)

LEMMA DbInvInit ==
    ASSUME Db!Init
    PROVE  DbInv
<1>1. Saved \in DbFiles BY DbAssumption DEF DbFiles
<1>2. DbTyped
    BY <1>1, DbBlank DEF Db!Init, DbTyped
<1>3. DbEntered
    <2>1. \A n \in Account : dbProfiles[n] # None => <<n, dbProfiles[n]>> \in dbEntries
        BY <1>1 DEF Db!Init, DbFiles
    <2>2. DbOfEntry(dbSession) BY DEF Db!Init, DbOfEntry
    <2>3. \A p \in Proc : dbProc[p].at = "idle" BY DEF Db!Init, Db!Idle
    <2>4. QED BY <2>1, <2>2, <2>3 DEF DbEntered
<1>4. DbFlagged
    <2>1. \A p \in Proc : dbProc[p].at = "idle" BY DEF Db!Init, Db!Idle
    <2>2. dbMarked = {} /\ dbBegun = FALSE BY DEF Db!Init
    <2>3. QED BY <2>1, <2>2 DEF DbFlagged
<1>5. QED BY <1>2, <1>3, <1>4 DEF DbInv

LEMMA DbInvStep ==
    ASSUME DbInv, Db!Next
    PROVE  DbInv'
<1>1. PICK p \in Proc : DbStep(p) BY DbSteps
<1>2. QED BY <1>1, DbTypedStep, DbEnteredStep, DbFlaggedStep DEF DbInv

LEMMA DbInvStays ==
    ASSUME DbInv, UNCHANGED dbState
    PROVE  DbInv'
<1>1. DbTyped' BY DEF DbInv, DbTyped, dbState, DbRunning, DbSessions, DbFiles, Db!Command,
            Db!Idle, Db!NoConnection, Db!Reads, FileSteps, SessionSteps, Changing
<1>2. DbEntered' BY DEF DbInv, DbEntered, dbState, DbNames, DbOfEntry, Changing, Db!Blank
<1>3. DbFlagged' BY DEF DbInv, DbFlagged, dbState, DbAgrees, Changing
<1>4. QED BY <1>1, <1>2, <1>3 DEF DbInv

\* As long as the tool is agent-db, a step of the tools is one of agent-db.
LEMMA ToolsDo ==
    ASSUME [ToolsNext]_toolsVars
    PROVE  /\ tool' = tool
           /\ tool = "psql" => [Next]_vars
           /\ tool # "psql" => UNCHANGED vars
           /\ tool = "db" => Db!Next \/ UNCHANGED dbState
           /\ tool = "excel" => Xl!Next \/ UNCHANGED xlBooks
           /\ tool = "zpc" => Zpc!Next \/ UNCHANGED zpcState
BY DEF ToolsNext, toolsVars

\* The inductive invariant of agent-db.
THEOREM SessionsInvariant == ToolsSpec => [](tool = "db" => DbInv)
<1> DEFINE I == tool = "db" => DbInv
<1>1. ToolsInit => I BY DbInvInit DEF ToolsInit
<1>2. I /\ [ToolsNext]_toolsVars => I'
    <2>1. SUFFICES ASSUME I, [ToolsNext]_toolsVars, tool' = "db" PROVE DbInv'
        OBVIOUS
    <2>2. tool = "db" /\ (Db!Next \/ UNCHANGED dbState) BY <2>1, ToolsDo
    <2>3. QED BY <2>1, <2>2, DbInvStep, DbInvStays
<1>3. QED BY <1>1, <1>2, PTL DEF ToolsSpec

\* agent-db: while commands come one after another, no write made since a begin is in
\* a database before the commit or after a rollback; and the profile and the database
\* of a session were one entry of the profiles, whatever overlaps or is killed.
THEOREM TransactionsDoNotEscape == ToolsSpec => []NothingEscapes
<1>1. (tool = "db" => DbInv) => NothingEscapes
    BY DEF DbInv, NothingEscapes, Db!NothingEscapes, Db!SessionIsOneEntry, DbFlagged,
           DbEntered, DbOfEntry
<1>2. QED BY <1>1, SessionsInvariant, PTL

-----------------------------------------------------------------------------
(* agent-excel.                                                            *)

-----------------------------------------------------------------------------
(* Numbers, sets of them, and the cells of a sheet.                       *)

\* The module's cardinality is that of the library.
LEMMA XlCardinality == \A S : Xl!Cardinality(S) = Cardinality(S)
BY DEF Xl!Cardinality, Cardinality

\* A set of natural numbers has a least one.
LEMMA LeastElement ==
    ASSUME NEW S \in SUBSET Nat, S # {}
    PROVE  \E i \in S : \A j \in S : i <= j
<1>1. PICK i \in S : \A j \in S : <<j, i>> \notin OpToRel(<, Nat)
    BY NatLessThanWellFounded, WFMin
<1>2. \A j \in S : ~(j < i) BY <1>1 DEF OpToRel
<1>3. QED BY <1>2

\* A bounded one has a greatest.
LEMMA GreatestElement ==
    ASSUME NEW n \in Nat, NEW S \in SUBSET (0..n), S # {}
    PROVE  \E i \in S : \A j \in S : j <= i
<1> DEFINE T == {n - i : i \in S}
<1>1. T \in SUBSET Nat /\ T # {}
    <2>1. \A i \in S : i \in 0..n /\ n - i \in Nat OBVIOUS
    <2>2. PICK i \in S : TRUE OBVIOUS
    <2>3. n - i \in T OBVIOUS
    <2>4. \A t \in T : t \in Nat BY <2>1
    <2>5. QED BY <2>3, <2>4
<1>2. PICK t \in T : \A u \in T : t <= u BY <1>1, LeastElement
<1>3. PICK i \in S : t = n - i BY <1>2
<1>4. ASSUME NEW j \in S PROVE j <= i
    <2>1. n - j \in T OBVIOUS
    <2>2. n - i <= n - j BY <1>2, <1>3, <2>1
    <2>3. QED BY <2>2
<1>5. QED BY <1>4

\* A sheet has a last row.
LEMMA XlLastRow ==
    ASSUME NEW g
    PROVE  /\ Xl!LastRow(g) \in 0..MaxRow
           /\ Xl!LastRow(g) = 0 \/ g[Xl!LastRow(g)] # Xl!Empty
           /\ \A r \in Xl!Row : r > Xl!LastRow(g) => g[r] = Xl!Empty
<1> DEFINE Full == {r \in Xl!Row : g[r] # Xl!Empty}
<1>0. MaxRow \in Nat BY XlAssumption
<1>1. \E n \in 0..MaxRow : /\ n = 0 \/ g[n] # Xl!Empty
                           /\ \A r \in Xl!Row : r > n => g[r] = Xl!Empty
    <2>1. CASE Full = {} BY <1>0, <2>1 DEF Xl!Row
    <2>2. CASE Full # {}
        <3>1. Full \in SUBSET (0..MaxRow) BY <1>0 DEF Xl!Row
        <3>2. PICK n \in Full : \A r \in Full : r <= n BY <1>0, <2>2, <3>1, GreatestElement
        <3>3. \A r \in Xl!Row : r > n => g[r] = Xl!Empty BY <1>0, <3>2 DEF Xl!Row
        <3>4. QED BY <3>1, <3>2, <3>3
    <2>3. QED BY <2>1, <2>2
<1>2. QED BY <1>1 DEF Xl!LastRow

\* The cells of a sheet: numbers and texts are told apart by their tag and ordered
\* by their number, and None is neither.
LEMMA XlValues ==
    /\ None \notin Xl!Value
    /\ \A v \in Xl!Value : v[1] \in {"number", "text"} /\ v[2] \in Int /\ v = <<v[1], v[2]>>
    /\ \A v \in Xl!Value : v[1] = "number" => v[2] \in Numbers
<1>1. None \notin Xl!Value BY XlAssumption
<1>2. ASSUME NEW v \in Xl!Value
      PROVE  /\ v[1] \in {"number", "text"} /\ v[2] \in Int /\ v = <<v[1], v[2]>>
             /\ v[1] = "number" => v[2] \in Numbers
    <2>1. CASE v \in {"number"} \X Numbers
        <3>1. PICK x \in {"number"}, y \in Numbers : v = <<x, y>> BY <2>1
        <3>2. QED BY <3>1, XlAssumption
    <2>2. CASE v \in {"text"} \X Texts
        <3>1. PICK x \in {"text"}, y \in Texts : v = <<x, y>> BY <2>2
        <3>2. QED BY <3>1, XlAssumption
    <2>3. QED BY <2>1, <2>2 DEF Xl!Value
<1>3. QED BY <1>1, <1>2

\* The keys of a sort: a strict order in which what is not less is alike.
LEMMA XlKeys ==
    ASSUME NEW u \in Xl!Cell, NEW v \in Xl!Cell, NEW w \in Xl!Cell
    PROVE  /\ ~Xl!KeyLess(u, u)
           /\ Xl!KeyLess(u, v) => ~Xl!KeyLess(v, u)
           /\ Xl!KeyLess(u, w) => Xl!KeyLess(u, v) \/ Xl!KeyLess(v, w)
           /\ (u # None /\ v # None) => (Xl!KeyLess(u, v) <=> Xl!Less(u, v))
           /\ (u = None /\ v # None) => ~Xl!KeyLess(u, v) /\ Xl!KeyLess(v, u)
<1>1. \A x \in {u, v, w} : x = None \/ x[2] \in Int BY XlValues DEF Xl!Cell
<1>2. QED BY <1>1 DEF Xl!KeyLess, Xl!Less

-----------------------------------------------------------------------------
(* The sort: every data row has its place, and is laid over another.      *)

\* In a finite total order every element has its place, and every place its element.
Ranks(n, R, before, place) ==
    /\ n \in Nat
    /\ \A r, s \in 2..n : /\ r # s => <<r, s>> \in R \/ <<s, r>> \in R
                          /\ <<r, s>> \in R => <<s, r>> \notin R
    /\ \A r, s, t \in 2..n : <<r, s>> \in R /\ <<s, t>> \in R => <<r, t>> \in R
    /\ before \in [2..n -> SUBSET (2..n)]
    /\ \A r, s \in 2..n : s \in before[r] <=> <<s, r>> \in R
    /\ place \in [2..n -> Int]
    /\ \A r \in 2..n : place[r] = 2 + Cardinality(before[r])

LEMMA Ranking ==
    ASSUME NEW n, NEW R, NEW before, NEW place, Ranks(n, R, before, place)
    PROVE  /\ place \in [2..n -> 2..n]
           /\ \A r, s \in 2..n : <<r, s>> \in R <=> place[r] < place[s]
           /\ \A k \in 2..n : \E r \in 2..n : place[r] = k
<1> USE DEF Ranks
<1> DEFINE D == 2..n
           Before(r) == before[r]
<1>1. IsFiniteSet(D) /\ Cardinality(D) = IF 2 > n THEN 0 ELSE n - 1 BY FS_Interval
<1>2. \A r \in D : IsFiniteSet(Before(r)) /\ Cardinality(Before(r)) \in Nat
    <2>1. \A r \in D : Before(r) \in SUBSET D OBVIOUS
    <2> HIDE DEF Before
    <2>2. QED BY <1>1, <2>1, FS_Subset, FS_CardinalityType
<1>3. \A r \in D : place[r] = 2 + Cardinality(Before(r)) OBVIOUS
<1>4. ASSUME NEW r \in D PROVE place[r] \in D
    <2>1. r \notin Before(r) OBVIOUS
    <2>2. Before(r) \in SUBSET (D \ {r}) BY <2>1
    <2>3. IsFiniteSet(D \ {r}) /\ Cardinality(D \ {r}) = Cardinality(D) - 1
        BY <1>1, FS_RemoveElement
    <2>4. Cardinality(Before(r)) <= Cardinality(D \ {r}) BY <2>2, <2>3, FS_Subset
    <2> HIDE DEF Before
    <2>5. Cardinality(Before(r)) <= n - 2 BY <1>1, <1>2, <2>3, <2>4
    <2>6. QED BY <1>2, <1>3, <2>5
<1>5. ASSUME NEW r \in D, NEW s \in D, <<r, s>> \in R PROVE place[r] < place[s]
    <2>1. Before(r) \in SUBSET Before(s) /\ r \in Before(s) /\ r \notin Before(r) BY <1>5
    <2>2. /\ Cardinality(Before(r)) <= Cardinality(Before(s))
          /\ Cardinality(Before(s)) = Cardinality(Before(r)) => Before(s) = Before(r)
        <3> HIDE DEF Before
        <3>1. QED BY <1>2, <2>1, FS_Subset
    <2> HIDE DEF Before
    <2>3. Before(r) # Before(s) BY <2>1
    <2>4. /\ Cardinality(Before(r)) \in Nat /\ Cardinality(Before(s)) \in Nat
          /\ place[r] = 2 + Cardinality(Before(r)) /\ place[s] = 2 + Cardinality(Before(s))
        BY <1>2, <1>3
    <2>5. QED BY <2>2, <2>3, <2>4
<1>6. ASSUME NEW r \in D, NEW s \in D, place[r] < place[s] PROVE <<r, s>> \in R
    <2>1. place[r] \in Nat /\ place[s] \in Nat BY <1>4
    <2>2. r # s BY <1>6, <2>1
    <2>3. ~(place[s] < place[r]) BY <1>6, <2>1
    <2>4. <<s, r>> \notin R BY <1>5, <2>3
    <2>5. QED BY <2>2, <2>4
<1>7. place \in [D -> D] BY <1>4
<1>8. place \in Injection(D, D)
    <2>1. ASSUME NEW r \in D, NEW s \in D, place[r] = place[s] PROVE r = s
        <3>1. place[r] \in Nat BY <1>4
        <3>2. ~(place[r] < place[s]) /\ ~(place[s] < place[r]) BY <2>1, <3>1
        <3>3. <<r, s>> \notin R /\ <<s, r>> \notin R BY <1>5, <3>2
        <3>4. QED BY <3>3
    <2>2. QED BY <1>7, <2>1 DEF Injection, IsInjective
<1>9. place \in Surjection(D, D) BY <1>1, <1>8, FS_Injection
<1>10. \A k \in D : \E r \in D : place[r] = k BY <1>9 DEF Surjection
<1>11. QED BY <1>5, <1>6, <1>7, <1>10

\* The rows of a sort before one another: by key, and equal ones as they were.
XlBefore(g, col, desc, r, s) ==
    LET key(x) == g[x][col] IN
    \/ IF desc THEN Xl!KeyLess(key(s), key(r)) ELSE Xl!KeyLess(key(r), key(s))
    \/ r < s /\ ~Xl!KeyLess(key(r), key(s)) /\ ~Xl!KeyLess(key(s), key(r))

LEMMA XlBeforeOrders ==
    ASSUME NEW g \in Xl!Sheet, NEW col \in Xl!Col, NEW desc \in BOOLEAN,
           NEW r \in Xl!Row, NEW s \in Xl!Row, NEW t \in Xl!Row
    PROVE  /\ r # s => XlBefore(g, col, desc, r, s) \/ XlBefore(g, col, desc, s, r)
           /\ XlBefore(g, col, desc, r, s) => ~XlBefore(g, col, desc, s, r)
           /\ XlBefore(g, col, desc, r, s) /\ XlBefore(g, col, desc, s, t)
                => XlBefore(g, col, desc, r, t)
<1> DEFINE Less(x, y) == Xl!KeyLess(g[x][col], g[y][col])
<1>1. \A x \in Xl!Row : g[x][col] \in Xl!Cell BY DEF Xl!Sheet
<1>2. \A x, y, z \in {r, s, t} : /\ ~Less(x, x)
                                 /\ Less(x, y) => ~Less(y, x)
                                 /\ Less(x, z) => Less(x, y) \/ Less(y, z)
    BY <1>1, XlKeys
<1>3. r \in Nat /\ s \in Nat /\ t \in Nat BY XlAssumption DEF Xl!Row
<1>4. \A x, y \in {r, s, t} : XlBefore(g, col, desc, x, y) <=>
            \/ (desc /\ Less(y, x)) \/ (~desc /\ Less(x, y))
            \/ x < y /\ ~Less(x, y) /\ ~Less(y, x)
    BY DEF XlBefore
<1> HIDE DEF Less
<1>5. QED BY <1>2, <1>3, <1>4

\* The data rows are rows of the sheet.
LEMMA XlData ==
    ASSUME NEW g
    PROVE  /\ Xl!Data(g) = 2..Xl!LastRow(g) /\ Xl!LastRow(g) \in Nat
           /\ Xl!Data(g) \subseteq Xl!Row
           /\ IsFiniteSet(Xl!Data(g))
           /\ \A r \in Xl!Row : r \in Xl!Data(g) <=> r > 1 /\ r <= Xl!LastRow(g)
<1>1. Xl!LastRow(g) \in 0..MaxRow /\ MaxRow \in Nat BY XlLastRow, XlAssumption
<1>2. Xl!Data(g) = 2..Xl!LastRow(g) BY DEF Xl!Data
<1>3. IsFiniteSet(2..Xl!LastRow(g)) BY <1>1, FS_Interval
<1>4. QED BY <1>1, <1>2, <1>3 DEF Xl!Row

\* A sort that does not fail lays the rows, every one of them once, over the data rows.
XlLays(g, new, from) ==
    /\ from \in [Xl!Data(g) -> Xl!Data(g)]
    /\ \A k, l \in Xl!Data(g) : k # l => from[k] # from[l]
    /\ \A r \in Xl!Data(g) : \E k \in Xl!Data(g) : from[k] = r
    /\ new \in Xl!Sheet
    /\ \A k \in Xl!Data(g), c \in Xl!Col : new[k][c] = Xl!Laid(g[from[k]][c], g[k][c])
    /\ \A k \in Xl!Row \ Xl!Data(g) : new[k] = g[k]

\* What a sort that does not fail makes: every data row has one place, in order.
LEMMA XlSorted ==
    ASSUME NEW g \in Xl!Sheet, NEW col \in Xl!Col, NEW desc \in BOOLEAN,
           Xl!Sort(g, col, desc) # XlFail
    PROVE  \E from : /\ XlLays(g, Xl!Sort(g, col, desc), from)
                     /\ \A k, l \in Xl!Data(g) :
                            k < l => XlBefore(g, col, desc, from[k], from[l])
<1> DEFINE D == Xl!Data(g)
           n == Xl!LastRow(g)
           R == {rs \in D \X D : XlBefore(g, col, desc, rs[1], rs[2])}
           place == [r \in D |-> 2 + Cardinality({s \in D : <<s, r>> \in R})]
           from == [k \in D |-> CHOOSE r \in D : place[r] = k]
           laid(row, k) == [c \in Xl!Col |-> Xl!Laid(row[c], g[k][c])]
           new == Xl!Sort(g, col, desc)
<1>1. D = 2..n /\ n \in Nat /\ D \subseteq Xl!Row /\ n \in Nat BY XlData
<1>2. \A r, s \in D : <<r, s>> \in R <=> XlBefore(g, col, desc, r, s) OBVIOUS
<1>3. new = [k \in Xl!Row |-> IF k \in D THEN laid(g[CHOOSE r \in D : place[r] = k], k) ELSE g[k]]
    <2>1. \A r \in D : {s \in D : <<s, r>> \in R} = {s \in D : XlBefore(g, col, desc, s, r)}
        BY <1>2
    <2>2. \A r \in D : place[r] = 2 + Xl!Cardinality({s \in D : XlBefore(g, col, desc, s, r)})
        BY <2>1, XlCardinality
    <2> DEFINE Place(r) == 2 + Xl!Cardinality({s \in D : XlBefore(g, col, desc, s, r)})
    <2>3. new = [k \in Xl!Row |-> IF k \in D THEN laid(g[CHOOSE r \in D : Place(r) = k], k) ELSE g[k]]
        BY DEF Xl!Sort, XlBefore
    <2> DEFINE One(k) == CHOOSE r \in D : Place(r) = k
               Two(k) == CHOOSE r \in D : place[r] = k
    <2>4. \A k : One(k) = Two(k) BY <2>2
    <2>5. new = [k \in Xl!Row |-> IF k \in D THEN laid(g[One(k)], k) ELSE g[k]] BY <2>3
    <2>6. new = [k \in Xl!Row |-> IF k \in D THEN laid(g[Two(k)], k) ELSE g[k]]
        <3> HIDE DEF One, Two, D, laid, new
        <3>1. QED BY <2>4, <2>5
    <2>7. QED BY <2>6
<1> HIDE DEF R, new
<1>4. /\ \A r, s \in 2..n : /\ r # s => <<r, s>> \in R \/ <<s, r>> \in R
                            /\ <<r, s>> \in R => <<s, r>> \notin R
      /\ \A r, s, t \in 2..n : <<r, s>> \in R /\ <<s, t>> \in R => <<r, t>> \in R
    <2>1. \A r, s, t \in D : /\ r \in Xl!Row /\ s \in Xl!Row /\ t \in Xl!Row BY <1>1
    <2>2. \A r, s, t \in D :
             /\ r # s => XlBefore(g, col, desc, r, s) \/ XlBefore(g, col, desc, s, r)
             /\ XlBefore(g, col, desc, r, s) => ~XlBefore(g, col, desc, s, r)
             /\ XlBefore(g, col, desc, r, s) /\ XlBefore(g, col, desc, s, t)
                    => XlBefore(g, col, desc, r, t)
        BY <2>1, XlBeforeOrders
    <2> HIDE DEF D
    <2>3. QED BY <1>1, <1>2, <2>2
<1> DEFINE before == [r \in D |-> {s \in D : <<s, r>> \in R}]
<1>5. /\ before \in [2..n -> SUBSET (2..n)] /\ place \in [2..n -> Int]
      /\ \A r, s \in 2..n : s \in before[r] <=> <<s, r>> \in R
      /\ \A r \in 2..n : place[r] = 2 + Cardinality(before[r])
    <2>1. \A r \in D : Cardinality({s \in D : <<s, r>> \in R}) \in Nat
        <3>1. IsFiniteSet(D) BY XlData
        <3> HIDE DEF D
        <3>2. \A r \in D : {s \in D : <<s, r>> \in R} \in SUBSET D OBVIOUS
        <3>3. QED BY <3>1, <3>2, FS_Subset, FS_CardinalityType
    <2> HIDE DEF D
    <2>2. QED BY <1>1, <2>1
<1> HIDE DEF place, before
<1>6. /\ place \in [2..n -> 2..n]
      /\ \A r, s \in 2..n : <<r, s>> \in R <=> place[r] < place[s]
      /\ \A k \in 2..n : \E r \in 2..n : place[r] = k
    <2> HIDE DEF n, D, from
    <2>1. Ranks(n, R, before, place) BY <1>1, <1>4, <1>5 DEF Ranks
    <2>2. QED BY <2>1, Ranking
<1>7. \A k \in D : from[k] \in D /\ place[from[k]] = k BY <1>1, <1>6
<1>8. from \in [D -> D] BY <1>7
<1>9. ASSUME NEW k \in D, NEW l \in D, k < l PROVE XlBefore(g, col, desc, from[k], from[l])
    <2>1. place[from[k]] < place[from[l]] /\ from[k] \in D /\ from[l] \in D BY <1>7, <1>9
    <2> HIDE DEF from, D
    <2>2. <<from[k], from[l]>> \in R BY <1>1, <1>6, <2>1
    <2>3. QED BY <1>2, <2>1, <2>2
<1>10. \A k, l \in D : k # l => from[k] # from[l]
    <2> HIDE DEF from
    <2>1. QED BY <1>7
<1>11. ASSUME NEW r \in D PROVE \E k \in D : from[k] = r
    <2>1. place[r] \in D /\ from[place[r]] \in D /\ place[from[place[r]]] = place[r]
        BY <1>1, <1>6, <1>7
    <2> DEFINE q == from[place[r]]
    <2>2. q \in D /\ place[q] = place[r] BY <2>1
    <2> HIDE DEF q, from
    <2>3. place[r] \in Nat BY <1>1, <2>1
    <2>4. <<q, r>> \notin R /\ <<r, q>> \notin R BY <1>1, <1>6, <2>2, <2>3
    <2>5. q = r BY <1>1, <1>4, <2>2, <2>4
    <2>6. QED BY <2>1, <2>5 DEF q
<1>12. new = [k \in Xl!Row |-> IF k \in D THEN laid(g[from[k]], k) ELSE g[k]]
    <2>1. \A k \in D : from[k] = CHOOSE r \in D : place[r] = k OBVIOUS
    <2> HIDE DEF from, D, laid
    <2>2. QED BY <1>3, <2>1
<1> HIDE DEF from
<1>13. /\ \A k \in D, c \in Xl!Col : new[k][c] = Xl!Laid(g[from[k]][c], g[k][c])
       /\ \A k \in Xl!Row \ D : new[k] = g[k]
    <2>1. \A k \in D : k \in Xl!Row /\ new[k] = laid(g[from[k]], k)
        <3> HIDE DEF D, laid
        <3>1. QED BY <1>1, <1>12
    <2>2. QED BY <1>12, <2>1
<1>14. new \in Xl!Sheet
    <2>1. \A r \in Xl!Row : g[r] \in [Xl!Col -> Xl!Cell] BY DEF Xl!Sheet
    <2>2. ASSUME NEW k \in D PROVE laid(g[from[k]], k) \in [Xl!Col -> Xl!Cell]
        <3>1. from[k] \in Xl!Row /\ k \in Xl!Row BY <1>1, <1>7
        <3>2. QED BY <2>1, <3>1 DEF Xl!Laid
    <2> HIDE DEF D, laid
    <2>3. \A k \in Xl!Row : (IF k \in D THEN laid(g[from[k]], k) ELSE g[k]) \in [Xl!Col -> Xl!Cell]
        BY <2>1, <2>2
    <2>4. QED BY <1>12, <2>3 DEF Xl!Sheet
<1>15. XlLays(g, new, from) BY <1>8, <1>10, <1>11, <1>13, <1>14 DEF XlLays
<1>16. QED BY <1>9, <1>15 DEF new

\* A cell of what was laid: the one of the row laid there, or where that is blank the one
\* that stood there.
LEMMA XlLaidCells ==
    ASSUME NEW g \in Xl!Sheet, NEW new, NEW from, XlLays(g, new, from), NEW c \in Xl!Col
    PROVE  /\ \A k \in Xl!Data(g) :
                /\ k \in Xl!Row /\ from[k] \in Xl!Data(g) /\ from[k] \in Xl!Row
                /\ g[from[k]][c] # None => new[k][c] = g[from[k]][c]
                /\ g[from[k]][c] = None => new[k][c] = g[k][c]
           /\ \A r \in Xl!Row : r \notin Xl!Data(g) => new[r] = g[r]
           /\ \A r \in Xl!Row : /\ g[r][c] \in Xl!Cell /\ new[r][c] \in Xl!Cell
                                /\ g[r][c] # None => new[r][c] # None
<1>1. Xl!Data(g) \subseteq Xl!Row BY XlData
<1>2. \A r \in Xl!Row : g[r][c] \in Xl!Cell /\ new[r][c] \in Xl!Cell BY DEF Xl!Sheet, XlLays
<1>3. \A r \in Xl!Row : r \notin Xl!Data(g) => new[r] = g[r] BY DEF XlLays
<1>4. ASSUME NEW k \in Xl!Data(g)
      PROVE  /\ k \in Xl!Row /\ from[k] \in Xl!Data(g) /\ from[k] \in Xl!Row
             /\ g[from[k]][c] # None => new[k][c] = g[from[k]][c]
             /\ g[from[k]][c] = None => new[k][c] = g[k][c]
    BY <1>1 DEF XlLays, Xl!Laid
<1>5. \A r \in Xl!Row : g[r][c] # None => new[r][c] # None BY <1>3, <1>4
<1>6. QED BY <1>2, <1>3, <1>4, <1>5

\* A column has the same values before and after.
XlHas(h, R, c, v) == \E r \in R : h[r][c] = v

LEMMA XlSameValues ==
    ASSUME NEW g \in Xl!Sheet, NEW new, NEW from, XlLays(g, new, from), NEW c \in Xl!Col,
           NEW v, v # None
    PROVE  /\ XlHas(new, Xl!Data(g), c, v) <=> XlHas(g, Xl!Data(g), c, v)
           /\ XlHas(new, Xl!Row, c, v) <=> XlHas(g, Xl!Row, c, v)
<1> DEFINE D == Xl!Data(g)
<1>1. /\ \A k \in D : /\ k \in Xl!Row /\ from[k] \in D
                      /\ g[from[k]][c] # None => new[k][c] = g[from[k]][c]
                      /\ g[from[k]][c] = None => new[k][c] = g[k][c]
      /\ \A r \in Xl!Row : r \notin D => new[r] = g[r]
    BY XlLaidCells
<1>2. \A r \in D : \E k \in D : from[k] = r BY DEF XlLays
<1> HIDE DEF D
<1>3. (\E r \in D : new[r][c] = v) <=> (\E r \in D : g[r][c] = v)
    <2>1. ASSUME NEW r \in D, new[r][c] = v PROVE \E s \in D : g[s][c] = v BY <1>1, <2>1
    <2>2. ASSUME NEW r \in D, g[r][c] = v PROVE \E k \in D : new[k][c] = v
        <3>1. PICK k \in D : from[k] = r BY <1>2
        <3>2. QED BY <1>1, <2>2, <3>1
    <2>3. QED BY <2>1, <2>2
<1>4. (\E r \in Xl!Row : new[r][c] = v) <=> (\E r \in Xl!Row : g[r][c] = v)
    BY <1>1, <1>3
<1>5. QED BY <1>3, <1>4 DEF D, XlHas

\* Rows laid into places are no more than the places; as many, if nothing else is in them.
LEMMA XlLaidCount ==
    ASSUME NEW g, NEW new, NEW from, XlLays(g, new, from),
           NEW P \in SUBSET Xl!Data(g), NEW Q \in SUBSET Xl!Data(g),
           \A k \in Xl!Data(g) : from[k] \in P => k \in Q
    PROVE  /\ Xl!Cardinality(P) <= Xl!Cardinality(Q)
           /\ (\A k \in Q : from[k] \in P) => Xl!Cardinality(P) = Xl!Cardinality(Q)
<1> DEFINE D == Xl!Data(g)
           S == {k \in D : from[k] \in P}
           f == [k \in S |-> from[k]]
<1>1. IsFiniteSet(D) BY XlData
<1>2. /\ \A k, l \in D : k # l => from[k] # from[l]
      /\ \A r \in D : \E k \in D : from[k] = r
    BY DEF XlLays
<1>3. P \in SUBSET D /\ Q \in SUBSET D /\ S \in SUBSET Q OBVIOUS
<1> HIDE DEF D
<1>4. f \in [S -> P] /\ \A k, l \in S : f[k] = f[l] => k = l BY <1>2
<1>5. \A r \in P : \E k \in S : f[k] = r BY <1>2, <1>3
<1>6. (\A k \in Q : from[k] \in P) => S = Q BY <1>3
<1> HIDE DEF f, S
<1>7. f \in Bijection(S, P)
    BY <1>4, <1>5 DEF Bijection, Injection, Surjection, IsInjective
<1>8. IsFiniteSet(Q) BY <1>1, <1>3, FS_Subset
<1>9. IsFiniteSet(S) /\ Cardinality(S) <= Cardinality(Q) BY <1>3, <1>8, FS_Subset
<1>10. Cardinality(P) = Cardinality(S)
    <2>1. ExistsBijection(S, P) BY <1>7 DEF ExistsBijection
    <2>2. QED BY <1>9, <2>1, FS_Bijection
<1>11. QED BY <1>6, <1>9, <1>10, XlCardinality

\* What Xl!SortKeepsValues says of a sheet and what a sort has made of it.
XlKeepsValues(old, new, col, desc) ==
    LET rows(g, row) == Xl!Cardinality({r \in Xl!Data(old) : g[r] = row})
        times(g, c, v) == Xl!Cardinality({r \in Xl!Data(old) : g[r][c] = v})
    IN /\ \A r \in Xl!Row \ Xl!Data(old) : new[r] = old[r]
       /\ \A c \in Xl!Col, v \in Xl!Value :
            /\ times(old, c, v) <= times(new, c, v)
            /\ Xl!Solid(old, c) => times(old, c, v) = times(new, c, v)
       /\ \A r \in Xl!Data(old) :
            (\A c \in Xl!Col : old[r][c] # None) => rows(old, old[r]) <= rows(new, old[r])
       /\ \E ks \in SUBSET Xl!Data(old) :
            /\ \A k \in ks, r \in Xl!Data(old) : (IF desc THEN k < r ELSE r < k) => r \in ks
            /\ \A k \in ks : new[k][col] # None
            /\ \A k, l \in ks : k < l => IF desc THEN ~Xl!Less(new[k][col], new[l][col])
                                               ELSE ~Xl!Less(new[l][col], new[k][col])
            /\ \A v \in Xl!Value :
                times(old, col, v) = Xl!Cardinality({k \in ks : new[k][col] = v})

\* A sort keeps every value and puts those sorted by in order.
LEMMA XlSortKeeps ==
    ASSUME NEW g \in Xl!Sheet, NEW col \in Xl!Col, NEW desc \in BOOLEAN, NEW new, NEW from,
           XlLays(g, new, from),
           \A k, l \in Xl!Data(g) : k < l => XlBefore(g, col, desc, from[k], from[l])
    PROVE  XlKeepsValues(g, new, col, desc)
<1> DEFINE D == Xl!Data(g)
           ks == {k \in D : g[from[k]][col] # None}
<1>1. None \notin Xl!Value BY XlValues
<1>2. \A c \in Xl!Col :
        /\ \A k \in D : /\ k \in Xl!Row /\ from[k] \in D /\ from[k] \in Xl!Row
                        /\ g[from[k]][c] # None => new[k][c] = g[from[k]][c]
                        /\ g[from[k]][c] = None => new[k][c] = g[k][c]
        /\ \A r \in Xl!Row : g[r][c] \in Xl!Cell /\ new[r][c] \in Xl!Cell
    BY XlLaidCells
<1>3. \A r \in Xl!Row \ D : new[r] = g[r] BY XlLaidCells DEF XlLays
<1>4. ASSUME NEW c \in Xl!Col, NEW v \in Xl!Value
      PROVE  /\ Xl!Cardinality({r \in D : g[r][c] = v}) <= Xl!Cardinality({r \in D : new[r][c] = v})
             /\ Xl!Solid(g, c) =>
                  Xl!Cardinality({r \in D : g[r][c] = v}) = Xl!Cardinality({r \in D : new[r][c] = v})
    <2> DEFINE P == {r \in D : g[r][c] = v}
               Q == {r \in D : new[r][c] = v}
    <2>1. P \in SUBSET Xl!Data(g) /\ Q \in SUBSET Xl!Data(g) OBVIOUS
    <2>2. \A k \in D : from[k] \in P => k \in Q BY <1>1, <1>2
    <2>3. Xl!Solid(g, c) => \A k \in Q : from[k] \in P BY <1>2 DEF Xl!Solid
    <2> HIDE DEF P, Q
    <2>4. /\ Xl!Cardinality(P) <= Xl!Cardinality(Q)
          /\ (\A k \in Q : from[k] \in P) => Xl!Cardinality(P) = Xl!Cardinality(Q)
        BY <2>1, <2>2, XlLaidCount
    <2>5. QED BY <2>3, <2>4 DEF P, Q
<1>5. ASSUME NEW r \in D, \A c \in Xl!Col : g[r][c] # None
      PROVE  Xl!Cardinality({s \in D : g[s] = g[r]}) <= Xl!Cardinality({s \in D : new[s] = g[r]})
    <2> DEFINE P == {s \in D : g[s] = g[r]}
               Q == {s \in D : new[s] = g[r]}
    <2>1. P \in SUBSET Xl!Data(g) /\ Q \in SUBSET Xl!Data(g) OBVIOUS
    <2>2. ASSUME NEW k \in D, from[k] \in P PROVE k \in Q
        <3>1. D \subseteq Xl!Row BY XlData
        <3>2. g[from[k]] = g[r] BY <2>2
        <3>3. \A c \in Xl!Col : new[k][c] = g[r][c] BY <1>2, <1>5, <3>2
        <3>4. new[k] \in [Xl!Col -> Xl!Cell] /\ g[r] \in [Xl!Col -> Xl!Cell]
            BY <3>1 DEF XlLays, Xl!Sheet
        <3>5. new[k] = g[r] BY <3>3, <3>4
        <3>6. QED BY <3>5
    <2> HIDE DEF P, Q
    <2>3. Xl!Cardinality(P) <= Xl!Cardinality(Q) BY <2>1, <2>2, XlLaidCount
    <2>4. QED BY <2>3 DEF P, Q
<1>6. ASSUME NEW k \in D, NEW l \in D, k < l
      PROVE  LET u == g[from[k]][col]
                 v == g[from[l]][col]
             IN  IF desc THEN /\ u # None => v # None
                              /\ (u # None /\ v # None) => ~Xl!Less(u, v)
                         ELSE /\ v # None => u # None
                              /\ (u # None /\ v # None) => ~Xl!Less(v, u)
    <2> DEFINE u == g[from[k]][col]
               v == g[from[l]][col]
    <2>1. u \in Xl!Cell /\ v \in Xl!Cell BY <1>2
    <2>2. XlBefore(g, col, desc, from[k], from[l]) BY <1>6
    <2>3. IF desc THEN ~Xl!KeyLess(u, v) ELSE ~Xl!KeyLess(v, u)
        <3>1. /\ Xl!KeyLess(u, v) => ~Xl!KeyLess(v, u)
              /\ Xl!KeyLess(v, u) => ~Xl!KeyLess(u, v)
            BY <2>1, XlKeys
        <3>2. QED BY <2>2, <3>1 DEF XlBefore
    <2> HIDE DEF u, v
    <2>4. QED BY <2>1, <2>3, XlKeys DEF u, v
<1>7. ASSUME NEW v \in Xl!Value
      PROVE  Xl!Cardinality({r \in D : g[r][col] = v})
                = Xl!Cardinality({k \in ks : new[k][col] = v})
    <2> DEFINE P == {r \in D : g[r][col] = v}
               Q == {k \in ks : new[k][col] = v}
    <2>1. P \in SUBSET Xl!Data(g) /\ Q \in SUBSET Xl!Data(g) OBVIOUS
    <2>2. \A k \in D : from[k] \in P => k \in Q BY <1>1, <1>2
    <2>3. \A k \in Q : from[k] \in P BY <1>2
    <2> HIDE DEF P, Q
    <2>4. Xl!Cardinality(P) = Xl!Cardinality(Q) BY <2>1, <2>2, <2>3, XlLaidCount
    <2>5. QED BY <2>4 DEF P, Q
<1>8. \A k \in ks : k \in D /\ new[k][col] = g[from[k]][col] /\ new[k][col] # None BY <1>2
<1>9. \A k \in ks, r \in D : (IF desc THEN k < r ELSE r < k) => r \in ks BY <1>6
<1>10. \A k, l \in ks : k < l => IF desc THEN ~Xl!Less(new[k][col], new[l][col])
                                         ELSE ~Xl!Less(new[l][col], new[k][col])
    <2>1. ASSUME NEW k \in ks, NEW l \in ks, k < l
          PROVE  IF desc THEN ~Xl!Less(new[k][col], new[l][col])
                         ELSE ~Xl!Less(new[l][col], new[k][col])
        <3>1. /\ k \in D /\ new[k][col] = g[from[k]][col] /\ new[k][col] # None
              /\ l \in D /\ new[l][col] = g[from[l]][col] /\ new[l][col] # None
            BY <1>8
        <3>2. QED BY <1>6, <2>1, <3>1
    <2>2. QED BY <2>1
<1>11. ks \in SUBSET D OBVIOUS
<1> HIDE DEF ks
<1>12. QED BY <1>3, <1>4, <1>5, <1>7, <1>8, <1>9, <1>10, <1>11 DEF XlKeepsValues

-----------------------------------------------------------------------------
(* What is read of a sheet after a sort.                                   *)

\* The cells of a window are finitely many.
LEMMA XlPositions == IsFiniteSet(Xl!Position)
<1>1. IsFiniteSet(Xl!Row) /\ IsFiniteSet(Xl!Col)
    BY XlAssumption, FS_Interval DEF Xl!Row, Xl!Col
<1>2. QED BY <1>1, FS_Product DEF Xl!Position

\* The rows and the columns of the cells with a value have a least and a greatest.
LEMMA XlUsed ==
    ASSUME NEW g, NEW q \in Xl!Position, Xl!CellAt(g, q) # None
    PROVE  LET rg == Xl!Used(g)
               ps == {p \in Xl!Position : Xl!CellAt(g, p) # None}
           IN  /\ \A i \in 1..2 : rg[1][i] \in {p[i] : p \in ps} /\ rg[2][i] \in {p[i] : p \in ps}
               /\ \A i \in 1..2 : \A p \in ps : rg[1][i] <= p[i] /\ p[i] <= rg[2][i]
               /\ rg = <<<<rg[1][1], rg[1][2]>>, <<rg[2][1], rg[2][2]>>>>
<1> DEFINE ps == {p \in Xl!Position : Xl!CellAt(g, p) # None}
           At(i) == {p[i] : p \in ps}
           least(i) == CHOOSE n \in At(i) : \A p \in ps : n <= p[i]
           most(i) == CHOOSE n \in At(i) : \A p \in ps : p[i] <= n
           rg == Xl!Used(g)
<1>1. MaxRow \in Nat /\ MaxCol \in Nat BY XlAssumption
<1>2. \A p \in ps : p[1] \in 1..MaxRow /\ p[2] \in 1..MaxCol
    BY DEF Xl!Position, Xl!Row, Xl!Col
<1>3. ps # {} OBVIOUS
<1>4. rg = <<<<least(1), least(2)>>, <<most(1), most(2)>>>>
    <2>1. Xl!Where(g, LAMBDA v : v # None) = ps BY DEF Xl!Where
    <2>2. QED BY <1>3, <2>1 DEF Xl!Used, Xl!Where
<1>5. ASSUME NEW i \in 1..2
      PROVE  /\ least(i) \in At(i) /\ \A p \in ps : least(i) <= p[i]
             /\ most(i) \in At(i) /\ \A p \in ps : p[i] <= most(i)
    <2> DEFINE n == IF i = 1 THEN MaxRow ELSE MaxCol
    <2>1. n \in Nat /\ \A p \in ps : p[i] \in 0..n BY <1>1, <1>2
    <2> HIDE DEF n, ps
    <2>2. At(i) # {} BY <1>3
    <2>3. At(i) \in SUBSET (0..n) BY <2>1
    <2>4. At(i) \in SUBSET Nat BY <2>1, <2>3
    <2>5. \E m \in At(i) : \A o \in At(i) : m <= o BY <2>2, <2>4, LeastElement
    <2>6. \E m \in At(i) : \A o \in At(i) : o <= m BY <2>1, <2>2, <2>3, GreatestElement
    <2>7. \E m \in At(i) : \A p \in ps : m <= p[i] BY <2>5
    <2>8. \E m \in At(i) : \A p \in ps : p[i] <= m BY <2>6
    <2> DEFINE Low(m) == \A p \in ps : m <= p[i]
               High(m) == \A p \in ps : p[i] <= m
    <2>9. (\E m \in At(i) : Low(m)) /\ (\E m \in At(i) : High(m)) BY <2>7, <2>8
    <2>10. least(i) = (CHOOSE m \in At(i) : Low(m)) /\ most(i) = (CHOOSE m \in At(i) : High(m))
        OBVIOUS
    <2> HIDE DEF Low, High, At, least, most
    <2>11. least(i) \in At(i) /\ Low(least(i)) /\ most(i) \in At(i) /\ High(most(i))
        BY <2>9, <2>10
    <2>12. QED BY <2>11 DEF Low, High
<1> HIDE DEF least, most, ps, At
<1>6. \A i \in 1..2 : rg[1][i] = least(i) /\ rg[2][i] = most(i) BY <1>4
<1>7. rg = <<<<rg[1][1], rg[1][2]>>, <<rg[2][1], rg[2][2]>>>> BY <1>4, <1>6
<1> HIDE DEF rg
<1>8. QED BY <1>5, <1>6, <1>7 DEF ps, At, rg

\* A row that is not empty has a cell with a value.
LEMMA XlRowHasCell ==
    ASSUME NEW g \in Xl!Sheet, NEW r \in Xl!Row
    PROVE  g[r] # Xl!Empty <=> \E c \in Xl!Col : g[r][c] # None
BY DEF Xl!Sheet, Xl!Empty

\* The last row, and so the data rows, are the same before and after.
LEMMA XlSameData ==
    ASSUME NEW g \in Xl!Sheet, NEW new, NEW from, XlLays(g, new, from)
    PROVE  Xl!LastRow(new) = Xl!LastRow(g) /\ Xl!Data(new) = Xl!Data(g)
<1> DEFINE n == Xl!LastRow(g)
           m == Xl!LastRow(new)
<1>1. /\ n \in 0..MaxRow /\ (n = 0 \/ g[n] # Xl!Empty)
      /\ \A r \in Xl!Row : r > n => g[r] = Xl!Empty
    BY XlLastRow
<1>2. /\ m \in 0..MaxRow /\ (m = 0 \/ new[m] # Xl!Empty)
      /\ \A r \in Xl!Row : r > m => new[r] = Xl!Empty
    BY XlLastRow
<1>3. MaxRow \in Nat /\ new \in Xl!Sheet BY XlAssumption DEF XlLays
<1>4. \A r \in Xl!Row : r > n => new[r] = Xl!Empty
    <2>1. \A r \in Xl!Row : r > n => r \notin Xl!Data(g)
        BY <1>1, <1>3, XlData DEF Xl!Row
    <2>2. \A r \in Xl!Row : r \notin Xl!Data(g) => new[r] = g[r] BY DEF XlLays
    <2> HIDE DEF n
    <2>3. QED BY <1>1, <2>1, <2>2
<1>5. ASSUME n # 0 PROVE new[n] # Xl!Empty /\ n \in Xl!Row
    <2>1. n \in Xl!Row /\ g[n] # Xl!Empty BY <1>1, <1>3, <1>5 DEF Xl!Row
    <2> HIDE DEF n
    <2>2. PICK c \in Xl!Col : g[n][c] # None BY <2>1, XlRowHasCell
    <2>3. new[n][c] # None BY <2>1, <2>2, XlLaidCells
    <2>4. QED BY <1>3, <2>1, <2>3, XlRowHasCell
<1> HIDE DEF n, m
<1>6. ~(m > n) BY <1>1, <1>2, <1>3, <1>4 DEF Xl!Row
<1>7. ~(n > m) BY <1>1, <1>2, <1>3, <1>5
<1>8. m = n BY <1>1, <1>2, <1>3, <1>6, <1>7
<1>9. QED BY <1>8 DEF n, m, Xl!Data

\* The cells of a column.
LEMMA XlColumn ==
    ASSUME NEW c \in Xl!Col
    PROVE  /\ \A p \in Xl!Cells(Xl!Column(c)) : /\ p[1] \in Xl!Row /\ p[2] = c /\ p = <<p[1], c>>
                                                /\ p \in Xl!Position
                                                /\ \A g : Xl!CellAt(g, p) = g[p[1]][c]
           /\ \A r \in Xl!Row : /\ <<r, c>> \in Xl!Cells(Xl!Column(c))
                                /\ \A g : Xl!CellAt(g, <<r, c>>) = g[r][c]
<1> DEFINE rg == <<<<1, c>>, <<MaxRow, c>>>>
<1>1. MaxRow \in Nat \ {0} /\ MaxCol \in Nat /\ c \in Nat BY XlAssumption DEF Xl!Col
<1>2. \A r \in Xl!Row : r \in Nat /\ 1 <= r /\ r <= MaxRow BY <1>1 DEF Xl!Row
<1>3. Xl!Column(c) = rg BY DEF Xl!Column
<1>4. ASSUME NEW p \in Xl!Cells(rg)
      PROVE  /\ p[1] \in Xl!Row /\ p[2] = c /\ p = <<p[1], c>> /\ p \in Xl!Position
             /\ \A g : Xl!CellAt(g, p) = g[p[1]][c]
    <2>1. p \in Xl!Position /\ c <= p[2] /\ p[2] <= c BY DEF Xl!Cells
    <2>2. p[1] \in Xl!Row /\ p[2] \in Xl!Col /\ p = <<p[1], p[2]>> BY <2>1 DEF Xl!Position
    <2>3. p[2] \in Nat BY <1>1, <2>2 DEF Xl!Col
    <2>4. p[2] = c BY <1>1, <2>1, <2>3
    <2>5. QED BY <2>1, <2>2, <2>4 DEF Xl!CellAt
<1>5. ASSUME NEW r \in Xl!Row
      PROVE  <<r, c>> \in Xl!Cells(rg) /\ \A g : Xl!CellAt(g, <<r, c>>) = g[r][c]
    BY <1>1, <1>2 DEF Xl!Cells, Xl!Position, Xl!CellAt
<1>6. QED BY <1>3, <1>4, <1>5

\* A snapshot of a sheet with a header: the same range and the same headers.
LEMMA XlSameSnapshot ==
    ASSUME NEW g \in Xl!Sheet, NEW new, NEW from, XlLays(g, new, from), g[1] # Xl!Empty
    PROVE  /\ Xl!Snapshot(new).range = Xl!Snapshot(g).range
           /\ Xl!Snapshot(new).headers = Xl!Snapshot(g).headers
<1> DEFINE ps(h) == {p \in Xl!Position : Xl!CellAt(h, p) # None}
           At(h, i) == {p[i] : p \in ps(h)}
           n == Xl!LastRow(g)
<1>1. MaxRow \in Nat \ {0} /\ MaxCol \in Nat /\ new \in Xl!Sheet BY XlAssumption DEF XlLays
<1>2. 1 \in Xl!Row /\ 1 \notin Xl!Data(g) BY <1>1, XlData DEF Xl!Row
<1>3. new[1] = g[1] BY <1>2 DEF XlLays
<1>4. \A h : \A p \in ps(h) : /\ p[1] \in Xl!Row /\ p[2] \in Xl!Col /\ h[p[1]][p[2]] # None
                              /\ p[1] \in 1..MaxRow /\ p[2] \in 1..MaxCol
    BY DEF Xl!Position, Xl!CellAt, Xl!Row, Xl!Col
<1>5. \A h : \A r \in Xl!Row, c \in Xl!Col : h[r][c] # None => <<r, c>> \in ps(h)
    BY DEF Xl!Position, Xl!CellAt
<1> HIDE DEF ps
<1>6. PICK a \in Xl!Col : g[1][a] # None BY <1>2, XlRowHasCell
<1>7. ASSUME NEW h \in Xl!Sheet, h[1] = g[1], Xl!LastRow(h) = n
      PROVE  /\ \A i \in 1..2 : /\ Xl!Used(h)[1][i] \in At(h, i)
                                /\ Xl!Used(h)[2][i] \in At(h, i)
                                /\ \A x \in At(h, i) : Xl!Used(h)[1][i] <= x /\ x <= Xl!Used(h)[2][i]
             /\ Xl!Used(h) = <<<<Xl!Used(h)[1][1], Xl!Used(h)[1][2]>>,
                               <<Xl!Used(h)[2][1], Xl!Used(h)[2][2]>>>>
             /\ Xl!Used(h)[1][1] = 1 /\ Xl!Used(h)[2][1] = n
    <2> DEFINE rg == Xl!Used(h)
    <2>1. <<1, a>> \in Xl!Position /\ Xl!CellAt(h, <<1, a>>) # None
        BY <1>2, <1>6, <1>7 DEF Xl!Position, Xl!CellAt
    <2>2. /\ \A i \in 1..2 : rg[1][i] \in At(h, i) /\ rg[2][i] \in At(h, i)
          /\ \A i \in 1..2 : \A p \in ps(h) : rg[1][i] <= p[i] /\ p[i] <= rg[2][i]
          /\ rg = <<<<rg[1][1], rg[1][2]>>, <<rg[2][1], rg[2][2]>>>>
        BY <2>1, XlUsed DEF ps
    <2> HIDE DEF rg
    <2>3. \A i \in 1..2 : \A x \in At(h, i) : rg[1][i] <= x /\ x <= rg[2][i] BY <2>2
    <2>4. /\ n \in 0..MaxRow /\ (n = 0 \/ h[n] # Xl!Empty)
          /\ \A r \in Xl!Row : r > n => h[r] = Xl!Empty
        BY <1>7, XlLastRow
    <2> HIDE DEF n
    <2>5. n \in Xl!Row /\ h[n] # Xl!Empty /\ n >= 1 BY <1>1, <1>2, <1>7, <2>4 DEF Xl!Row
    <2>6. PICK b \in Xl!Col : h[n][b] # None BY <2>5, XlRowHasCell
    <2>7. <<1, a>> \in ps(h) /\ <<n, b>> \in ps(h) BY <1>2, <1>5, <1>6, <1>7, <2>5, <2>6
    <2>8. 1 \in At(h, 1) /\ n \in At(h, 1)
        <3>1. <<1, a>>[1] = 1 /\ <<n, b>>[1] = n OBVIOUS
        <3>2. QED BY <2>7, <3>1
    <2>9. \A x \in At(h, 1) : x \in 1..MaxRow /\ x <= n
        <3>1. ASSUME NEW p \in ps(h) PROVE p[1] \in 1..MaxRow /\ p[1] <= n
            <4>1. p[1] \in Xl!Row /\ h[p[1]] # Xl!Empty /\ p[1] \in 1..MaxRow
                BY <1>4, XlRowHasCell
            <4>2. QED BY <2>4, <4>1
        <3>2. QED BY <3>1
    <2> HIDE DEF At
    <2>10. rg[1][1] = 1
        <3>1. rg[1][1] \in 1..MaxRow /\ rg[1][1] <= 1 BY <2>2, <2>3, <2>8, <2>9
        <3>2. QED BY <3>1
    <2>11. rg[2][1] = n
        <3>1. rg[2][1] \in 1..MaxRow /\ rg[2][1] <= n /\ n <= rg[2][1] BY <2>2, <2>3, <2>8, <2>9
        <3>2. n \in 1..MaxRow BY <2>5 DEF Xl!Row
        <3>3. QED BY <1>1, <3>1, <3>2
    <2>12. QED BY <2>2, <2>3, <2>10, <2>11 DEF rg
<1>8. Xl!LastRow(new) = n BY XlSameData
<1> HIDE DEF n
<1>9. At(new, 2) = At(g, 2)
    <2>1. ASSUME NEW c \in Xl!Col
          PROVE  (\E r \in Xl!Row : new[r][c] # None) <=> (\E r \in Xl!Row : g[r][c] # None)
        <3>1. ASSUME NEW r \in Xl!Row, new[r][c] # None PROVE \E s \in Xl!Row : g[s][c] # None
            <4>1. XlHas(new, Xl!Row, c, new[r][c]) BY DEF XlHas
            <4>2. XlHas(g, Xl!Row, c, new[r][c]) BY <3>1, <4>1, XlSameValues
            <4>3. QED BY <3>1, <4>2 DEF XlHas
        <3>2. \A r \in Xl!Row : g[r][c] # None => new[r][c] # None BY XlLaidCells
        <3>3. QED BY <3>1, <3>2
    <2>2. ASSUME NEW h, NEW x
          PROVE  x \in At(h, 2) <=> x \in Xl!Col /\ \E r \in Xl!Row : h[r][x] # None
        <3>1. ASSUME x \in Xl!Col, NEW r \in Xl!Row, h[r][x] # None PROVE x \in At(h, 2)
            <4>1. <<r, x>> \in ps(h) /\ <<r, x>>[2] = x BY <1>5, <3>1
            <4>2. QED BY <4>1
        <3>2. QED BY <1>4, <3>1
    <2> HIDE DEF At
    <2>3. \A x : x \in At(new, 2) <=> x \in At(g, 2) BY <2>1, <2>2
    <2>4. QED BY <2>3
<1>10. \A h : \A x \in At(h, 2) : x \in Nat BY <1>1, <1>4
<1> HIDE DEF At
<1>11. Xl!Used(new) = Xl!Used(g)
    <2> DEFINE u == Xl!Used(new)
               v == Xl!Used(g)
    <2>1. /\ \A i \in 1..2 : /\ u[1][i] \in At(new, i) /\ u[2][i] \in At(new, i)
                             /\ \A x \in At(new, i) : u[1][i] <= x /\ x <= u[2][i]
          /\ u = <<<<u[1][1], u[1][2]>>, <<u[2][1], u[2][2]>>>> /\ u[1][1] = 1 /\ u[2][1] = n
        BY <1>1, <1>3, <1>7, <1>8
    <2>2. /\ \A i \in 1..2 : /\ v[1][i] \in At(g, i) /\ v[2][i] \in At(g, i)
                             /\ \A x \in At(g, i) : v[1][i] <= x /\ x <= v[2][i]
          /\ v = <<<<v[1][1], v[1][2]>>, <<v[2][1], v[2][2]>>>> /\ v[1][1] = 1 /\ v[2][1] = n
        BY <1>7 DEF n
    <2> HIDE DEF u, v
    <2>3. /\ u[1][2] \in Nat /\ v[1][2] \in Nat /\ u[1][2] <= v[1][2] /\ v[1][2] <= u[1][2]
          /\ u[2][2] \in Nat /\ v[2][2] \in Nat /\ u[2][2] <= v[2][2] /\ v[2][2] <= u[2][2]
        BY <1>9, <1>10, <2>1, <2>2
    <2>4. u[1][2] = v[1][2] /\ u[2][2] = v[2][2] BY <2>3
    <2>5. u = v BY <2>1, <2>2, <2>4
    <2>6. QED BY <2>5 DEF u, v
<1>12. Xl!Used(g)[1][1] = 1 BY <1>7 DEF n
<1> DEFINE rg == Xl!Used(g)
           top == <<rg[1], <<rg[1][1], rg[2][2]>>>>
<1>13. /\ Xl!Snapshot(new).range = rg /\ Xl!Snapshot(new).headers = Xl!Get(new, top)
       /\ Xl!Snapshot(g).range = rg /\ Xl!Snapshot(g).headers = Xl!Get(g, top)
    BY <1>11 DEF Xl!Snapshot
<1>14. \A p \in Xl!Cells(top) : Xl!CellAt(new, p) = Xl!CellAt(g, p)
    <2>1. ASSUME NEW p \in Xl!Cells(top) PROVE p[1] = 1
        <3>1. p[1] \in Xl!Row /\ 1 <= p[1] /\ p[1] <= 1
            BY <1>12 DEF Xl!Cells, Xl!Position
        <3>2. QED BY <1>1, <3>1 DEF Xl!Row
    <2>2. QED BY <1>3, <2>1 DEF Xl!CellAt
<1> HIDE DEF top, rg
<1>15. Xl!Get(new, top) = Xl!Get(g, top) BY <1>14 DEF Xl!Get
<1>16. QED BY <1>13, <1>15

\* A column: the same greatest and least number, and no fewer values.
LEMMA XlSameExtremes ==
    ASSUME NEW g \in Xl!Sheet, NEW new, NEW from, XlLays(g, new, from), NEW c \in Xl!Col
    PROVE  /\ Xl!Largest(new, Xl!Column(c)) = Xl!Largest(g, Xl!Column(c))
           /\ Xl!Smallest(new, Xl!Column(c)) = Xl!Smallest(g, Xl!Column(c))
           /\ Xl!Count(new, Xl!Column(c)) >= Xl!Count(g, Xl!Column(c))
<1> DEFINE rg == Xl!Column(c)
           s(h) == {Xl!CellAt(h, p)[2] : p \in Xl!NumbersIn(h, rg)}
           Here(h, x) == \E r \in Xl!Row : h[r][c] # None /\ h[r][c][1] = "number" /\ h[r][c][2] = x
<1>1. ASSUME NEW h, NEW x PROVE x \in s(h) <=> Here(h, x)
    <2>1. ASSUME x \in s(h) PROVE Here(h, x)
        <3>1. PICK p \in Xl!NumbersIn(h, rg) : x = Xl!CellAt(h, p)[2] BY <2>1
        <3>2. p \in Xl!Cells(rg) /\ Xl!CellAt(h, p) # None /\ Xl!CellAt(h, p)[1] = "number"
            BY DEF Xl!NumbersIn
        <3>3. QED BY <3>1, <3>2, XlColumn
    <2>2. ASSUME Here(h, x) PROVE x \in s(h)
        <3>1. PICK r \in Xl!Row : h[r][c] # None /\ h[r][c][1] = "number" /\ h[r][c][2] = x
            BY <2>2
        <3>2. <<r, c>> \in Xl!Cells(rg) /\ Xl!CellAt(h, <<r, c>>) = h[r][c] BY XlColumn
        <3>3. <<r, c>> \in Xl!NumbersIn(h, rg) BY <3>1, <3>2 DEF Xl!NumbersIn
        <3>4. QED BY <3>1, <3>2, <3>3
    <2>3. QED BY <2>1, <2>2
<1>2. \A x : Here(new, x) <=> Here(g, x)
    <2>1. ASSUME NEW x, Here(new, x) PROVE Here(g, x)
        <3>1. PICK r \in Xl!Row : new[r][c] # None /\ new[r][c][1] = "number" /\ new[r][c][2] = x
            BY <2>1
        <3>2. XlHas(new, Xl!Row, c, new[r][c]) BY DEF XlHas
        <3>3. XlHas(g, Xl!Row, c, new[r][c]) BY <3>1, <3>2, XlSameValues
        <3>4. QED BY <3>1, <3>3 DEF XlHas
    <2>2. ASSUME NEW x, Here(g, x) PROVE Here(new, x)
        <3>1. PICK r \in Xl!Row : g[r][c] # None /\ g[r][c][1] = "number" /\ g[r][c][2] = x
            BY <2>2
        <3>2. XlHas(g, Xl!Row, c, g[r][c]) BY DEF XlHas
        <3>3. XlHas(new, Xl!Row, c, g[r][c]) BY <3>1, <3>2, XlSameValues
        <3>4. QED BY <3>1, <3>3 DEF XlHas
    <2>3. QED BY <2>1, <2>2
<1>3. s(new) = s(g)
    <2> HIDE DEF s, Here
    <2>1. \A x : x \in s(new) <=> x \in s(g) BY <1>1, <1>2
    <2> DEFINE S == s(new)
               T == s(g)
    <2>2. \A x : x \in S <=> x \in T BY <2>1
    <2>3. S = T /\ S = {x \in S : TRUE}
        <3>1. S = {Xl!CellAt(new, p)[2] : p \in Xl!NumbersIn(new, rg)} BY DEF s
        <3>2. T = {Xl!CellAt(g, p)[2] : p \in Xl!NumbersIn(g, rg)} BY DEF s
        <3>3. QED BY <2>2, <3>1, <3>2
    <2>4. QED BY <2>3
<1>4. \A h : /\ Xl!Largest(h, rg) = IF s(h) = {} THEN None ELSE CHOOSE x \in s(h) : \A y \in s(h) : y <= x
             /\ Xl!Smallest(h, rg) = IF s(h) = {} THEN None ELSE CHOOSE x \in s(h) : \A y \in s(h) : x <= y
    BY DEF Xl!Largest, Xl!Smallest
<1>5. Xl!Largest(new, rg) = Xl!Largest(g, rg) /\ Xl!Smallest(new, rg) = Xl!Smallest(g, rg)
    <2> HIDE DEF s, rg
    <2>1. QED BY <1>3, <1>4
<1> DEFINE full(h) == {p \in Xl!Cells(rg) : Xl!CellAt(h, p) # None}
<1>6. full(g) \in SUBSET full(new)
    <2>1. \A r \in Xl!Row : g[r][c] # None => new[r][c] # None BY XlLaidCells
    <2>2. QED BY <2>1, XlColumn
<1>7. IsFiniteSet(full(new))
    <2>1. full(new) \in SUBSET Xl!Position BY DEF Xl!Cells
    <2>2. QED BY <2>1, XlPositions, FS_Subset
<1>8. \A h : Xl!Count(h, rg) = Xl!Cardinality(full(h)) BY DEF Xl!Count
<1> HIDE DEF full
<1>9. /\ Cardinality(full(g)) <= Cardinality(full(new)) /\ IsFiniteSet(full(g))
    BY <1>6, <1>7, FS_Subset
<1>10. Cardinality(full(g)) \in Nat /\ Cardinality(full(new)) \in Nat
    BY <1>7, <1>9, FS_CardinalityType
<1>11. Xl!Count(new, rg) >= Xl!Count(g, rg) BY <1>8, <1>9, <1>10, XlCardinality
<1>12. QED BY <1>5, <1>11

\* A column: a text is found if it was, and a filter that fails on it failed before; one
\* for rows with a value finds no fewer.
LEMMA XlSameMatches ==
    ASSUME NEW g \in Xl!Sheet, NEW new, NEW from, XlLays(g, new, from), NEW c \in Xl!Col
    PROVE  /\ \A t \in Texts : Xl!Find(new, t, {c}) = {} <=> Xl!Find(g, t, {c}) = {}
           /\ \A w \in Xl!Value, op \in Xl!Tests \ {"!=", "empty"} :
                LET was == Xl!Filter(g, c, op, w)
                    is == Xl!Filter(new, c, op, w)
                IN IF was = XlFail THEN is = XlFail
                   ELSE is # XlFail /\ Xl!Cardinality(is) >= Xl!Cardinality(was)
<1> DEFINE D == Xl!Data(g)
<1>1. Xl!Data(new) = D /\ D \subseteq Xl!Row /\ IsFiniteSet(D) BY XlData, XlSameData
<1>2. None \notin Xl!Value BY XlValues
<1>3. ASSUME NEW t \in Texts PROVE Xl!Find(new, t, {c}) = {} <=> Xl!Find(g, t, {c}) = {}
    <2> DEFINE v == <<"text", t>>
    <2>1. v # None BY <1>2 DEF Xl!Value
    <2>2. ASSUME NEW h PROVE Xl!Find(h, t, {c}) = {} <=> ~\E r \in Xl!Row : h[r][c] = v
        <3>1. ASSUME NEW p \in Xl!Find(h, t, {c}) PROVE \E r \in Xl!Row : h[r][c] = v
            <4>1. p \in Xl!Position /\ Xl!CellAt(h, p) = v /\ p[2] = c
                BY DEF Xl!Find, Xl!Where
            <4>2. p[1] \in Xl!Row BY <4>1 DEF Xl!Position
            <4>3. QED BY <4>1, <4>2 DEF Xl!CellAt
        <3>2. ASSUME NEW r \in Xl!Row, h[r][c] = v PROVE <<r, c>> \in Xl!Find(h, t, {c})
            BY <3>2 DEF Xl!Find, Xl!Where, Xl!Position, Xl!CellAt
        <3>3. QED BY <3>1, <3>2
    <2> HIDE DEF v
    <2>3. (\E r \in Xl!Row : new[r][c] = v) <=> (\E r \in Xl!Row : g[r][c] = v)
        BY <2>1, XlSameValues DEF XlHas
    <2>4. QED BY <2>2, <2>3
<1>4. ASSUME NEW w \in Xl!Value, NEW op \in Xl!Tests \ {"!=", "empty"}
      PROVE  LET was == Xl!Filter(g, c, op, w)
                 is == Xl!Filter(new, c, op, w)
             IN IF was = XlFail THEN is = XlFail
                ELSE is # XlFail /\ Xl!Cardinality(is) >= Xl!Cardinality(was)
    <2> DEFINE P == {r \in D : Xl!Passes(g[r][c], op, w)}
               Q == {r \in D : Xl!Passes(new[r][c], op, w)}
               Mixed(h) == \E r \in D : h[r][c] # None /\ ~Xl!Comparable(h[r][c], w)
               Raises(h) == op \in {"<", ">", "<=", ">="} /\ Mixed(h)
    <2>1. /\ Xl!Filter(g, c, op, w) = IF Raises(g) THEN XlFail ELSE P
          /\ Xl!Filter(new, c, op, w) = IF Raises(new) THEN XlFail ELSE Q
        BY <1>1 DEF Xl!Filter
    <2>2. Mixed(new) <=> Mixed(g)
        <3>1. ASSUME NEW r \in D, new[r][c] # None, ~Xl!Comparable(new[r][c], w) PROVE Mixed(g)
            <4>1. XlHas(new, D, c, new[r][c]) BY DEF XlHas
            <4>2. XlHas(g, D, c, new[r][c]) BY <3>1, <4>1, XlSameValues
            <4>3. QED BY <3>1, <4>2 DEF XlHas
        <3>2. ASSUME NEW r \in D, g[r][c] # None, ~Xl!Comparable(g[r][c], w) PROVE Mixed(new)
            <4>1. XlHas(g, D, c, g[r][c]) BY DEF XlHas
            <4>2. XlHas(new, D, c, g[r][c]) BY <3>2, <4>1, XlSameValues
            <4>3. QED BY <3>2, <4>2 DEF XlHas
        <3>3. QED BY <3>1, <3>2
    <2>3. P \in SUBSET D /\ Q \in SUBSET D OBVIOUS
    <2>4. \A u : Xl!Passes(u, op, w) => u # None BY <1>2 DEF Xl!Passes, Xl!Tests
    <2>5. \A k \in D : g[from[k]][c] # None => new[k][c] = g[from[k]][c] BY XlLaidCells
    <2>6. \A k \in D : from[k] \in P => k \in Q BY <2>4, <2>5
    <2> HIDE DEF P, Q, Mixed
    <2>7. Xl!Cardinality(P) <= Xl!Cardinality(Q) BY <2>3, <2>6, XlLaidCount
    <2>8. IsFiniteSet(P) /\ IsFiniteSet(Q) BY <1>1, <2>3, FS_Subset
    <2>9. Xl!Cardinality(P) \in Nat /\ Xl!Cardinality(Q) \in Nat
        BY <2>8, FS_CardinalityType, XlCardinality
    <2>10. Xl!Cardinality(Q) >= Xl!Cardinality(P) BY <2>7, <2>9
    <2>11. P # XlFail /\ Q # XlFail
        <3>1. P \in SUBSET Xl!Row /\ Q \in SUBSET Xl!Row BY <1>1, <2>3
        <3>2. QED BY <3>1, XlAssumption
    <2>12. QED BY <2>1, <2>2, <2>10, <2>11
<1>5. QED BY <1>3, <1>4

-----------------------------------------------------------------------------
(* The sum of a column.                                                    *)

\* The sum of Xl!Sum, one cell after another.
XlAdd(g, ps, rest) == Xl!CellAt(g, CHOOSE q \in ps : TRUE)[2] + rest
XlRest(ps) == ps \ {CHOOSE q \in ps : TRUE}
XlSums(g, f, Sets) ==
    f = [ps \in Sets |-> IF ps = {} THEN 0 ELSE XlAdd(g, ps, f[XlRest(ps)])]

\* There is such a sum, of the sets up to any size and so of all.
LEMMA XlSumExists ==
    ASSUME NEW g
    PROVE  \E f : XlSums(g, f, SUBSET Xl!Position)
<1> DEFINE Small(n) == {ps \in SUBSET Xl!Position : Cardinality(ps) <= n}
           Has(n) == \E f : XlSums(g, f, Small(n))
           Lacks == {n \in Nat : ~Has(n)}
<1>1. \A ps \in SUBSET Xl!Position : IsFiniteSet(ps) /\ Cardinality(ps) \in Nat
    BY XlPositions, FS_Subset, FS_CardinalityType
<1>2. Has(0)
    <2> DEFINE f == [ps \in Small(0) |-> 0]
    <2>1. \A ps \in Small(0) : ps = {}
        <3>1. \A ps \in Small(0) : IsFiniteSet(ps) /\ Cardinality(ps) = 0 BY <1>1
        <3>2. QED BY <3>1, FS_EmptySet
    <2> HIDE DEF Small
    <2>2. f = [ps \in Small(0) |-> IF ps = {} THEN 0 ELSE XlAdd(g, ps, f[XlRest(ps)])]
        BY <2>1
    <2>3. XlSums(g, f, Small(0)) BY <2>2 DEF XlSums
    <2>4. QED BY <2>3
<1>3. ASSUME NEW n \in Nat, Has(n) PROVE Has(n + 1)
    <2>1. PICK f : XlSums(g, f, Small(n)) BY <1>3
    <2> DEFINE h == [ps \in Small(n + 1) |-> IF ps = {} THEN 0 ELSE XlAdd(g, ps, f[XlRest(ps)])]
    <2>2. ASSUME NEW ps \in Small(n + 1), ps # {}
          PROVE  XlRest(ps) \in Small(n) /\ XlRest(ps) \in Small(n + 1)
        <3> DEFINE p == CHOOSE q \in ps : TRUE
        <3>1. p \in ps BY <2>2
        <3> HIDE DEF p
        <3>2. IsFiniteSet(ps) /\ Cardinality(ps) \in Nat /\ Cardinality(ps) <= n + 1 BY <1>1
        <3>3. Cardinality(ps \ {p}) = Cardinality(ps) - 1 BY <3>1, <3>2, FS_RemoveElement
        <3>4. ps \ {p} \in SUBSET Xl!Position OBVIOUS
        <3>5. ps \ {p} \in Small(n) /\ ps \ {p} \in Small(n + 1) BY <3>2, <3>3, <3>4
        <3>6. QED BY <3>5 DEF XlRest, p
    <2> HIDE DEF Small
    <2>3. \A ps \in Small(n) : f[ps] = IF ps = {} THEN 0 ELSE XlAdd(g, ps, f[XlRest(ps)])
        BY <2>1 DEF XlSums
    <2>4. \A ps \in Small(n + 1) : h[ps] = IF ps = {} THEN 0 ELSE XlAdd(g, ps, f[XlRest(ps)])
        OBVIOUS
    <2>5. \A ps \in Small(n + 1) : ps # {} => f[XlRest(ps)] = h[XlRest(ps)]
        BY <2>2, <2>3, <2>4
    <2>6. h = [ps \in Small(n + 1) |-> IF ps = {} THEN 0 ELSE XlAdd(g, ps, h[XlRest(ps)])]
        BY <2>5
    <2>7. XlSums(g, h, Small(n + 1)) BY <2>6 DEF XlSums
    <2>8. QED BY <2>7
<1>4. Lacks = {}
    <2>1. SUFFICES ASSUME Lacks # {} PROVE FALSE OBVIOUS
    <2>2. Lacks \in SUBSET Nat OBVIOUS
    <2> HIDE DEF Has
    <2>3. PICK m \in Lacks : \A n \in Lacks : m <= n BY <2>1, <2>2, LeastElement
    <2>4. m \in Nat /\ ~Has(m) /\ m # 0 BY <1>2
    <2>5. m - 1 \in Nat /\ ~(m <= m - 1) BY <2>4
    <2>6. Has(m - 1) BY <2>3, <2>5
    <2>7. Has((m - 1) + 1) BY <1>3, <2>5, <2>6
    <2>8. (m - 1) + 1 = m BY <2>4
    <2>9. QED BY <2>4, <2>7, <2>8
<1>5. PICK n \in Nat : n = Cardinality(Xl!Position) BY XlPositions, FS_CardinalityType
<1>6. Small(n) = SUBSET Xl!Position
    <2>1. \A ps \in SUBSET Xl!Position : Cardinality(ps) <= n BY <1>5, XlPositions, FS_Subset
    <2>2. QED BY <2>1
<1>7. Has(n) BY <1>4
<1>8. QED BY <1>6, <1>7

\* So the sum of a set of cells is what its recursion says.
XlTotals(g, f) == XlSums(g, f, SUBSET Xl!Position)
XlNumeric(g, S) == S \in SUBSET Xl!Position /\ \A p \in S : Xl!CellAt(g, p)[2] \in Int

LEMMA XlSumIs ==
    ASSUME NEW g
    PROVE  \E f : /\ XlTotals(g, f)
                  /\ \A rg : Xl!Sum(g, rg) = f[Xl!NumbersIn(g, rg)]
<1> DEFINE f == CHOOSE h : XlSums(g, h, SUBSET Xl!Position)
<1>1. XlSums(g, f, SUBSET Xl!Position) BY XlSumExists
<1>2. \A rg : Xl!Sum(g, rg) = f[Xl!NumbersIn(g, rg)]
    BY DEF Xl!Sum, XlSums, XlAdd, XlRest
<1>3. QED BY <1>1, <1>2 DEF XlTotals

\* A sum may begin with any of its cells.
LEMMA XlSumSplits ==
    ASSUME NEW g, NEW f, XlTotals(g, f), NEW S, XlNumeric(g, S)
    PROVE  /\ f[S] \in Int
           /\ \A p \in S : f[S] = Xl!CellAt(g, p)[2] + f[S \ {p}]
<1> USE DEF XlNumeric
<1> DEFINE V(p) == Xl!CellAt(g, p)[2]
           Good(ps) == f[ps] \in Int /\ \A p \in ps : f[ps] = V(p) + f[ps \ {p}]
           Bad == {ps \in SUBSET S : ~Good(ps)}
           Sizes == {Cardinality(ps) : ps \in Bad}
<1>1. \A ps \in SUBSET S : IsFiniteSet(ps) /\ Cardinality(ps) \in Nat
    BY XlPositions, FS_Subset, FS_CardinalityType
<1>2. \A ps \in SUBSET S : f[ps] = IF ps = {} THEN 0 ELSE XlAdd(g, ps, f[XlRest(ps)])
    BY DEF XlTotals, XlSums
<1>3. SUFFICES Bad = {} OBVIOUS
<1>4. SUFFICES ASSUME Bad # {} PROVE FALSE OBVIOUS
<1>5. Sizes \in SUBSET Nat /\ Sizes # {} BY <1>1, <1>4
<1>6. PICK n \in Sizes : \A m \in Sizes : n <= m BY <1>5, LeastElement
<1>7. PICK ps \in Bad : n = Cardinality(ps) BY <1>6
<1>8. ps \in SUBSET S /\ ~Good(ps) OBVIOUS
<1>9. ASSUME NEW p \in ps PROVE Good(ps \ {p}) /\ ps \ {p} \in SUBSET S
    <2>1. Cardinality(ps \ {p}) = n - 1 /\ n \in Nat BY <1>1, <1>7, <1>8, FS_RemoveElement
    <2>2. ps \ {p} \in SUBSET S BY <1>8
    <2>3. ps \ {p} \notin Bad
        <3>1. SUFFICES ASSUME ps \ {p} \in Bad PROVE FALSE OBVIOUS
        <3>2. n - 1 \in Sizes BY <2>1, <3>1
        <3>3. QED BY <1>6, <2>1, <3>2
    <2> HIDE DEF Good
    <2>4. QED BY <2>2, <2>3
<1>10. CASE ps = {} BY <1>2, <1>8, <1>10
<1>11. CASE ps # {}
    <2> DEFINE q == CHOOSE x \in ps : TRUE
    <2>1. q \in ps BY <1>11
    <2>2. f[ps] = V(q) + f[ps \ {q}] BY <1>2, <1>8, <1>11 DEF XlAdd, XlRest
    <2> HIDE DEF q
    <2>3. V(q) \in Int /\ f[ps \ {q}] \in Int BY <1>8, <1>9, <2>1
    <2>4. ASSUME NEW p \in ps PROVE f[ps] = V(p) + f[ps \ {p}]
        <3>1. CASE p = q BY <2>2, <3>1
        <3>2. CASE p # q
            <4> DEFINE rest == (ps \ {q}) \ {p}
            <4>1. rest = (ps \ {p}) \ {q} OBVIOUS
            <4>2. p \in ps \ {q} /\ q \in ps \ {p} BY <2>1, <3>2
            <4>3. f[ps \ {q}] = V(p) + f[rest] BY <1>9, <2>1, <4>2
            <4>4. f[ps \ {p}] = V(q) + f[rest] BY <1>9, <4>1, <4>2
            <4>5. f[rest] \in Int
                <5>1. rest \in SUBSET S /\ rest # ps BY <1>8, <2>1
                <5>2. Cardinality(rest) = n - 2 /\ n \in Nat
                    <6>1. Cardinality(ps \ {q}) = n - 1 /\ IsFiniteSet(ps \ {q}) /\ n \in Nat
                        BY <1>1, <1>7, <1>8, <2>1, FS_RemoveElement
                    <6>2. Cardinality(rest) = Cardinality(ps \ {q}) - 1
                        BY <4>2, <6>1, FS_RemoveElement
                    <6>3. QED BY <6>1, <6>2
                <5>3. rest \notin Bad
                    <6>1. SUFFICES ASSUME rest \in Bad PROVE FALSE OBVIOUS
                    <6> HIDE DEF rest
                    <6>2. n - 2 \in Sizes BY <5>2, <6>1
                    <6> HIDE DEF Sizes, Bad
                    <6>3. n <= n - 2 BY <1>6, <6>2
                    <6>4. QED BY <5>2, <6>3
                <5> HIDE DEF rest
                <5>4. QED BY <5>1, <5>3
            <4>6. V(p) \in Int BY <1>8
            <4> HIDE DEF rest, V
            <4>7. QED BY <2>2, <2>3, <4>3, <4>4, <4>5, <4>6
        <3>3. QED BY <3>1, <3>2
    <2>5. f[ps] \in Int BY <2>2, <2>3
    <2>6. QED BY <1>8, <2>4, <2>5
<1>12. QED BY <1>10, <1>11

\* Two sets of cells with the same values, one for one, have the same sum.
XlMatched(g, h, S, T, m) ==
    /\ S \in SUBSET Xl!Position /\ T \in SUBSET Xl!Position /\ m \in [S -> T]
    /\ \A p, q \in S : m[p] = m[q] => p = q
    /\ \A q \in T : \E p \in S : m[p] = q
    /\ \A p \in S : /\ Xl!CellAt(g, p)[2] \in Int
                   /\ Xl!CellAt(g, p)[2] = Xl!CellAt(h, m[p])[2]

LEMMA XlSumsMatch ==
    ASSUME NEW g, NEW f, XlTotals(g, f), NEW h, NEW e, XlTotals(h, e),
           NEW S, NEW T, NEW m, XlMatched(g, h, S, T, m)
    PROVE  f[S] = e[T]
<1> USE DEF XlMatched
<1> DEFINE img(ps) == {m[p] : p \in ps}
           Same(ps) == f[ps] = e[img(ps)]
           Bad == {ps \in SUBSET S : ~Same(ps)}
           Sizes == {Cardinality(ps) : ps \in Bad}
<1>1. \A ps \in SUBSET S : IsFiniteSet(ps) /\ Cardinality(ps) \in Nat
    BY XlPositions, FS_Subset, FS_CardinalityType
<1>2. img(S) = T OBVIOUS
<1>3. SUFFICES ASSUME Bad # {} PROVE FALSE BY <1>2
<1> HIDE DEF Same
<1>4. Sizes \in SUBSET Nat /\ Sizes # {} BY <1>1, <1>3
<1>5. PICK n \in Sizes : \A i \in Sizes : n <= i BY <1>4, LeastElement
<1>6. PICK ps \in Bad : n = Cardinality(ps) BY <1>5
<1>7. ps \in SUBSET S /\ ~Same(ps) BY <1>6
<1>8. CASE ps = {}
    <2>1. img(ps) = {} BY <1>8
    <2>2. f[{}] = 0 /\ e[{}] = 0 BY DEF XlTotals, XlSums
    <2>3. QED BY <1>7, <1>8, <2>1, <2>2 DEF Same
<1>9. CASE ps # {}
    <2>1. PICK p \in ps : TRUE BY <1>9
    <2>2. Cardinality(ps \ {p}) = n - 1 /\ n \in Nat BY <1>1, <1>6, <1>7, <2>1, FS_RemoveElement
    <2>3. Same(ps \ {p})
        <3>1. ps \ {p} \in SUBSET S BY <1>7
        <3>2. SUFFICES ASSUME ~Same(ps \ {p}) PROVE FALSE OBVIOUS
        <3>3. n - 1 \in Sizes BY <2>2, <3>1, <3>2
        <3> HIDE DEF Sizes, Bad
        <3>4. n <= n - 1 BY <1>5, <3>3
        <3>5. QED BY <2>2, <3>4
    <2>4. img(ps \ {p}) = img(ps) \ {m[p]}
        <3>1. \A q \in ps : m[q] = m[p] => q = p BY <1>7, <2>1
        <3>2. QED BY <2>1, <3>1
    <2>5. m[p] \in img(ps) BY <2>1
    <2>6. XlNumeric(h, img(ps))
        <3>1. \A q \in ps : m[q] \in T /\ Xl!CellAt(h, m[q])[2] \in Int BY <1>7
        <3>2. QED BY <3>1 DEF XlNumeric
    <2>7. XlNumeric(g, ps) BY <1>7 DEF XlNumeric
    <2>8. Xl!CellAt(g, p)[2] = Xl!CellAt(h, m[p])[2] BY <1>7, <2>1
    <2>9. f[ps \ {p}] = e[img(ps) \ {m[p]}] BY <2>3, <2>4 DEF Same
    <2> DEFINE I == img(ps)
               x == m[p]
    <2>10. XlNumeric(h, I) /\ x \in I BY <2>5, <2>6
    <2> HIDE DEF I, x, XlMatched
    <2>11. f[ps] = Xl!CellAt(g, p)[2] + f[ps \ {p}] BY <2>1, <2>7, XlSumSplits
    <2>12. e[I] = Xl!CellAt(h, x)[2] + e[I \ {x}] BY <2>10, XlSumSplits
    <2>13. f[ps] = e[I] BY <2>8, <2>9, <2>11, <2>12 DEF I, x
    <2>14. QED BY <1>7, <2>13 DEF Same, I
<1>10. QED BY <1>8, <1>9

\* A column without blanks keeps its sum, and its average.
LEMMA XlSameAverage ==
    ASSUME NEW g \in Xl!Sheet, NEW new, NEW from, XlLays(g, new, from), NEW c \in Xl!Col,
           Xl!Solid(g, c)
    PROVE  Xl!Average(new, Xl!Column(c)) = Xl!Average(g, Xl!Column(c))
<1> DEFINE D == Xl!Data(g)
           rg == Xl!Column(c)
           S == Xl!NumbersIn(new, rg)
           T == Xl!NumbersIn(g, rg)
           to(r) == IF r \in D THEN from[r] ELSE r
           m == [p \in S |-> <<to(p[1]), c>>]
<1>1. \A r \in Xl!Row : to(r) \in Xl!Row /\ new[r][c] = g[to(r)][c]
    <2>1. /\ \A k \in D : /\ from[k] \in D /\ from[k] \in Xl!Row
                          /\ g[from[k]][c] # None => new[k][c] = g[from[k]][c]
          /\ \A r \in Xl!Row : r \notin D => new[r] = g[r]
        BY XlLaidCells
    <2>2. \A r \in D : g[r][c] # None BY DEF Xl!Solid
    <2>3. QED BY <2>1, <2>2
<1>2. \A r, s \in Xl!Row : to(r) = to(s) => r = s
    BY DEF XlLays
<1>3. \A r \in Xl!Row : \E k \in Xl!Row : to(k) = r
    <2>1. D \subseteq Xl!Row BY XlData
    <2>2. QED BY <2>1 DEF XlLays
<1> HIDE DEF to
<1>4. \A h : \A p : p \in Xl!NumbersIn(h, rg) <=>
          \E r \in Xl!Row : p = <<r, c>> /\ h[r][c] # None /\ h[r][c][1] = "number"
    <2>1. ASSUME NEW h, NEW p \in Xl!NumbersIn(h, rg)
          PROVE  \E r \in Xl!Row : p = <<r, c>> /\ h[r][c] # None /\ h[r][c][1] = "number"
        <3>1. p \in Xl!Cells(rg) /\ Xl!CellAt(h, p) # None /\ Xl!CellAt(h, p)[1] = "number"
            BY DEF Xl!NumbersIn
        <3>2. p[1] \in Xl!Row /\ p = <<p[1], c>> /\ Xl!CellAt(h, p) = h[p[1]][c]
            BY <3>1, XlColumn
        <3>3. QED BY <3>1, <3>2
    <2>2. ASSUME NEW h, NEW r \in Xl!Row, h[r][c] # None, h[r][c][1] = "number"
          PROVE  <<r, c>> \in Xl!NumbersIn(h, rg)
        <3>1. <<r, c>> \in Xl!Cells(rg) /\ Xl!CellAt(h, <<r, c>>) = h[r][c] BY XlColumn
        <3>2. QED BY <2>2, <3>1 DEF Xl!NumbersIn
    <2>3. QED BY <2>1, <2>2
<1>5. S \in SUBSET Xl!Position /\ T \in SUBSET Xl!Position
    BY DEF Xl!NumbersIn, Xl!Cells
<1>6. \A h, r : Xl!CellAt(h, <<r, c>>) = h[r][c] BY DEF Xl!CellAt
<1> HIDE DEF S, T, rg
<1>7. ASSUME NEW p \in S
      PROVE  \E r \in Xl!Row : /\ p = <<r, c>> /\ m[p] = <<to(r), c>> /\ m[p] \in T
                               /\ Xl!CellAt(new, p) = Xl!CellAt(g, m[p])
                               /\ Xl!CellAt(new, p)[2] \in Int
    <2>1. PICK r \in Xl!Row : p = <<r, c>> /\ new[r][c] # None /\ new[r][c][1] = "number"
        BY <1>4 DEF S
    <2>2. m[p] = <<to(r), c>> BY <2>1
    <2>3. to(r) \in Xl!Row /\ new[r][c] = g[to(r)][c] BY <1>1
    <2> HIDE DEF m
    <2>4. m[p] \in T BY <1>4, <2>1, <2>2, <2>3 DEF T
    <2>5. Xl!CellAt(new, p) = new[r][c] /\ Xl!CellAt(g, m[p]) = g[to(r)][c]
        BY <1>6, <2>1, <2>2
    <2>6. new[r][c] \in Xl!Value
        <3>1. new[r][c] \in Xl!Cell BY DEF XlLays, Xl!Sheet
        <3>2. QED BY <2>1, <3>1 DEF Xl!Cell
    <2>7. new[r][c][2] \in Int BY <2>6, XlValues
    <2>8. QED BY <2>1, <2>2, <2>3, <2>4, <2>5, <2>7
<1>8. DOMAIN m = S OBVIOUS
<1>9. m \in [S -> T]
    <2>1. \A p \in S : m[p] \in T
        <3> HIDE DEF m
        <3>1. QED BY <1>7
    <2>2. QED BY <2>1
<1> HIDE DEF m
<1>10. \A p, q \in S : m[p] = m[q] => p = q
    <2>1. ASSUME NEW p \in S, NEW q \in S, m[p] = m[q] PROVE p = q
        <3>1. PICK r \in Xl!Row : p = <<r, c>> /\ m[p] = <<to(r), c>> BY <1>7
        <3>2. PICK s \in Xl!Row : q = <<s, c>> /\ m[q] = <<to(s), c>> BY <1>7
        <3>3. to(r) = to(s) BY <2>1, <3>1, <3>2
        <3>4. QED BY <1>2, <3>1, <3>2, <3>3
    <2>2. QED BY <2>1
<1>11. ASSUME NEW q \in T PROVE \E p \in S : m[p] = q
    <2>1. PICK s \in Xl!Row : q = <<s, c>> /\ g[s][c] # None /\ g[s][c][1] = "number"
        BY <1>4 DEF T
    <2>2. PICK r \in Xl!Row : to(r) = s BY <1>3
    <2>3. new[r][c] = g[s][c] BY <1>1, <2>2
    <2>4. <<r, c>> \in S BY <1>4, <2>1, <2>3 DEF S
    <2>5. PICK k \in Xl!Row : <<r, c>> = <<k, c>> /\ m[<<r, c>>] = <<to(k), c>> BY <1>7, <2>4
    <2>6. QED BY <2>1, <2>2, <2>4, <2>5
<1>12. \A p \in S : /\ Xl!CellAt(new, p)[2] \in Int
                    /\ Xl!CellAt(new, p)[2] = Xl!CellAt(g, m[p])[2]
    BY <1>7
<1>13. PICK f : /\ XlTotals(new, f)
                /\ \A x : Xl!Sum(new, x) = f[Xl!NumbersIn(new, x)]
    BY XlSumIs
<1>14. PICK e : /\ XlTotals(g, e)
                /\ \A x : Xl!Sum(g, x) = e[Xl!NumbersIn(g, x)]
    BY XlSumIs
<1>15. f[S] = e[T]
    <2>1. XlMatched(new, g, S, T, m) BY <1>5, <1>9, <1>10, <1>11, <1>12 DEF XlMatched
    <2>2. XlTotals(new, f) /\ XlTotals(g, e) BY <1>13, <1>14
    <2> HIDE DEF S, T
    <2>3. QED BY ONLY <2>1, <2>2, XlSumsMatch
<1>16. Cardinality(S) = Cardinality(T)
    <2>1. m \in Bijection(S, T)
        BY <1>9, <1>10, <1>11 DEF Bijection, Injection, Surjection, IsInjective
    <2>2. ExistsBijection(S, T) BY <2>1 DEF ExistsBijection
    <2>3. IsFiniteSet(S) BY <1>5, XlPositions, FS_Subset
    <2>4. QED BY <2>2, <2>3, FS_Bijection
<1>17. /\ Xl!Average(new, rg) = [total |-> f[S], over |-> Xl!Cardinality(S)]
       /\ Xl!Average(g, rg) = [total |-> e[T], over |-> Xl!Cardinality(T)]
    BY <1>13, <1>14 DEF Xl!Average, S, T
<1>18. QED BY <1>15, <1>16, <1>17, XlCardinality DEF rg

\* What Xl!ReadsSurviveSort says of a sheet and what a sort has made of it.
XlReads(old, new) ==
    /\ old[1] # Xl!Empty => /\ Xl!Snapshot(new).range = Xl!Snapshot(old).range
                            /\ Xl!Snapshot(new).headers = Xl!Snapshot(old).headers
    /\ \A c \in Xl!Col :
         /\ Xl!Largest(new, Xl!Column(c)) = Xl!Largest(old, Xl!Column(c))
         /\ Xl!Smallest(new, Xl!Column(c)) = Xl!Smallest(old, Xl!Column(c))
         /\ Xl!Count(new, Xl!Column(c)) >= Xl!Count(old, Xl!Column(c))
         /\ Xl!Solid(old, c) => Xl!Average(new, Xl!Column(c)) = Xl!Average(old, Xl!Column(c))
         /\ \A t \in Texts : Xl!Find(new, t, {c}) = {} <=> Xl!Find(old, t, {c}) = {}
         /\ \A w \in Xl!Value, op \in Xl!Tests \ {"!=", "empty"} :
              LET was == Xl!Filter(old, c, op, w)
                  is == Xl!Filter(new, c, op, w)
              IN IF was = XlFail THEN is = XlFail
                 ELSE is # XlFail /\ Xl!Cardinality(is) >= Xl!Cardinality(was)

\* A sort makes a sheet, keeps its values, and what is read of it survives.
LEMMA XlSorts ==
    ASSUME NEW g \in Xl!Sheet, NEW col \in Xl!Col, NEW desc \in BOOLEAN,
           Xl!Sort(g, col, desc) # XlFail
    PROVE  /\ Xl!Sort(g, col, desc) \in Xl!Sheet
           /\ XlKeepsValues(g, Xl!Sort(g, col, desc), col, desc)
           /\ XlReads(g, Xl!Sort(g, col, desc))
<1> DEFINE new == Xl!Sort(g, col, desc)
<1>1. PICK from : /\ XlLays(g, new, from)
                  /\ \A k, l \in Xl!Data(g) : k < l => XlBefore(g, col, desc, from[k], from[l])
    BY XlSorted
<1> HIDE DEF new
<1>2. new \in Xl!Sheet BY <1>1 DEF XlLays
<1>3. XlKeepsValues(g, new, col, desc) BY <1>1, XlSortKeeps
<1>4. g[1] # Xl!Empty => /\ Xl!Snapshot(new).range = Xl!Snapshot(g).range
                         /\ Xl!Snapshot(new).headers = Xl!Snapshot(g).headers
    BY <1>1, XlSameSnapshot
<1>5. \A c \in Xl!Col :
        /\ Xl!Largest(new, Xl!Column(c)) = Xl!Largest(g, Xl!Column(c))
        /\ Xl!Smallest(new, Xl!Column(c)) = Xl!Smallest(g, Xl!Column(c))
        /\ Xl!Count(new, Xl!Column(c)) >= Xl!Count(g, Xl!Column(c))
    BY <1>1, XlSameExtremes
<1>6. \A c \in Xl!Col :
        Xl!Solid(g, c) => Xl!Average(new, Xl!Column(c)) = Xl!Average(g, Xl!Column(c))
    BY <1>1, XlSameAverage
<1>7. \A c \in Xl!Col :
        /\ \A t \in Texts : Xl!Find(new, t, {c}) = {} <=> Xl!Find(g, t, {c}) = {}
        /\ \A w \in Xl!Value, op \in Xl!Tests \ {"!=", "empty"} :
             LET was == Xl!Filter(g, c, op, w)
                 is == Xl!Filter(new, c, op, w)
             IN IF was = XlFail THEN is = XlFail
                ELSE is # XlFail /\ Xl!Cardinality(is) >= Xl!Cardinality(was)
    BY <1>1, XlSameMatches
<1>8. XlReads(g, new) BY <1>4, <1>5, <1>6, <1>7 DEF XlReads
<1>9. QED BY <1>2, <1>3, <1>8 DEF new

-----------------------------------------------------------------------------
(* The session: what is loaded, edited and saved.                         *)

\* What an edit that does not fail makes of a sheet is a sheet.
LEMMA XlEdited ==
    ASSUME NEW g \in Xl!Sheet, NEW e \in Xl!Edits, Xl!Edited(g, e) # XlFail
    PROVE  Xl!Edited(g, e) \in Xl!Sheet
<1>0. /\ MaxRow \in Nat \ {0} /\ MaxCol \in Nat /\ Xl!Row = 1..MaxRow /\ Xl!Col = 1..MaxCol
    BY XlAssumption DEF Xl!Row, Xl!Col
<1>1. /\ \A r \in Xl!Row : g[r] \in [Xl!Col -> Xl!Cell]
      /\ \A r \in Xl!Row, c \in Xl!Col : g[r][c] \in Xl!Cell
    BY DEF Xl!Sheet
<1>2. None \in Xl!Cell /\ Xl!Empty \in [Xl!Col -> Xl!Cell] BY DEF Xl!Cell, Xl!Empty
<1>3. \A t \in Texts : <<"text", t>> \in Xl!Cell BY DEF Xl!Cell, Xl!Value
<1>4. CASE e \in [do : {"set"}, cell : Xl!Position, v : Xl!Cell]
    <2>1. Xl!Edited(g, e) = Xl!SetCell(g, e.cell, e.v) BY <1>4 DEF Xl!Edited
    <2>2. QED BY <1>1, <1>4, <2>1 DEF Xl!SetCell, Xl!Put, Xl!Sheet
<1>5. CASE e \in [do : {"block"}, cell : Xl!Position, block : Seq(Seq(Xl!Cell))]
    <2> DEFINE p == e.cell
               b == e.block
               ps == {q \in Xl!Position : /\ q[1] - p[1] \in 0..(Len(b) - 1) /\ q[1] >= p[1]
                             /\ q[2] - p[2] \in 0..(Len(b[q[1] - p[1] + 1]) - 1)
                             /\ q[2] >= p[2]}
    <2>1. Xl!Edited(g, e) = Xl!SetBlock(g, p, b) BY <1>5 DEF Xl!Edited
    <2>2. p \in Xl!Position /\ b \in Seq(Seq(Xl!Cell)) BY <1>5
    <2>3. p[1] \in Nat /\ p[2] \in Nat BY <1>0, <2>2 DEF Xl!Position
    <2> HIDE DEF p, b
    <2>4. ASSUME NEW q \in ps PROVE b[q[1] - p[1] + 1][q[2] - p[2] + 1] \in Xl!Cell
        <3>1. q[1] \in Nat /\ q[2] \in Nat BY <1>0 DEF Xl!Position
        <3>2. q[1] - p[1] + 1 \in 1..Len(b)
            <4>1. q[1] - p[1] \in 0..(Len(b) - 1) /\ Len(b) \in Nat BY <2>2
            <4>2. QED BY <2>3, <3>1, <4>1
        <3> DEFINE row == b[q[1] - p[1] + 1]
        <3>3. row \in Seq(Xl!Cell) BY <2>2, <3>2
        <3>4. q[2] - p[2] \in 0..(Len(row) - 1) OBVIOUS
        <3> HIDE DEF row, ps
        <3>5. q[2] - p[2] + 1 \in 1..Len(row) BY <2>3, <3>1, <3>3, <3>4
        <3>6. row[q[2] - p[2] + 1] \in Xl!Cell BY <3>3, <3>5
        <3>7. QED BY <3>6 DEF row
    <2>5. Xl!SetBlock(g, p, b) = [r \in Xl!Row |-> [c \in Xl!Col |->
              IF <<r, c>> \in ps THEN Xl!Laid(b[r - p[1] + 1][c - p[2] + 1], g[r][c]) ELSE g[r][c]]]
        BY DEF Xl!SetBlock, Xl!Put, Xl!CellAt
    <2>6. \A r \in Xl!Row, c \in Xl!Col : <<r, c>> \in ps => b[r - p[1] + 1][c - p[2] + 1] \in Xl!Cell
        <3>1. ASSUME NEW r \in Xl!Row, NEW c \in Xl!Col, <<r, c>> \in ps
              PROVE  b[r - p[1] + 1][c - p[2] + 1] \in Xl!Cell
            <4> DEFINE q == <<r, c>>
            <4>1. q \in ps /\ q[1] = r /\ q[2] = c BY <3>1
            <4> HIDE DEF q, ps
            <4>2. QED BY <2>4, <4>1
        <3>2. QED BY <3>1
    <2> HIDE DEF ps
    <2>7. QED BY <1>1, <2>1, <2>5, <2>6 DEF Xl!Sheet, Xl!Laid
<1>6. CASE e \in [do : {"fill"}, range : Xl!Range, v : Xl!Value]
    <2>1. Xl!Edited(g, e) = Xl!Fill(g, e.range, e.v) BY <1>6 DEF Xl!Edited
    <2>2. e.v \in Xl!Cell BY <1>6 DEF Xl!Cell
    <2>3. QED BY <1>1, <2>1, <2>2 DEF Xl!Fill, Xl!Put, Xl!Sheet
<1>7. CASE e \in [do : {"clear", "merge"}, range : Xl!Range]
    <2>1. \/ Xl!Edited(g, e) = Xl!Clear(g, e.range)
          \/ Xl!Edited(g, e) = Xl!Merge(g, e.range)
        BY <1>7 DEF Xl!Edited
    <2>2. QED BY <1>1, <1>2, <2>1 DEF Xl!Clear, Xl!Fill, Xl!Merge, Xl!Put, Xl!Sheet
<1>8. CASE e \in [do : {"insert rows", "insert cols", "delete rows", "delete cols"},
                  index : Nat \ {0}, count : Nat]
    <2> DEFINE at == e.index
               n == e.count
    <2>1. at \in Nat \ {0} /\ n \in Nat BY <1>8
    <2>2. \/ Xl!Edited(g, e) = Xl!InsertRows(g, at, n) \/ Xl!Edited(g, e) = Xl!InsertCols(g, at, n)
          \/ Xl!Edited(g, e) = Xl!DeleteRows(g, at, n) \/ Xl!Edited(g, e) = Xl!DeleteCols(g, at, n)
        BY <1>8 DEF Xl!Edited
    <2> HIDE DEF at, n
    <2>3. \A r \in Xl!Row : ~(r < at) /\ ~(r < at + n) => r - n \in Xl!Row BY <1>0, <2>1
    <2>4. \A c \in Xl!Col : ~(c < at) /\ ~(c < at + n) => c - n \in Xl!Col BY <1>0, <2>1
    <2>5. Xl!InsertRows(g, at, n) \in Xl!Sheet
        BY <1>1, <1>2, <2>3 DEF Xl!InsertRows, Xl!Sheet
    <2>6. Xl!DeleteRows(g, at, n) \in Xl!Sheet BY <1>1, <1>2 DEF Xl!DeleteRows, Xl!Sheet
    <2>7. Xl!InsertCols(g, at, n) \in Xl!Sheet
        BY <1>1, <1>2, <2>4 DEF Xl!InsertCols, Xl!Sheet
    <2>8. Xl!DeleteCols(g, at, n) \in Xl!Sheet BY <1>1, <1>2 DEF Xl!DeleteCols, Xl!Sheet
    <2>9. QED BY <2>2, <2>5, <2>6, <2>7, <2>8
<1>9. CASE e \in [do : {"replace"}, old : Texts, new : Texts]
    <2>1. Xl!Edited(g, e) = Xl!Replace(g, e.old, e.new) BY <1>9 DEF Xl!Edited
    <2>2. QED BY <1>1, <1>3, <1>9, <2>1 DEF Xl!Replace, Xl!Put, Xl!Sheet
<1>10. CASE e \in [do : {"sort"}, col : Xl!Col, desc : BOOLEAN]
    <2>1. Xl!Edited(g, e) = Xl!Sort(g, e.col, e.desc) BY <1>10 DEF Xl!Edited
    <2>2. QED BY <1>10, <2>1, XlSorts
<1>11. CASE e \in [do : {"format"}]
    <2>1. Xl!Edited(g, e) = g BY <1>11 DEF Xl!Edited
    <2>2. QED BY <2>1
<1>12. QED BY <1>4, <1>5, <1>6, <1>7, <1>8, <1>9, <1>10, <1>11 DEF Xl!Edits

\* A workbook in a file has an active sheet.
XlBooks == Xl!Loadable

\* What is made of the sheets of a workbook is a workbook.
LEMMA XlSheetMade ==
    ASSUME NEW b \in XlBooks, NEW e \in Xl!SheetChanges, NEW m \in Xl!SheetMade(b, e)
    PROVE  m \in Xl!Workbook
<1>1. /\ b \in Xl!Workbook /\ b.sheets \in [Name -> Xl!Sheet \cup {None}] /\ b.active \in Name
    BY DEF XlBooks, Xl!Loadable, Xl!Workbook, Xl!Names
<1>2. /\ e.name \in Name /\ e.to \in Name
      /\ e.do \in {"new", "rename", "copy", "delete", "switch"}
    BY DEF Xl!SheetChanges
<1>3. Xl!Names(b) \subseteq Name /\ \A n \in Name : Xl!Free(b, n) \subseteq Name
    BY DEF Xl!Names, Xl!Free
<1>4. Xl!Blank \in Xl!Sheet BY DEF Xl!Blank, Xl!Sheet, Xl!Empty, Xl!Cell
<1>5. ASSUME NEW n \in Name, NEW g \in Xl!Sheet \cup {None}
      PROVE  [b.sheets EXCEPT ![n] = g] \in [Name -> Xl!Sheet \cup {None}]
    BY <1>1
<1>6. CASE e.do = "new"
    <2>1. PICK n \in Xl!Free(b, e.name) :
              m = [sheets |-> [b.sheets EXCEPT ![n] = Xl!Blank], active |-> e.name]
        BY <1>6 DEF Xl!SheetMade
    <2>2. QED BY <1>2, <1>3, <1>4, <1>5, <2>1 DEF Xl!Workbook
<1>7. CASE e.do = "rename" /\ e.name \in Xl!Names(b)
    <2>1. m = b \/ \E n \in Xl!Free(b, e.to) : m = Xl!Renamed(b, e.name, n)
        BY <1>7 DEF Xl!SheetMade
    <2>2. ASSUME NEW n \in Name PROVE Xl!Renamed(b, e.name, n) \in Xl!Workbook
        BY <1>1, <1>2 DEF Xl!Renamed, Xl!Workbook
    <2>3. QED BY <1>1, <1>2, <1>3, <2>1, <2>2
<1>8. CASE e.do = "copy" /\ e.name \in Xl!Names(b)
    <2>1. PICK n \in Xl!Free(b, e.to) : m = [b EXCEPT !.sheets[n] = b.sheets[e.name]]
        BY <1>8 DEF Xl!SheetMade
    <2>2. n \in Name /\ b.sheets[e.name] \in Xl!Sheet \cup {None} BY <1>1, <1>2, <1>3
    <2>3. QED BY <1>1, <2>1, <2>2 DEF Xl!Workbook
<1>9. CASE e.do = "delete" /\ e.name \in Xl!Names(b)
    <2>1. PICK n \in (Xl!Names(b) \ {e.name}) \cup {None} :
              m = [sheets |-> [b.sheets EXCEPT ![e.name] = None], active |-> n]
        BY <1>9 DEF Xl!SheetMade
    <2>2. n \in Name \cup {None} BY <1>3
    <2>3. QED BY <1>2, <1>5, <2>1, <2>2 DEF Xl!Workbook
<1>10. CASE e.do = "switch" /\ e.name \in Xl!Names(b)
    <2>1. m = [b EXCEPT !.active = e.name] BY <1>10 DEF Xl!SheetMade
    <2>2. QED BY <1>1, <1>2, <2>1 DEF Xl!Workbook
<1>11. CASE e.do # "new" /\ e.name \notin Xl!Names(b) BY <1>11 DEF Xl!SheetMade
<1>12. QED BY <1>2, <1>6, <1>7, <1>8, <1>9, <1>10, <1>11

\* The commands of agent-excel; what they have loaded has an active sheet.
XlProcess == [at : {"loaded", "acted", "saving", "writing", "noting"}, cmd : Xl!Commands,
              path : Path \cup {None}, book : Xl!Workbook \cup {None}, was : XlBooks \cup {None},
              modified : BOOLEAN]

XlTyped ==
    /\ xlDisk \in [Path -> XlBooks \cup {None, Broken}]
    /\ xlState \in [path : Path \cup {None}, modified : BOOLEAN]
    /\ xlProc \in [Proc -> XlProcess \cup {Xl!Idle}]

\* What a command has in memory: who has a workbook knows its path; what was loaded is as
\* it was; an edit made of the active sheet what its operator says; and who writes has
\* what it writes.
XlHolds(r) ==
    /\ r.book # None => r.path # None
    /\ r.at = "loaded" => r.book = r.was
    /\ (r.at = "acted" /\ r.cmd.op = "edit") =>
          LET g == Xl!Edited(Xl!Active(r.was), r.cmd.e) IN
          /\ r.was # None /\ g # XlFail
          /\ r.book = [r.was EXCEPT !.sheets[r.was.active] = g]
    /\ r.at = "saving" => r.cmd.op = "save" /\ r.book \in XlBooks /\ r.path # None

XlInv == XlTyped /\ \A p \in Proc : xlProc[p] \in XlProcess => XlHolds(xlProc[p])

\* The active sheet of a workbook.
LEMMA XlActive ==
    ASSUME NEW b \in XlBooks
    PROVE  /\ Xl!Active(b) \in Xl!Sheet /\ b \in Xl!Workbook /\ b.active \in Name
           /\ b # None /\ b # Broken
           /\ \A g \in Xl!Sheet : LET m == [b EXCEPT !.sheets[b.active] = g] IN
                m \in XlBooks /\ Xl!Active(m) = g
<1>1. /\ b \in Xl!Workbook /\ b.sheets \in [Name -> Xl!Sheet \cup {None}] /\ b.active \in Name
      /\ b.sheets[b.active] # None
    BY DEF XlBooks, Xl!Loadable, Xl!Workbook, Xl!Names
<1>2. Xl!Active(b) \in Xl!Sheet BY <1>1 DEF Xl!Active
<1>3. b # None /\ b # Broken BY <1>1, XlAssumption
<1>4. ASSUME NEW g \in Xl!Sheet
      PROVE  LET m == [b EXCEPT !.sheets[b.active] = g] IN m \in XlBooks /\ Xl!Active(m) = g
    <2>1. g # None BY XlAssumption
    <2> DEFINE m == [b EXCEPT !.sheets[b.active] = g]
    <2>2. m \in Xl!Workbook /\ m.active = b.active /\ m.sheets[b.active] = g
        BY <1>1 DEF Xl!Workbook
    <2> HIDE DEF m
    <2>3. m \in XlBooks BY <1>1, <2>1, <2>2 DEF XlBooks, Xl!Loadable, Xl!Names
    <2>4. QED BY <2>2, <2>3 DEF Xl!Active, m
<1>5. QED BY <1>1, <1>2, <1>3, <1>4

\* A new workbook.
LEMMA XlNew == Xl!NewBook \in XlBooks
<1>1. Xl!Blank \in Xl!Sheet BY DEF Xl!Blank, Xl!Sheet, Xl!Empty, Xl!Cell
<1>2. Xl!Blank # None /\ First \in Name BY <1>1, XlAssumption
<1> DEFINE f == [n \in Name |-> IF n = First THEN Xl!Blank ELSE None]
<1>3. f \in [Name -> Xl!Sheet \cup {None}] /\ f[First] = Xl!Blank BY <1>1, <1>2
<1>4. Xl!NewBook = [sheets |-> f, active |-> First] BY DEF Xl!NewBook
<1> HIDE DEF f
<1>5. QED BY <1>2, <1>3, <1>4 DEF XlBooks, Xl!Loadable, Xl!Workbook, Xl!Names

\* A workbook is neither missing nor broken.
LEMMA XlSound ==
    ASSUME NEW b \in XlBooks
    PROVE  b \in Xl!Workbook /\ b # None /\ b # Broken
BY XlAssumption DEF XlBooks, Xl!Loadable

\* Commands.
LEMMA XlCommands ==
    ASSUME NEW c \in Xl!Commands
    PROVE  /\ c.op \in {"open", "new"} => c.path \in Path
           /\ c.op = "save" => c.path \in Path \cup {None}
           /\ c.op = "edit" => c.e \in Xl!Edits
           /\ c.op = "sheet" => c.e \in Xl!SheetChanges
BY DEF Xl!Commands

\* Who is not idle has a command.
LEMMA XlBusy ==
    ASSUME XlTyped, NEW p \in Proc, xlProc[p].at # "idle"
    PROVE  xlProc[p] \in XlProcess
BY DEF XlTyped, Xl!Idle

\* A step of one command that leaves it as it may be.
LEMMA XlBecomes ==
    ASSUME XlInv, NEW p \in Proc, NEW r, Xl!Becomes(p, r),
           r = Xl!Idle \/ (r \in XlProcess /\ XlHolds(r))
    PROVE  /\ xlProc' \in [Proc -> XlProcess \cup {Xl!Idle}]
           /\ \A q \in Proc : xlProc'[q] \in XlProcess => XlHolds(xlProc'[q])
<1>1. xlProc' = [xlProc EXCEPT ![p] = r] BY DEF Xl!Becomes
<1>2. Xl!Idle \notin XlProcess BY DEF Xl!Idle, XlProcess
<1>3. QED BY <1>1, <1>2 DEF XlInv, XlTyped

LEMMA XlFinish ==
    ASSUME XlInv, NEW p \in Proc, Xl!Finish(p)
    PROVE  /\ xlProc' \in [Proc -> XlProcess \cup {Xl!Idle}]
           /\ \A q \in Proc : xlProc'[q] \in XlProcess => XlHolds(xlProc'[q])
BY XlBecomes DEF Xl!Finish

\* A step that leaves the files alone.
LEMMA XlKeeps ==
    ASSUME XlInv, UNCHANGED <<xlDisk, xlState>>,
           xlProc' \in [Proc -> XlProcess \cup {Xl!Idle}],
           \A q \in Proc : xlProc'[q] \in XlProcess => XlHolds(xlProc'[q])
    PROVE  XlInv'
BY DEF XlInv, XlTyped

\* A record of a busy command.
LEMMA XlRecord ==
    ASSUME NEW r \in XlProcess
    PROVE  /\ r.at \in {"loaded", "acted", "saving", "writing", "noting"}
           /\ r.cmd \in Xl!Commands /\ r.path \in Path \cup {None}
           /\ r.book \in Xl!Workbook \cup {None} /\ r.was \in XlBooks \cup {None}
           /\ r.modified \in BOOLEAN
           /\ DOMAIN r = {"at", "cmd", "path", "book", "was", "modified"}
BY DEF XlProcess

LEMMA XlInvInit ==
    ASSUME Xl!Init
    PROVE  XlInv
<1>1. PICK f \in [Kept -> XlGiven] :
          xlDisk = [x \in Path |-> IF x \in Kept THEN f[x] ELSE None]
    BY DEF Xl!Init
<1>2. \A x \in Kept : f[x] \in XlBooks BY <1>1, XlAssumption DEF XlBooks
<1>3. xlDisk \in [Path -> XlBooks \cup {None, Broken}] BY <1>1, <1>2
<1>4. xlState \in [path : Path \cup {None}, modified : BOOLEAN]
    <2>1. \/ \E x \in Path : xlState = [path |-> x, modified |-> FALSE]
          \/ xlState = [path |-> None, modified |-> FALSE]
        BY DEF Xl!Init, Xl!Closed
    <2>2. \A x \in Path \cup {None} :
              [path |-> x, modified |-> FALSE] \in [path : Path \cup {None}, modified : BOOLEAN]
        OBVIOUS
    <2>3. QED BY <2>1, <2>2
<1>5. xlProc = [p \in Proc |-> Xl!Idle] BY DEF Xl!Init
<1>6. Xl!Idle \notin XlProcess BY DEF Xl!Idle, XlProcess
<1>7. QED BY <1>3, <1>4, <1>5, <1>6 DEF XlInv, XlTyped

LEMMA XlLoad ==
    ASSUME XlInv, NEW p \in Proc, NEW c \in XlAsked[p], Xl!Load(p, c)
    PROVE  XlInv'
<1> DEFINE x == xlState.path
           ok == x # None /\ xlDisk[x] \notin {None, Broken}
           r == [at |-> "loaded", cmd |-> c, path |-> IF ok THEN x ELSE None,
                 book |-> IF ok THEN xlDisk[x] ELSE None,
                 was |-> IF ok THEN xlDisk[x] ELSE None,
                 modified |-> ok /\ xlState.modified]
<1>1. Xl!Becomes(p, r) /\ UNCHANGED <<xlDisk, xlState>> BY DEF Xl!Load
<1>2. x \in Path \cup {None} /\ xlState.modified \in BOOLEAN BY DEF XlInv, XlTyped
<1>3. ok => x \in Path /\ xlDisk[x] \in XlBooks BY <1>2 DEF XlInv, XlTyped
<1>4. c \in Xl!Commands BY XlAssumption
<1> HIDE DEF ok, x
<1>5. r \in XlProcess BY <1>2, <1>3, <1>4, XlSound DEF XlProcess
<1>6. XlHolds(r) BY <1>3, XlAssumption DEF XlHolds
<1> HIDE DEF r
<1>7. QED BY <1>1, <1>5, <1>6, XlBecomes, XlKeeps

LEMMA XlOpens ==
    ASSUME XlInv, NEW p \in Proc, Xl!Open(p) \/ Xl!New(p)
    PROVE  XlInv'
<1> DEFINE c == xlProc[p].cmd
           x == c.path
<1>1. xlProc[p] \in XlProcess BY XlBusy DEF XlInv, Xl!Open, Xl!New, Xl!At
<1>2. UNCHANGED <<xlDisk, xlState>> /\ c.op \in {"open", "new"}
    BY DEF Xl!Open, Xl!New, Xl!Cmd
<1>3. c \in Xl!Commands /\ x \in Path /\ x # None BY <1>1, <1>2, XlRecord, XlCommands, XlAssumption
<1>4. CASE Xl!Finish(p) BY <1>2, <1>4, XlFinish, XlKeeps
<1>5. CASE Xl!Open(p) /\ ~Xl!Finish(p)
    <2> DEFINE r == [xlProc[p] EXCEPT !.at = "acted", !.path = x, !.book = xlDisk[x],
                                      !.was = xlDisk[x], !.modified = FALSE]
    <2>1. xlDisk[x] \notin {None, Broken} /\ Xl!Becomes(p, r) BY <1>5 DEF Xl!Open, Xl!Cmd
    <2>2. xlDisk[x] \in XlBooks BY <1>3, <2>1 DEF XlInv, XlTyped
    <2>3. r \in XlProcess BY <1>1, <1>3, <2>2, XlSound DEF XlProcess
    <2>4. r.at = "acted" /\ r.path = x /\ r.cmd = c BY <1>1 DEF XlProcess
    <2>5. c.op = "open" BY <1>5 DEF Xl!Open, Xl!Cmd
    <2>6. XlHolds(r) BY <1>3, <2>4, <2>5 DEF XlHolds
    <2> HIDE DEF r
    <2>7. QED BY <1>2, <2>1, <2>3, <2>6, XlBecomes, XlKeeps
<1>6. CASE Xl!New(p)
    <2> DEFINE r == [xlProc[p] EXCEPT !.at = "acted", !.path = x,
                                      !.book = Xl!NewBook, !.modified = TRUE]
    <2>1. Xl!Becomes(p, r) /\ c.op = "new" BY <1>6 DEF Xl!New, Xl!Cmd
    <2>2. r \in XlProcess BY <1>1, <1>3, XlNew, XlSound DEF XlProcess
    <2>3. r.at = "acted" /\ r.path = x /\ r.cmd = c BY <1>1 DEF XlProcess
    <2>4. XlHolds(r) BY <1>3, <2>1, <2>3 DEF XlHolds
    <2> HIDE DEF r
    <2>5. QED BY <1>2, <2>1, <2>2, <2>4, XlBecomes, XlKeeps
<1>7. QED BY <1>4, <1>5, <1>6

LEMMA XlEdits ==
    ASSUME XlInv, NEW p \in Proc, Xl!Edit(p)
    PROVE  XlInv'
<1> DEFINE c == xlProc[p].cmd
           b == xlProc[p].book
           g == Xl!Edited(Xl!Active(b), c.e)
           m == [b EXCEPT !.sheets[b.active] = g]
           r == [xlProc[p] EXCEPT !.at = "acted", !.modified = TRUE, !.book = m]
<1>1. /\ xlProc[p] \in XlProcess /\ xlProc[p].at = "loaded" /\ c.op = "edit" /\ b # None
      /\ UNCHANGED <<xlDisk, xlState>>
    BY XlBusy DEF XlInv, Xl!Edit, Xl!At, Xl!Cmd, Xl!Book
<1>2. CASE Xl!Finish(p) BY <1>1, <1>2, XlFinish, XlKeeps
<1>3. CASE ~Xl!Finish(p)
    <2>1. g # XlFail /\ Xl!Becomes(p, r) BY <1>3 DEF Xl!Edit, Xl!Cmd, Xl!Book
    <2>2. XlHolds(xlProc[p]) BY <1>1 DEF XlInv
    <2>3. b = xlProc[p].was /\ xlProc[p].path # None BY <1>1, <2>2 DEF XlHolds
    <2>4. c.e \in Xl!Edits /\ b \in XlBooks BY <1>1, <2>3, XlRecord, XlCommands
    <2>5. g \in Xl!Sheet BY <2>1, <2>4, XlActive, XlEdited
    <2>6. m \in XlBooks BY <2>4, <2>5, XlActive
    <2> HIDE DEF g, m
    <2>7. r \in XlProcess BY <1>1, <2>6, XlSound DEF XlProcess
    <2>8. /\ r.at = "acted" /\ r.path = xlProc[p].path /\ r.cmd = c /\ r.was = xlProc[p].was
          /\ r.book = m
        BY <1>1 DEF XlProcess
    <2> HIDE DEF r
    <2>9. XlHolds(r) BY <1>1, <2>1, <2>3, <2>8 DEF XlHolds, g, m
    <2>10. QED BY <1>1, <2>1, <2>7, <2>9, XlBecomes, XlKeeps DEF r
<1>4. QED BY <1>2, <1>3

LEMMA XlSheets ==
    ASSUME XlInv, NEW p \in Proc, Xl!SheetCommand(p)
    PROVE  XlInv'
<1> DEFINE c == xlProc[p].cmd
           b == xlProc[p].book
<1>1. /\ xlProc[p] \in XlProcess /\ xlProc[p].at = "loaded" /\ c.op = "sheet" /\ b # None
      /\ UNCHANGED <<xlDisk, xlState>>
    BY XlBusy DEF XlInv, Xl!SheetCommand, Xl!At, Xl!Cmd, Xl!Book
<1>2. CASE Xl!Finish(p) BY <1>1, <1>2, XlFinish, XlKeeps
<1>3. CASE ~Xl!Finish(p)
    <2>1. PICK m \in Xl!SheetMade(b, c.e) :
              Xl!Becomes(p, [xlProc[p] EXCEPT !.at = "acted", !.book = m,
                                              !.modified = @ \/ c.e.do # "switch"])
        BY <1>3 DEF Xl!SheetCommand, Xl!Cmd, Xl!Book
    <2> DEFINE r == [xlProc[p] EXCEPT !.at = "acted", !.book = m,
                                      !.modified = @ \/ c.e.do # "switch"]
    <2>2. XlHolds(xlProc[p]) BY <1>1 DEF XlInv
    <2>3. b = xlProc[p].was /\ xlProc[p].path # None BY <1>1, <2>2 DEF XlHolds
    <2>4. c.e \in Xl!SheetChanges /\ b \in XlBooks BY <1>1, <2>3, XlRecord, XlCommands
    <2>5. m \in Xl!Workbook BY <2>4, XlSheetMade
    <2>6. r \in XlProcess BY <1>1, <2>5 DEF XlProcess
    <2>7. r.at = "acted" /\ r.path = xlProc[p].path /\ r.cmd = c BY <1>1 DEF XlProcess
    <2> HIDE DEF r
    <2>8. XlHolds(r) BY <1>1, <2>3, <2>7 DEF XlHolds
    <2>9. QED BY <1>1, <2>1, <2>6, <2>8, XlBecomes, XlKeeps DEF r
<1>4. QED BY <1>2, <1>3

LEMMA XlEnds ==
    ASSUME XlInv, NEW p \in Proc,
           Xl!NoWorkbook(p) \/ Xl!Read(p) \/ Xl!Close(p) \/ Xl!Kill(p)
    PROVE  XlInv'
<1>1. Xl!Finish(p) /\ UNCHANGED xlDisk
    BY DEF Xl!NoWorkbook, Xl!Read, Xl!Close, Xl!Kill
<1>2. xlState' = xlState \/ xlState' = Xl!Closed
    BY DEF Xl!NoWorkbook, Xl!Read, Xl!Close, Xl!Kill
<1>3. xlState' \in [path : Path \cup {None}, modified : BOOLEAN]
    <2>1. Xl!Closed \in [path : Path \cup {None}, modified : BOOLEAN] BY DEF Xl!Closed
    <2>2. QED BY <1>2, <2>1 DEF XlInv, XlTyped
<1>4. /\ xlProc' \in [Proc -> XlProcess \cup {Xl!Idle}]
      /\ \A q \in Proc : xlProc'[q] \in XlProcess => XlHolds(xlProc'[q])
    BY <1>1, XlFinish
<1>5. QED BY <1>1, <1>3, <1>4 DEF XlInv, XlTyped

LEMMA XlSaves ==
    ASSUME XlInv, NEW p \in Proc, NEW refused \in BOOLEAN, Xl!SaveOpens(p, refused)
    PROVE  XlInv'
<1> DEFINE c == xlProc[p].cmd
           x == IF c.path = None THEN xlProc[p].path ELSE c.path
           r == [xlProc[p] EXCEPT !.at = "saving", !.path = x]
<1>1. /\ xlProc[p] \in XlProcess /\ c.op = "save" /\ xlProc[p].book # None
      /\ xlProc[p].at = "loaded" /\ UNCHANGED xlState
    BY XlBusy DEF XlInv, Xl!SaveOpens, Xl!At, Xl!Cmd, Xl!Book
<1>2. CASE refused
    <2>1. Xl!Finish(p) /\ UNCHANGED xlDisk BY <1>2 DEF Xl!SaveOpens
    <2>2. QED BY <1>1, <2>1, XlFinish, XlKeeps
<1>3. CASE ~refused
    <2>1. xlDisk' = [xlDisk EXCEPT ![x] = Broken] /\ Xl!Becomes(p, r)
        BY <1>3 DEF Xl!SaveOpens, Xl!Cmd
    <2>2. c.path \in Path \cup {None} BY <1>1, XlRecord, XlCommands
    <2>3. XlHolds(xlProc[p]) BY <1>1 DEF XlInv
    <2>4. xlProc[p].path \in Path /\ xlProc[p].book \in XlBooks BY <1>1, <2>3, XlRecord DEF XlHolds
    <2>5. x \in Path /\ x # None BY <2>2, <2>4, XlAssumption
    <2>6. r \in XlProcess BY <1>1, <2>5 DEF XlProcess
    <2>7. r.at = "saving" /\ r.path = x /\ r.cmd = c /\ r.book = xlProc[p].book
        BY <1>1 DEF XlProcess
    <2> HIDE DEF r, x
    <2>8. XlHolds(r) BY <1>1, <2>4, <2>5, <2>7, XlSound DEF XlHolds
    <2>9. /\ xlProc' \in [Proc -> XlProcess \cup {Xl!Idle}]
          /\ \A q \in Proc : xlProc'[q] \in XlProcess => XlHolds(xlProc'[q])
        BY <2>1, <2>6, <2>8, XlBecomes
    <2>10. xlDisk' \in [Path -> XlBooks \cup {None, Broken}] BY <2>1 DEF XlInv, XlTyped
    <2>11. QED BY <1>1, <2>9, <2>10 DEF XlInv, XlTyped
<1>4. QED BY <1>2, <1>3

LEMMA XlWrites ==
    ASSUME XlInv, NEW p \in Proc, Xl!SaveWrites(p)
    PROVE  XlInv'
<1> DEFINE r == [xlProc[p] EXCEPT !.at = "acted", !.modified = FALSE]
           b == xlProc[p].book
<1>1. /\ xlProc[p] \in XlProcess /\ xlProc[p].at = "saving"
      /\ xlDisk' = [xlDisk EXCEPT ![xlProc[p].path] = b]
      /\ Xl!Becomes(p, r) /\ UNCHANGED xlState
    BY XlBusy DEF XlInv, Xl!SaveWrites, Xl!At, Xl!Book
<1>2. XlHolds(xlProc[p]) BY <1>1 DEF XlInv
<1>3. xlProc[p].cmd.op = "save" /\ b \in XlBooks /\ xlProc[p].path # None
    BY <1>1, <1>2 DEF XlHolds
<1>5. r \in XlProcess BY <1>1 DEF XlProcess
<1>6. r.at = "acted" /\ r.path = xlProc[p].path /\ r.cmd = xlProc[p].cmd
    BY <1>1 DEF XlProcess
<1> HIDE DEF r, b
<1>7. XlHolds(r) BY <1>3, <1>6 DEF XlHolds
<1>8. /\ xlProc' \in [Proc -> XlProcess \cup {Xl!Idle}]
      /\ \A q \in Proc : xlProc'[q] \in XlProcess => XlHolds(xlProc'[q])
    BY <1>1, <1>5, <1>7, XlBecomes
<1>9. xlDisk' \in [Path -> XlBooks \cup {None, Broken}] BY <1>1, <1>3 DEF XlInv, XlTyped
<1>10. QED BY <1>1, <1>8, <1>9 DEF XlInv, XlTyped

LEMMA XlTruncates ==
    ASSUME XlInv, NEW p \in Proc, Xl!Truncate(p)
    PROVE  XlInv'
<1> DEFINE r == [xlProc[p] EXCEPT !.at = "noting"]
<1>1. /\ xlProc[p] \in XlProcess /\ xlState' = Xl!Closed /\ UNCHANGED xlDisk
      /\ Xl!Becomes(p, r)
    BY XlBusy DEF XlInv, Xl!Truncate, Xl!At
<1>2. XlHolds(xlProc[p]) BY <1>1 DEF XlInv
<1>3. r \in XlProcess BY <1>1 DEF XlProcess
<1>4. r.at = "noting" /\ r.path = xlProc[p].path /\ r.book = xlProc[p].book
    BY <1>1 DEF XlProcess
<1> HIDE DEF r
<1>5. XlHolds(r) BY <1>2, <1>4 DEF XlHolds
<1>6. /\ xlProc' \in [Proc -> XlProcess \cup {Xl!Idle}]
      /\ \A q \in Proc : xlProc'[q] \in XlProcess => XlHolds(xlProc'[q])
    BY <1>1, <1>3, <1>5, XlBecomes
<1>7. Xl!Closed \in [path : Path \cup {None}, modified : BOOLEAN] BY DEF Xl!Closed
<1>8. QED BY <1>1, <1>6, <1>7 DEF XlInv, XlTyped

LEMMA XlNotes ==
    ASSUME XlInv, NEW p \in Proc, Xl!Note(p)
    PROVE  XlInv'
<1>1. /\ xlProc[p] \in XlProcess /\ UNCHANGED xlDisk /\ Xl!Finish(p)
      /\ xlState' = [path |-> xlProc[p].path, modified |-> xlProc[p].modified]
    BY XlBusy DEF XlInv, Xl!Note, Xl!At
<1>2. xlProc[p].path \in Path \cup {None} /\ xlProc[p].modified \in BOOLEAN BY <1>1, XlRecord
<1>3. xlState' \in [path : Path \cup {None}, modified : BOOLEAN] BY <1>1, <1>2
<1>4. /\ xlProc' \in [Proc -> XlProcess \cup {Xl!Idle}]
      /\ \A q \in Proc : xlProc'[q] \in XlProcess => XlHolds(xlProc'[q])
    BY <1>1, XlFinish
<1>5. QED BY <1>1, <1>3, <1>4 DEF XlInv, XlTyped

LEMMA XlElsewhere ==
    ASSUME XlInv, NEW x \in Path, Xl!EditElsewhere(x)
    PROVE  XlInv'
<1>1. PICK b \in XlGiven : xlDisk' = [xlDisk EXCEPT ![x] = b]
    BY DEF Xl!EditElsewhere
<1>2. UNCHANGED <<xlState, xlProc>> BY DEF Xl!EditElsewhere
<1>3. b \in XlBooks BY XlAssumption DEF XlBooks
<1>4. xlDisk' \in [Path -> XlBooks \cup {None, Broken}] BY <1>1, <1>3 DEF XlInv, XlTyped
<1>5. QED BY <1>2, <1>4 DEF XlInv, XlTyped

\* Every step keeps the invariant.
LEMMA XlInvStep ==
    ASSUME XlInv, Xl!Next
    PROVE  XlInv'
<1>1. CASE \E x \in Path : Xl!EditElsewhere(x) BY <1>1, XlElsewhere
<1>2. CASE ~(\E x \in Path : Xl!EditElsewhere(x))
    <2>1. PICK p \in Proc :
              \/ \E c \in XlAsked[p] : Xl!Load(p, c)
              \/ Xl!Open(p) \/ Xl!New(p) \/ Xl!NoWorkbook(p) \/ Xl!Edit(p)
              \/ Xl!SheetCommand(p) \/ Xl!Read(p)
              \/ Xl!Close(p) \/ \E refused \in BOOLEAN : Xl!SaveOpens(p, refused)
              \/ Xl!SaveWrites(p) \/ Xl!Truncate(p) \/ Xl!Note(p) \/ Xl!Kill(p)
        BY <1>2 DEF Xl!Next
    <2>2. CASE \E c \in XlAsked[p] : Xl!Load(p, c) BY <2>2, XlLoad
    <2>3. CASE Xl!Open(p) \/ Xl!New(p) BY <2>3, XlOpens
    <2>4. CASE Xl!NoWorkbook(p) \/ Xl!Read(p) \/ Xl!Close(p) \/ Xl!Kill(p) BY <2>4, XlEnds
    <2>5. CASE Xl!Edit(p) BY <2>5, XlEdits
    <2>6. CASE Xl!SheetCommand(p) BY <2>6, XlSheets
    <2>7. CASE \E refused \in BOOLEAN : Xl!SaveOpens(p, refused) BY <2>7, XlSaves
    <2>8. CASE Xl!SaveWrites(p) BY <2>8, XlWrites
    <2>9. CASE Xl!Truncate(p) BY <2>9, XlTruncates
    <2>10. CASE Xl!Note(p) BY <2>10, XlNotes
    <2>11. QED BY <2>1, <2>2, <2>3, <2>4, <2>5, <2>6, <2>7, <2>8, <2>9, <2>10
<1>3. QED BY <1>1, <1>2

\* A step of another tool.
LEMMA XlInvStays ==
    ASSUME XlInv, UNCHANGED xlBooks
    PROVE  XlInv'
BY DEF XlInv, XlTyped, xlBooks

\* What an edit has made, and of what.
LEMMA XlMade ==
    ASSUME XlInv, NEW p \in Proc, Xl!At(p, "acted"), Xl!Cmd(p).op = "edit"
    PROVE  LET old == Xl!Active(xlProc[p].was)
               new == Xl!Active(Xl!Book(p))
               e == Xl!Cmd(p).e
           IN  /\ old \in Xl!Sheet /\ new \in Xl!Sheet /\ e \in Xl!Edits
               /\ new = Xl!Edited(old, e) /\ Xl!Edited(old, e) # XlFail
<1> DEFINE r == xlProc[p]
           old == Xl!Active(r.was)
           e == r.cmd.e
           g == Xl!Edited(old, e)
<1>1. r \in XlProcess /\ r.at = "acted" /\ r.cmd.op = "edit"
    BY XlBusy DEF XlInv, Xl!At, Xl!Cmd
<1>2. XlHolds(r) BY <1>1 DEF XlInv
<1>3. /\ r.was # None /\ g # XlFail
      /\ r.book = [r.was EXCEPT !.sheets[r.was.active] = g]
    BY <1>1, <1>2 DEF XlHolds
<1>4. r.was \in XlBooks /\ e \in Xl!Edits BY <1>1, <1>3, XlRecord, XlCommands
<1>5. old \in Xl!Sheet BY <1>4, XlActive
<1>6. g \in Xl!Sheet BY <1>3, <1>4, <1>5, XlEdited
<1> HIDE DEF g
<1>7. Xl!Active(r.book) = g BY <1>3, <1>4, <1>6, XlActive
<1>8. QED BY <1>3, <1>4, <1>5, <1>6, <1>7 DEF g, Xl!Book, Xl!Cmd

\* Every sort keeps the values, and what is read of them.
LEMMA XlSortedKeep ==
    ASSUME XlInv
    PROVE  Xl!SortKeepsValues /\ Xl!ReadsSurviveSort
<1>1. ASSUME NEW p \in Xl!Sorted
      PROVE  /\ XlKeepsValues(Xl!Before(p), Xl!After(p), Xl!Cmd(p).e.col, Xl!Cmd(p).e.desc)
             /\ XlReads(Xl!Before(p), Xl!After(p))
    <2> DEFINE old == Xl!Before(p)
               new == Xl!After(p)
               e == Xl!Cmd(p).e
    <2>1. p \in Proc /\ Xl!At(p, "acted") /\ Xl!Cmd(p).op = "edit" /\ e.do = "sort"
        BY DEF Xl!Sorted
    <2>2. /\ old \in Xl!Sheet /\ e \in Xl!Edits
          /\ new = Xl!Edited(old, e) /\ Xl!Edited(old, e) # XlFail
        BY <2>1, XlMade DEF Xl!Before, Xl!After
    <2> HIDE DEF old, new, e
    <2>3. e.col \in Xl!Col /\ e.desc \in BOOLEAN BY <2>1, <2>2 DEF Xl!Edits
    <2>4. Xl!Edited(old, e) = Xl!Sort(old, e.col, e.desc) BY <2>1 DEF Xl!Edited
    <2>5. XlKeepsValues(old, new, e.col, e.desc) /\ XlReads(old, new)
        BY <2>2, <2>3, <2>4, XlSorts
    <2>6. QED BY <2>5 DEF old, new, e
<1>2. Xl!SortKeepsValues BY <1>1 DEF Xl!SortKeepsValues, XlKeepsValues
<1>3. Xl!ReadsSurviveSort BY <1>1 DEF Xl!ReadsSurviveSort, XlReads
<1>4. QED BY <1>2, <1>3

\* The inductive invariant of agent-excel.
THEOREM WorkbooksInvariant == ToolsSpec => [](tool = "excel" => XlInv)
<1> DEFINE I == tool = "excel" => XlInv
<1>1. ToolsInit => I BY XlInvInit DEF ToolsInit
<1>2. I /\ [ToolsNext]_toolsVars => I'
    <2>1. SUFFICES ASSUME I, [ToolsNext]_toolsVars, tool' = "excel" PROVE XlInv'
        OBVIOUS
    <2>2. tool = "excel" /\ (Xl!Next \/ UNCHANGED xlBooks) BY <2>1, ToolsDo
    <2>3. QED BY <2>1, <2>2, XlInvStep, XlInvStays
<1>3. QED BY <1>1, <1>2, PTL DEF ToolsSpec

\* agent-excel: whatever the workbooks hold and the commands are, a sort loses no value
\* of a column and puts those it sorts by in order, rows without blanks staying whole;
\* and maxima, minima, counts, sums, texts, matches and headers survive it as far as
\* Xl!ReadsSurviveSort says.
THEOREM SortsLoseNothing == ToolsSpec => []SortLosesNothing
<1>1. (tool = "excel" => XlInv) => SortLosesNothing BY XlSortedKeep DEF SortLosesNothing
<1>2. QED BY <1>1, WorkbooksInvariant, PTL

-----------------------------------------------------------------------------
(* agent-zpc.                                                             *)

-----------------------------------------------------------------------------
(* The invariant: the versions of a store, those a command is about to    *)
(* write included, agree; and what commands hold.                         *)

\* The id that readers derive for a row.
ZpId(v, i) == Zpc!AssignIds(v)[i].id

\* A store, and what commands are about to replace it with.
ZpPending(s) == {p \in Proc : zProc[p].at \in {"replace", "write"} /\ zProc[p].store = s}
ZpVersions(s) == {zFiles[s]} \cup {zProc[p].lines : p \in ZpPending(s)}

\* Two versions of one store: a number stands for one row with one id, and a line
\* that was not appended during a rewrite is in both.
ZpAgree(u, v, renamed, raced) ==
    /\ \A i \in DOMAIN u, j \in DOMAIN v : u[i].n = v[j].n =>
          /\ Zpc!IsClaim(u[i]) <=> Zpc!IsClaim(v[j])
          /\ Zpc!IsClaim(u[i]) => /\ u[i].lesson = v[j].lesson
                                  /\ ZpId(u, i) = ZpId(v, j) \/ u[i].n \in renamed
    /\ \A i \in DOMAIN u : u[i].n \in raced \/ \E j \in DOMAIN v : v[j].n = u[i].n

\* One version.
ZpLines(s, v) ==
    /\ v \in Seq(Zpc!Row(s))
    /\ \A i, j \in DOMAIN v : v[i].n = v[j].n => i = j
ZpUnlike(v, doubled) ==
    \A i, j \in DOMAIN v :
        (Zpc!IsClaim(v[i]) /\ Zpc!IsClaim(v[j]) /\ v[i].id = v[j].id)
        => i = j \/ v[i].id = None \/ v[i].id \in doubled
ZpFresh(s, v, renamed, raced) ==
    \A i \in DOMAIN v : IF s = "global" THEN Zpc!Nameless(v[i]) => v[i].n \notin raced
                        ELSE v[i].n \notin renamed
ZpTellsTrue(v, t) ==
    t.id # None => \A i \in DOMAIN v : Zpc!IsClaim(v[i]) /\ v[i].n = t.n => ZpId(v, i) = t.id

\* A retraction has reached a version, or the version has no row it is about.
ZpGot(v, f) ==
    \E i \in DOMAIN v : v[i].kind = "retracts" /\ v[i].of = f.id /\ v[i].n \in f.lines
ZpLacks(v, f) == \A i \in DOMAIN v : Zpc!IsClaim(v[i]) => ZpId(v, i) # f.id
ZpSince(v, f) ==
    \A i \in DOMAIN v : Zpc!IsClaim(v[i]) /\ ZpId(v, i) = f.id => \A n \in f.lines : n < v[i].n

ZpLoad == [at : {"load"}, store : {"project"}, then : {"end"}]
ZpTell(next) == [at : {"load", "tell"}, store : {"project"}, then : {"tell"}, n : 1..next]
ZpCorrect(next) == {r \in [at : {"load", "append", "twin"}, store : Zpc!Store, then : {"append"},
                     verb : {"retracts", "challenges"}, id : Zpc!Ids("global"),
                     first : BOOLEAN, lines : SUBSET (1..next)] :
                r.first /\ r.store = "project" => r.id \in Zpc!Ids("project")}
ZpReading(next) == {r \in ZpLoad \cup ZpTell(next) \cup ZpCorrect(next) : r.at = "load"}
ZpRewrite(next) == {r \in [at : {"replace"}, lines : Seq(Zpc!Row("project")) \cup Seq(Zpc!Row("global")),
                        of : ZpReading(next), store : Zpc!Store] : r.store = r.of.store}
ZpPromoted == {r \in Zpc!ClaimRow("global") : r.id \in Zpc!Ids("project") /\ r.fires \in When}
ZpProcess(next) == {Zpc!Idle} \cup ZpLoad \cup ZpTell(next) \cup ZpCorrect(next) \cup ZpRewrite(next)
    \cup [at : {"dest"}, row : ZpPromoted]
    \cup [at : {"write"}, store : {"global"}, row : ZpPromoted, lines : Seq(Zpc!Row("global"))]

ZpTyped ==
    /\ zProc \in [Proc -> ZpProcess(zNext)]
    /\ \A t \in zTold : t.n \in 1..zNext
    /\ \A f \in zFiled : f.lines \subseteq 1..zNext

ZpEach ==
    \A s \in Zpc!Store : \A v \in ZpVersions(s) :
        /\ ZpLines(s, v) /\ ZpUnlike(v, zDoubled) /\ ZpFresh(s, v, zRenamed, zRaced)
        /\ \A i \in DOMAIN v : v[i].n \in 1..zNext
ZpTogether == \A s \in Zpc!Store : \A u, v \in ZpVersions(s) : ZpAgree(u, v, zRenamed, zRaced)
ZpApart ==
    \A u \in ZpVersions("project"), v \in ZpVersions("global") :
        \A i \in DOMAIN u, j \in DOMAIN v : u[i].n # v[j].n
ZpToldTrue == \A t \in zTold : \A v \in ZpVersions("project") : ZpTellsTrue(v, t)

\* The rows that are being promoted.
ZpPromotes(id) == \E p \in Proc : zProc[p].at \in {"dest", "write"} /\ zProc[p].row.id = id
ZpReached(f) ==
    \/ /\ \A v \in ZpVersions("global") : ZpGot(v, f)
       /\ \/ \A v \in ZpVersions("project") : ZpGot(v, f)
          \/ \A v \in ZpVersions("project") : ZpSince(v, f)
    \/ /\ \A v \in ZpVersions("project") : ZpGot(v, f)
       /\ \A v \in ZpVersions("global") : ZpLacks(v, f)
       /\ f.id \in Zpc!Ids("project") /\ ~ZpPromotes(f.id)
ZpFiledReach == \A f \in zFiled : f.id \notin zDoubled => ZpReached(f)

\* A command that runs by itself.
ZpTelling(c, files) ==
    c.then = "tell" => LET v == files["project"] IN
                       v # <<>> /\ Zpc!IsClaim(v[Len(v)]) /\ v[Len(v)].n = c.n
ZpCorrecting(c, files) ==
    c.then = "append" /\ c.verb = "retracts" =>
        /\ c.at = "twin" => ZpGot(files[c.store], c)
        /\ ~c.first => ZpGot(files[Zpc!Other(c.store)], c)
ZpLoneAs(c, files) ==
    /\ c.at \in {"load", "tell", "append", "twin"}
        => ZpTelling(c, files) /\ ZpCorrecting(c, files)
    /\ c.at = "replace" => /\ c.lines = Zpc!AssignIds(files[c.store])
                           /\ ZpTelling(c.of, files) /\ ZpCorrecting(c.of, files)
    /\ c.at = "write" => c.lines = files["global"]
ZpLone(p) == /\ \A q \in Proc \ {p} : zProc[q] = Zpc!Idle
             /\ ZpLoneAs(zProc[p], zFiles)

-----------------------------------------------------------------------------
(* How AssignIds finds a nonce.                                           *)

\* The store's cardinality is that of the library.
LEMMA ZpCardinality == \A S : Zpc!Cardinality(S) = Cardinality(S)
BY DEF Zpc!Cardinality, Cardinality

\* The parts of AssignIds.
ZpStored(v) == {r.id : r \in {x \in Zpc!ToSet(v) : Zpc!IsClaim(x)}}
ZpEarlier(v, i) == {j \in 1..(i - 1) : /\ Zpc!Nameless(v[j])
                                       /\ Zpc!Content(v[j]) = Zpc!Content(v[i])}
ZpFree(v, i) == {k \in 0..Len(v) : Zpc!Id(v[i], k) \notin ZpStored(v)}
ZpIsNonce(v, i, k) ==
    /\ k \in ZpFree(v, i)
    /\ Cardinality({m \in ZpFree(v, i) : m < k}) = Cardinality(ZpEarlier(v, i))
ZpNonce(v, i) == CHOOSE k \in ZpFree(v, i) :
    Zpc!Cardinality({m \in ZpFree(v, i) : m < k}) = Zpc!Cardinality(ZpEarlier(v, i))

\* AssignIds, from its parts.
LEMMA ZpUnfold ==
    ASSUME NEW v
    PROVE  Zpc!AssignIds(v) =
              [i \in DOMAIN v |-> IF Zpc!Nameless(v[i])
                                  THEN [v[i] EXCEPT !.id = Zpc!Id(v[i], ZpNonce(v, i))] ELSE v[i]]
BY DEF Zpc!AssignIds, ZpNonce, ZpFree, ZpEarlier, ZpStored

\* Of finitely many numbers exactly one has a given number of them below it.
LEMMA ZpRanked ==
    ASSUME NEW n \in Nat, NEW S \in SUBSET (0..n), NEW c \in Nat, c < Cardinality(S)
    PROVE  \E k \in S : Cardinality({m \in S : m < k}) = c
<1> DEFINE Below(k) == {m \in S : m < k}
           Many == {k \in 0..(n + 1) : c < Cardinality(Below(k))}
<1>0. \A m \in S : m \in Nat /\ m <= n OBVIOUS
<1>1. IsFiniteSet(S) /\ Cardinality(S) \in Nat
    <2>1. IsFiniteSet(0..n) BY FS_Interval
    <2>2. QED BY <2>1, FS_Subset, FS_CardinalityType
<1>2. \A k \in Nat : IsFiniteSet(Below(k)) /\ Cardinality(Below(k)) \in Nat
    <2>1. \A k \in Nat : Below(k) \in SUBSET S OBVIOUS
    <2> HIDE DEF Below
    <2>2. QED BY <1>1, <2>1, FS_Subset, FS_CardinalityType
<1>3. n + 1 \in Many
    <2>0. \A m \in S : m < n + 1 BY <1>0
    <2>1. Below(n + 1) = S BY <2>0
    <2> HIDE DEF Below
    <2>2. QED BY <2>1
<1>4. PICK k \in Many : \A l \in Many : k <= l
    <2>1. Many \in SUBSET Nat
        <3>1. \A k \in Many : k \in Nat
            <4> HIDE DEF Below
            <4>1. QED OBVIOUS
        <3>2. QED BY <3>1
    <2> HIDE DEF Many
    <2>2. QED BY <1>3, <2>1, LeastElement
<1>5. k # 0
    <2>0. \A m \in S : ~(m < 0) BY <1>0
    <2>1. Below(0) = {} BY <2>0
    <2> HIDE DEF Below
    <2>2. ASSUME k = 0 PROVE FALSE
        <3>1. Cardinality(Below(k)) = 0 BY <2>1, <2>2, FS_EmptySet
        <3>2. QED BY <1>4, <3>1
    <2>3. QED BY <2>2
<1> DEFINE q == k - 1
<1>6. k \in Nat /\ q \in 0..n /\ k = q + 1 BY <1>4, <1>5
<1>7. ~(c < Cardinality(Below(q)))
    <2>1. q \notin Many BY <1>4, <1>6
    <2> HIDE DEF Below
    <2>2. QED BY <1>6, <2>1
<1>8. q \in S /\ Below(k) = Below(q) \cup {q} /\ q \notin Below(q)
    <2>0. \A m \in S : m < k <=> m < q \/ m = q BY <1>0, <1>6
    <2>1. Below(k) = (Below(q) \cup {q}) \cap S
        <3> HIDE DEF q
        <3>1. QED BY <2>0
    <2>2. q \notin Below(q) BY <1>6
    <2>3. ASSUME q \notin S PROVE FALSE
        <3>1. Below(k) = Below(q) BY <2>1, <2>3
        <3> HIDE DEF Below, q
        <3>2. QED BY <1>4, <1>7, <3>1
    <2>4. QED BY <2>1, <2>2, <2>3
<1>9. Cardinality(Below(q)) = c
    <2> HIDE DEF Below
    <2>0. IsFiniteSet(Below(q)) BY <1>2, <1>6
    <2>1. Cardinality(Below(k)) = Cardinality(Below(q)) + 1
        BY <1>8, <2>0, FS_AddElement
    <2>2. c < Cardinality(Below(k)) BY <1>4
    <2> HIDE DEF q
    <2>3. Cardinality(Below(q)) \in Nat BY <1>2, <1>6
    <2>4. QED BY <1>7, <2>1, <2>2, <2>3
<1>10. QED BY <1>8, <1>9

\* A greater one has more of them below it.
LEMMA ZpRankedOnce ==
    ASSUME NEW n \in Nat, NEW S \in SUBSET (0..n), NEW k \in S, NEW l \in S, k < l
    PROVE  Cardinality({m \in S : m < k}) < Cardinality({m \in S : m < l})
<1> DEFINE K == {m \in S : m < k}
           L == {m \in S : m < l}
<1>1. K \in SUBSET L /\ k \in L /\ k \notin K /\ L \in SUBSET (0..n)
    <2>1. \A m \in S : m \in Nat OBVIOUS
    <2>2. \A m \in S : m < k => m < l BY <2>1
    <2>3. ~(k < k) BY <2>1
    <2>4. QED BY <2>2, <2>3
<1>2. IsFiniteSet(0..n) BY FS_Interval
<1> HIDE DEF K, L
<1>3. IsFiniteSet(L) BY <1>1, <1>2, FS_Subset
<1>4. /\ IsFiniteSet(K) /\ Cardinality(K) <= Cardinality(L)
      /\ Cardinality(K) = Cardinality(L) => K = L
    BY <1>1, <1>3, FS_Subset
<1>5. Cardinality(K) # Cardinality(L) BY <1>1, <1>4
<1>6. Cardinality(K) \in Nat /\ Cardinality(L) \in Nat BY <1>3, <1>4, FS_CardinalityType
<1>7. QED BY <1>4, <1>5, <1>6 DEF K, L

\* Rows and ids.
LEMMA ZpRows ==
    ASSUME NEW s \in Zpc!Store, NEW r \in Zpc!Row(s)
    PROVE  /\ r.n \in Nat
           /\ r.kind \in {"claim", "retracts", "challenges", "unreadable"}
           /\ Zpc!IsClaim(r) => /\ r \in Zpc!ClaimRow(s) /\ r.lesson \in Lesson
                                /\ r.fires \in Zpc!Moments(s)
                                /\ r.id # None => r.id \in Zpc!Ids(s) /\ r.id[1][1] = r.lesson
<1>1. CASE r \in Zpc!ClaimRow(s) BY <1>1 DEF Zpc!ClaimRow, Zpc!IsClaim
<1>2. CASE r \in [kind : {"retracts", "challenges"}, of : Zpc!Ids("global"), n : Nat]
    BY <1>2 DEF Zpc!IsClaim
<1>3. CASE r \in [kind : {"unreadable"}, n : Nat] BY <1>3 DEF Zpc!IsClaim
<1>4. QED BY <1>1, <1>2, <1>3 DEF Zpc!Row

\* What an id names, and that a row may take one that names its lesson.
LEMMA ZpIds ==
    ASSUME NEW s \in Zpc!Store, NEW r \in Zpc!ClaimRow(s)
    PROVE  /\ \A k \in Nat : /\ Zpc!Id(r, k) \in Zpc!Ids(s)
                             /\ Zpc!Id(r, k)[1] = Zpc!Content(r) /\ Zpc!Id(r, k)[2] = k
                             /\ Zpc!Id(r, k)[1][1] = r.lesson /\ Zpc!Id(r, k)[1][2] = r.fires
           /\ Zpc!Ids(s) \subseteq Zpc!Ids("global") /\ None \notin Zpc!Ids(s)
           /\ \A x \in Zpc!Ids(s) : x[1][1] = r.lesson =>
                [r EXCEPT !.id = x] \in Zpc!ClaimRow(s)
<1>1. r.lesson \in Lesson /\ r.fires \in Zpc!Moments(s) BY DEF Zpc!ClaimRow
<1>2. \A k \in Nat : Zpc!Id(r, k) \in Zpc!Ids(s) BY <1>1 DEF Zpc!Ids, Zpc!Id, Zpc!Content
<1>3. Zpc!Moments(s) \subseteq Zpc!Moments("global") BY DEF Zpc!Moments, Zpc!Store
<1>4. Zpc!Ids(s) \subseteq Zpc!Ids("global")
    <2>1. \A x \in Zpc!Ids(s) : \E l \in Lesson, f \in Zpc!Moments(s), k \in Nat : x = <<<<l, f>>, k>>
        BY DEF Zpc!Ids
    <2>2. \A l \in Lesson, f \in Zpc!Moments("global"), k \in Nat : <<<<l, f>>, k>> \in Zpc!Ids("global")
        BY DEF Zpc!Ids
    <2>3. QED BY <1>3, <2>1, <2>2
<1>5. None \notin Zpc!Ids(s) BY <1>4, ZpcAssumption
<1>6. ASSUME NEW x \in Zpc!Ids(s), x[1][1] = r.lesson
      PROVE  [r EXCEPT !.id = x] \in Zpc!ClaimRow(s)
    BY <1>6 DEF Zpc!ClaimRow
<1>7. QED BY <1>2, <1>4, <1>5, <1>6 DEF Zpc!Id, Zpc!Content

\* Of the numbers up to its length a file leaves free more than it needs.
LEMMA ZpNonceFound ==
    ASSUME NEW s \in Zpc!Store, NEW v \in Seq(Zpc!Row(s)), NEW i \in DOMAIN v, Zpc!Nameless(v[i])
    PROVE  ZpNonce(v, i) \in Nat /\ ZpIsNonce(v, i, ZpNonce(v, i))
<1> DEFINE n == Len(v)
           Taken == {k \in 0..n : Zpc!Id(v[i], k) \in ZpStored(v)}
           Named == {j \in 1..n : Zpc!IsClaim(v[j]) /\ v[j].id # None}
           Earlier == ZpEarlier(v, i)
           at(k) == CHOOSE j \in Named : v[j].id = Zpc!Id(v[i], k)
           place == [k \in Taken |-> at(k)]
<1>1. n \in Nat /\ DOMAIN v = 1..n /\ i \in 1..n /\ \A j \in 1..n : v[j] \in Zpc!Row(s) OBVIOUS
<1>2. v[i] \in Zpc!ClaimRow(s) BY <1>1, ZpRows DEF Zpc!Nameless
<1>3. ASSUME NEW k \in Taken PROVE at(k) \in Named /\ v[at(k)].id = Zpc!Id(v[i], k)
    <2>1. PICK r \in Zpc!ToSet(v) : Zpc!IsClaim(r) /\ r.id = Zpc!Id(v[i], k) BY DEF ZpStored
    <2>2. PICK j \in 1..n : r = v[j] BY <1>1, <2>1 DEF Zpc!ToSet
    <2>3. Zpc!Id(v[i], k) # None BY <1>2, ZpIds
    <2>4. j \in Named BY <2>1, <2>2, <2>3
    <2> HIDE DEF Named
    <2>5. QED BY <2>1, <2>2, <2>4
<1>4. \A k, l \in Taken : place[k] = place[l] => k = l
    <2>1. ASSUME NEW k \in Taken, NEW l \in Taken, place[k] = place[l] PROVE k = l
        <3>1. at(k) = at(l) BY <2>1
        <3>2. Zpc!Id(v[i], k) = Zpc!Id(v[i], l) BY <1>3, <3>1
        <3>3. k \in Nat /\ l \in Nat OBVIOUS
        <3>4. Zpc!Id(v[i], k)[2] = k /\ Zpc!Id(v[i], l)[2] = l BY <1>2, <3>3, ZpIds
        <3>5. QED BY <3>2, <3>4
    <2>2. QED BY <2>1
<1>5. place \in Injection(Taken, Named)
    <2>1. \A k \in Taken : place[k] \in Named BY <1>3
    <2> HIDE DEF Named, Taken, at
    <2>2. place \in [Taken -> Named] BY <2>1
    <2>3. QED BY <1>4, <2>2 DEF Injection, IsInjective
<1> HIDE DEF place, at
<1>6. IsFiniteSet(1..n) /\ Cardinality(1..n) = n /\ IsFiniteSet(0..n) /\ Cardinality(0..n) = n + 1
    <2> HIDE DEF n
    <2>1. QED BY <1>1, FS_Interval
<1>7. /\ Taken \in SUBSET (0..n) /\ Named \in SUBSET (1..n) /\ Earlier \in SUBSET (1..n)
      /\ i \notin Named /\ i \notin Earlier /\ Named \cap Earlier = {}
    <2>1. Earlier = {j \in 1..(i - 1) : Zpc!Nameless(v[j]) /\ Zpc!Content(v[j]) = Zpc!Content(v[i])}
        BY DEF ZpEarlier
    <2>2. \A j \in 1..(i - 1) : j \in 1..n /\ j # i BY <1>1
    <2>3. QED BY <1>1, <2>1, <2>2 DEF Zpc!Nameless
<1>8. /\ IsFiniteSet(Taken) /\ IsFiniteSet(Named) /\ IsFiniteSet(Earlier)
      /\ Cardinality(Taken) \in Nat /\ Cardinality(Named) \in Nat /\ Cardinality(Earlier) \in Nat
    <2> HIDE DEF Taken, Named, Earlier
    <2>1. QED BY <1>6, <1>7, FS_Subset, FS_CardinalityType
<1>9. Cardinality(Taken) <= Cardinality(Named)
    <2> HIDE DEF Taken, Named
    <2>1. QED BY <1>5, <1>8, FS_Injection
<1>10. Cardinality(Named) + Cardinality(Earlier) + 1 <= n
    <2> DEFINE U == Named \cup Earlier
    <2>1. U \cup {i} \in SUBSET (1..n) /\ i \notin U BY <1>1, <1>7
    <2> HIDE DEF Taken, Named, Earlier
    <2>2. IsFiniteSet(U) /\ Cardinality(U) = Cardinality(Named) + Cardinality(Earlier)
        <3>1. Cardinality(Named \cap Earlier) = 0 BY <1>7, FS_EmptySet
        <3>2. /\ IsFiniteSet(U)
              /\ Cardinality(U) = Cardinality(Named) + Cardinality(Earlier)
                                  - Cardinality(Named \cap Earlier)
            BY <1>8, FS_Union
        <3> HIDE DEF U
        <3>3. QED BY <1>8, <3>1, <3>2
    <2> HIDE DEF U
    <2>3. Cardinality(U \cup {i}) = Cardinality(U) + 1 BY <2>1, <2>2, FS_AddElement
    <2>4. Cardinality(U \cup {i}) <= n BY <1>6, <2>1, FS_Subset
    <2>5. QED BY <2>2, <2>3, <2>4
<1>11. ZpFree(v, i) = (0..n) \ Taken /\ ZpFree(v, i) \in SUBSET (0..n) BY DEF ZpFree
<1>12. Cardinality(ZpFree(v, i)) = n + 1 - Cardinality(Taken)
    <2> DEFINE All == 0..n
    <2>1. IsFiniteSet(All) /\ Cardinality(All) = n + 1 /\ ZpFree(v, i) = All \ Taken
        BY <1>6, <1>11
    <2>2. All \cap Taken = Taken BY <1>7
    <2> HIDE DEF Taken, All, n
    <2>3. Cardinality(All \ Taken) = Cardinality(All) - Cardinality(All \cap Taken)
        BY <2>1, FS_Difference
    <2>4. Cardinality(ZpFree(v, i)) = Cardinality(All \ Taken) BY <2>1
    <2>5. Cardinality(All \cap Taken) = Cardinality(Taken) BY <2>2
    <2>6. Cardinality(All) = n + 1 BY <2>1
    <2>7. QED BY <1>1, <1>8, <2>3, <2>4, <2>5, <2>6
<1> HIDE DEF Taken, Named
<1>13. Cardinality(Earlier) < Cardinality(ZpFree(v, i)) BY <1>1, <1>8, <1>9, <1>10, <1>12
<1>14. \E k \in ZpFree(v, i) : Cardinality({m \in ZpFree(v, i) : m < k}) = Cardinality(Earlier)
    <2> DEFINE S == ZpFree(v, i)
               c == Cardinality(Earlier)
    <2>1. S \in SUBSET (0..n) /\ c \in Nat /\ c < Cardinality(S) BY <1>8, <1>11, <1>13
    <2> HIDE DEF Earlier, n, S, c
    <2>2. \E k \in S : Cardinality({m \in S : m < k}) = c BY <1>1, <2>1, ZpRanked
    <2>3. QED BY <2>2 DEF S, c
<1>15. ZpNonce(v, i) \in ZpFree(v, i) /\ ZpIsNonce(v, i, ZpNonce(v, i))
    <2>1. \E l \in ZpFree(v, i) :
              Zpc!Cardinality({m \in ZpFree(v, i) : m < l}) = Zpc!Cardinality(ZpEarlier(v, i))
        BY <1>14, ZpCardinality
    <2>2. /\ ZpNonce(v, i) \in ZpFree(v, i)
          /\ Zpc!Cardinality({m \in ZpFree(v, i) : m < ZpNonce(v, i)})
                = Zpc!Cardinality(ZpEarlier(v, i))
        BY <2>1 DEF ZpNonce
    <2>3. QED BY <2>2, ZpCardinality DEF ZpIsNonce
<1>16. QED BY <1>1, <1>11, <1>15

-----------------------------------------------------------------------------
(* What AssignIds does to a file.                                         *)

\* Filling in ids changes nothing else, and fills in all.
ZpFilled(s, v, A) ==
    /\ A \in Seq(Zpc!Row(s)) /\ Len(A) = Len(v) /\ DOMAIN A = DOMAIN v
    /\ \A i \in DOMAIN v :
          /\ A[i].n = v[i].n /\ A[i].kind = v[i].kind /\ ~Zpc!Nameless(A[i])
          /\ ~Zpc!IsClaim(v[i]) => A[i] = v[i]
          /\ Zpc!IsClaim(v[i]) =>
                /\ A[i].lesson = v[i].lesson /\ A[i].fires = v[i].fires /\ A[i].id = ZpId(v, i)
                /\ ZpId(v, i) \in Zpc!Ids(s) /\ ZpId(v, i)[1][1] = v[i].lesson
                /\ v[i].id # None => ZpId(v, i) = v[i].id
                /\ v[i].id = None => ZpId(v, i) = Zpc!Id(v[i], ZpNonce(v, i))

\* AssignIds does this to every file.
LEMMA ZpFills ==
    ASSUME NEW s \in Zpc!Store, NEW v \in Seq(Zpc!Row(s))
    PROVE  ZpFilled(s, v, Zpc!AssignIds(v))
<1> DEFINE A == Zpc!AssignIds(v)
           F(i) == [v[i] EXCEPT !.id = Zpc!Id(v[i], ZpNonce(v, i))]
<1>1. A = [i \in DOMAIN v |-> IF Zpc!Nameless(v[i]) THEN F(i) ELSE v[i]] BY ZpUnfold
<1>2. Len(v) \in Nat /\ DOMAIN v = 1..Len(v) /\ \A i \in DOMAIN v : v[i] \in Zpc!Row(s) OBVIOUS
<1>3. ASSUME NEW i \in DOMAIN v, Zpc!Nameless(v[i])
      PROVE  /\ F(i) \in Zpc!ClaimRow(s) /\ F(i).n = v[i].n /\ F(i).kind = v[i].kind
             /\ F(i).lesson = v[i].lesson /\ F(i).fires = v[i].fires
             /\ F(i).id = Zpc!Id(v[i], ZpNonce(v, i)) /\ F(i).id \in Zpc!Ids(s)
             /\ F(i).id[1][1] = v[i].lesson /\ F(i).id # None
    <2>1. v[i] \in Zpc!ClaimRow(s) BY <1>2, <1>3, ZpRows DEF Zpc!Nameless
    <2>2. ZpNonce(v, i) \in Nat BY <1>3, ZpNonceFound
    <2> DEFINE x == Zpc!Id(v[i], ZpNonce(v, i))
    <2>3. x \in Zpc!Ids(s) /\ x[1][1] = v[i].lesson /\ None \notin Zpc!Ids(s) BY <2>1, <2>2, ZpIds
    <2> HIDE DEF x
    <2>4. [v[i] EXCEPT !.id = x] \in Zpc!ClaimRow(s) BY <2>1, <2>3, ZpIds
    <2>5. /\ [v[i] EXCEPT !.id = x].n = v[i].n /\ [v[i] EXCEPT !.id = x].kind = v[i].kind
          /\ [v[i] EXCEPT !.id = x].lesson = v[i].lesson
          /\ [v[i] EXCEPT !.id = x].fires = v[i].fires /\ [v[i] EXCEPT !.id = x].id = x
        BY <2>1 DEF Zpc!ClaimRow
    <2>6. QED BY <2>3, <2>4, <2>5 DEF x
<1> HIDE DEF F, A
<1>4. \A i \in DOMAIN v : A[i] \in Zpc!Row(s) BY <1>1, <1>2, <1>3 DEF Zpc!Row
<1>5. A \in Seq(Zpc!Row(s)) /\ Len(A) = Len(v) /\ DOMAIN A = DOMAIN v
    <2>1. A \in [1..Len(v) -> Zpc!Row(s)] BY <1>1, <1>2, <1>4
    <2>2. QED BY <1>2, <2>1
<1>6. ASSUME NEW i \in DOMAIN v
      PROVE  /\ A[i].n = v[i].n /\ A[i].kind = v[i].kind /\ ~Zpc!Nameless(A[i])
             /\ ~Zpc!IsClaim(v[i]) => A[i] = v[i]
             /\ Zpc!IsClaim(v[i]) =>
                /\ A[i].lesson = v[i].lesson /\ A[i].fires = v[i].fires
                /\ A[i].id \in Zpc!Ids(s) /\ A[i].id[1][1] = v[i].lesson
                /\ v[i].id # None => A[i].id = v[i].id
                /\ v[i].id = None => A[i].id = Zpc!Id(v[i], ZpNonce(v, i))
    <2>1. CASE Zpc!Nameless(v[i])
        <3>1. A[i] = F(i) BY <1>1, <2>1
        <3>2. QED BY <1>3, <2>1, <3>1 DEF Zpc!Nameless, Zpc!IsClaim
    <2>2. CASE ~Zpc!Nameless(v[i])
        <3>1. A[i] = v[i] BY <1>1, <2>2
        <3>2. QED BY <1>2, <2>2, <3>1, ZpRows DEF Zpc!Nameless
    <2>3. QED BY <2>1, <2>2
<1>7. \A i \in DOMAIN v : ZpId(v, i) = A[i].id BY DEF ZpId, A
<1>8. QED BY <1>5, <1>6, <1>7 DEF ZpFilled, A

\* Ids that were written down are derived once more as they are.
LEMMA ZpFillsOnce ==
    ASSUME NEW s \in Zpc!Store, NEW v \in Seq(Zpc!Row(s))
    PROVE  /\ Zpc!AssignIds(Zpc!AssignIds(v)) = Zpc!AssignIds(v)
           /\ \A i \in DOMAIN v : ZpId(Zpc!AssignIds(v), i) = ZpId(v, i)
<1> DEFINE A == Zpc!AssignIds(v)
<1>1. A \in Seq(Zpc!Row(s)) /\ \A i \in DOMAIN A : ~Zpc!Nameless(A[i]) BY ZpFills DEF ZpFilled
<1>2. Zpc!AssignIds(A) = [i \in DOMAIN A |-> A[i]]
    <2> HIDE DEF A
    <2>1. QED BY <1>1, ZpUnfold
<1>3. Zpc!AssignIds(A) = A
    <2> HIDE DEF A
    <2>1. QED BY <1>1, <1>2
<1>4. QED BY <1>3 DEF ZpId

\* No two claims of a file are known by one id, but for what was written down so.
LEMMA ZpDiffer ==
    ASSUME NEW s \in Zpc!Store, NEW v \in Seq(Zpc!Row(s)),
           NEW i \in DOMAIN v, NEW j \in DOMAIN v, i # j, Zpc!IsClaim(v[i]), Zpc!IsClaim(v[j]),
           ZpId(v, i) = ZpId(v, j)
    PROVE  v[i].id # None /\ v[i].id = v[j].id /\ ZpId(v, i) = v[i].id
<1>1. Len(v) \in Nat /\ DOMAIN v = 1..Len(v) /\ \A k \in DOMAIN v : v[k] \in Zpc!Row(s) OBVIOUS
<1>2. ASSUME NEW k \in DOMAIN v, NEW l \in DOMAIN v, Zpc!IsClaim(v[k]), Zpc!IsClaim(v[l]),
             v[k].id = None, v[l].id # None
      PROVE  ZpId(v, k) # ZpId(v, l)
    <2>1. ZpIsNonce(v, k, ZpNonce(v, k)) BY <1>2, ZpNonceFound DEF Zpc!Nameless
    <2>2. Zpc!Id(v[k], ZpNonce(v, k)) \notin ZpStored(v) BY <2>1 DEF ZpIsNonce, ZpFree
    <2>3. v[l].id \in ZpStored(v) BY <1>2 DEF ZpStored, Zpc!ToSet
    <2>4. ZpId(v, k) = Zpc!Id(v[k], ZpNonce(v, k)) /\ ZpId(v, l) = v[l].id
        BY <1>2, ZpFills DEF ZpFilled
    <2>5. QED BY <2>2, <2>3, <2>4
<1>3. ASSUME NEW k \in DOMAIN v, NEW l \in DOMAIN v, k < l, Zpc!IsClaim(v[k]), Zpc!IsClaim(v[l]),
             v[k].id = None, v[l].id = None
      PROVE  ZpId(v, k) # ZpId(v, l)
    <2>1. /\ ZpNonce(v, k) \in Nat /\ ZpIsNonce(v, k, ZpNonce(v, k))
          /\ ZpNonce(v, l) \in Nat /\ ZpIsNonce(v, l, ZpNonce(v, l))
        BY <1>3, ZpNonceFound DEF Zpc!Nameless
    <2>2. /\ ZpId(v, k) = Zpc!Id(v[k], ZpNonce(v, k)) /\ ZpId(v, l) = Zpc!Id(v[l], ZpNonce(v, l))
        BY <1>3, ZpFills DEF ZpFilled
    <2>3. v[k] \in Zpc!ClaimRow(s) /\ v[l] \in Zpc!ClaimRow(s) BY <1>1, <1>3, ZpRows
    <2>4. SUFFICES ASSUME ZpId(v, k) = ZpId(v, l) PROVE FALSE OBVIOUS
    <2>5. Zpc!Content(v[k]) = Zpc!Content(v[l]) /\ ZpNonce(v, k) = ZpNonce(v, l)
        <3>1. Zpc!Id(v[k], ZpNonce(v, k)) = Zpc!Id(v[l], ZpNonce(v, l)) BY <2>2, <2>4
        <3>2. QED BY <3>1 DEF Zpc!Id
    <2>6. ZpFree(v, k) = ZpFree(v, l) BY <2>5 DEF ZpFree, Zpc!Id
    <2>7. Cardinality(ZpEarlier(v, k)) = Cardinality(ZpEarlier(v, l))
        BY <2>1, <2>5, <2>6 DEF ZpIsNonce
    <2>8. /\ ZpEarlier(v, k) \subseteq ZpEarlier(v, l) /\ k \in ZpEarlier(v, l)
          /\ k \notin ZpEarlier(v, k) /\ ZpEarlier(v, l) \subseteq 1..Len(v)
        <3>1. \A m \in 1..(k - 1) : m \in 1..(l - 1) BY <1>1, <1>3
        <3>2. k \in 1..(l - 1) /\ k \notin 1..(k - 1) BY <1>1, <1>3
        <3>3. \A m \in 1..(l - 1) : m \in 1..Len(v) BY <1>1
        <3>4. Zpc!Nameless(v[k]) BY <1>3 DEF Zpc!Nameless
        <3>5. QED BY <2>5, <3>1, <3>2, <3>3, <3>4 DEF ZpEarlier
    <2>9. IsFiniteSet(1..Len(v)) BY <1>1, FS_Interval
    <2>10. IsFiniteSet(ZpEarlier(v, l)) BY <2>8, <2>9, FS_Subset
    <2>11. ZpEarlier(v, k) = ZpEarlier(v, l) BY <2>7, <2>8, <2>10, FS_Subset
    <2>12. QED BY <2>8, <2>11
<1>4. v[i].id # None /\ v[j].id # None
    <2>1. i < j \/ j < i BY <1>1
    <2>2. QED BY <1>2, <1>3, <2>1
<1>5. ZpFilled(s, v, Zpc!AssignIds(v)) BY ZpFills
<1>6. ZpId(v, i) = v[i].id /\ ZpId(v, j) = v[j].id BY <1>4, <1>5 DEF ZpFilled
<1>7. QED BY <1>4, <1>6

\* A row keeps the id it is known by where the rows before it and the ids
\* written down in the file are, for it, the same.
LEMMA ZpSameNonce ==
    ASSUME NEW s \in Zpc!Store, NEW u \in Seq(Zpc!Row(s)), NEW v \in Seq(Zpc!Row(s)),
           NEW i \in DOMAIN u, i \in DOMAIN v, Len(u) <= Len(v),
           Zpc!Nameless(u[i]), v[i] = u[i], ZpEarlier(v, i) = ZpEarlier(u, i),
           \A k \in Nat : Zpc!Id(u[i], k) \in ZpStored(u) <=> Zpc!Id(u[i], k) \in ZpStored(v)
    PROVE  ZpId(u, i) = ZpId(v, i)
<1> DEFINE k == ZpNonce(u, i)
           l == ZpNonce(v, i)
           m == Len(u)
           n == Len(v)
           F == ZpFree(u, i)
           G == ZpFree(v, i)
<1>1. k \in Nat /\ ZpIsNonce(u, i, k) /\ l \in Nat /\ ZpIsNonce(v, i, l) BY ZpNonceFound
<1>2. /\ m \in Nat /\ n \in Nat /\ m <= n
      /\ F \subseteq 0..m /\ G \subseteq 0..n /\ F \subseteq G
      /\ \A x \in G : x <= m => x \in F
    BY DEF ZpFree
<1>3. /\ k \in F /\ l \in G
      /\ Cardinality({x \in F : x < k}) = Cardinality({x \in G : x < l})
    BY <1>1 DEF ZpIsNonce
<1> HIDE DEF k, l, m, n, F, G
<1>4. {x \in F : x < k} = {x \in G : x < k}
    <2>1. \A x \in G : x < k => x <= m BY <1>1, <1>2, <1>3
    <2>2. \A x : x \in F /\ x < k <=> x \in G /\ x < k BY <1>2, <2>1
    <2>3. QED BY <2>2
<1>5. Cardinality({x \in G : x < k}) = Cardinality({x \in G : x < l}) BY <1>3, <1>4
<1>6. k \in G BY <1>2, <1>3
<1>7. Cardinality({x \in G : x < k}) \in Nat
    <2>1. {x \in G : x < k} \in SUBSET (0..n) BY <1>2
    <2>2. IsFiniteSet(0..n) BY <1>2, FS_Interval
    <2>3. QED BY <2>1, <2>2, FS_Subset, FS_CardinalityType
<1>8. ~(k < l)
    <2>1. SUFFICES ASSUME k < l PROVE FALSE OBVIOUS
    <2>2. Cardinality({x \in G : x < k}) < Cardinality({x \in G : x < l})
        BY <1>2, <1>3, <1>6, <2>1, ZpRankedOnce
    <2>3. QED BY <1>5, <1>7, <2>2
<1>9. ~(l < k)
    <2>1. SUFFICES ASSUME l < k PROVE FALSE OBVIOUS
    <2>2. Cardinality({x \in G : x < l}) < Cardinality({x \in G : x < k})
        BY <1>2, <1>3, <1>6, <2>1, ZpRankedOnce
    <2>3. QED BY <1>5, <1>7, <2>2
<1>10. k = l BY <1>1, <1>8, <1>9
<1>11. ZpFilled(s, u, Zpc!AssignIds(u)) /\ ZpFilled(s, v, Zpc!AssignIds(v)) BY ZpFills
<1>12. ZpId(u, i) = Zpc!Id(u[i], k) /\ ZpId(v, i) = Zpc!Id(v[i], l)
    BY <1>11 DEF ZpFilled, Zpc!Nameless, k, l
<1>13. QED BY <1>10, <1>12

-----------------------------------------------------------------------------
(* Lines appended and renewed.                                            *)

\* What is appended without an id, or with one that no row without an id could take,
\* leaves the ids before it alone.
ZpAppended(s, v, r, w) ==
    /\ w \in Seq(Zpc!Row(s)) /\ Len(w) = Len(v) + 1 /\ DOMAIN w = 1..(Len(v) + 1)
    /\ w[Len(v) + 1] = r /\ Len(v) \in Nat /\ DOMAIN v = 1..Len(v)
    /\ \A i \in DOMAIN v : /\ i \in DOMAIN w /\ i # Len(v) + 1 /\ w[i] = v[i]
                           /\ Zpc!IsClaim(v[i]) => ZpId(w, i) = ZpId(v, i)
    /\ \A i \in DOMAIN w : i \in DOMAIN v \/ i = Len(v) + 1

\* Append does this to every file.
LEMMA ZpAppends ==
    ASSUME NEW s \in Zpc!Store, NEW v \in Seq(Zpc!Row(s)), NEW r \in Zpc!Row(s),
           (Zpc!IsClaim(r) /\ r.id # None)
              => \A i \in DOMAIN v : Zpc!Nameless(v[i]) => v[i].lesson # r.lesson
    PROVE  ZpAppended(s, v, r, Append(v, r))
<1> DEFINE w == Append(v, r)
           n == Len(v)
<1>1. /\ n \in Nat /\ DOMAIN v = 1..n /\ w \in Seq(Zpc!Row(s)) /\ Len(w) = n + 1
      /\ DOMAIN w = 1..(n + 1) /\ w[n + 1] = r /\ \A i \in 1..n : w[i] = v[i]
    OBVIOUS
<1>2. \A i \in 1..n : i \in 1..(n + 1) /\ i # n + 1 BY <1>1
<1>3. \A i \in 1..(n + 1) : i \in 1..n \/ i = n + 1 BY <1>1
<1> HIDE DEF w, n
<1>4. ZpStored(w) = ZpStored(v) \cup (IF Zpc!IsClaim(r) THEN {r.id} ELSE {})
    <2>1. Zpc!ToSet(w) = Zpc!ToSet(v) \cup {r}
        <3>1. Zpc!ToSet(w) = {w[i] : i \in 1..(n + 1)} /\ Zpc!ToSet(v) = {v[i] : i \in 1..n}
            BY <1>1 DEF Zpc!ToSet
        <3>2. ASSUME NEW x \in Zpc!ToSet(w) PROVE x \in Zpc!ToSet(v) \cup {r}
            <4>1. PICK i \in 1..(n + 1) : x = w[i] BY <3>1
            <4>2. QED BY <1>1, <1>3, <3>1, <4>1
        <3>3. ASSUME NEW x \in Zpc!ToSet(v) \cup {r} PROVE x \in Zpc!ToSet(w)
            <4>1. CASE x = r
                <5>1. n + 1 \in 1..(n + 1) BY <1>1
                <5>2. QED BY <1>1, <3>1, <4>1, <5>1
            <4>2. CASE x \in Zpc!ToSet(v)
                <5>1. PICK i \in 1..n : x = v[i] BY <3>1, <4>2
                <5>2. QED BY <1>1, <1>2, <3>1, <5>1
            <4>3. QED BY <4>1, <4>2
        <3>4. QED BY <3>2, <3>3
    <2>2. QED BY <2>1 DEF ZpStored
<1>5. ASSUME NEW i \in DOMAIN v, Zpc!IsClaim(v[i]) PROVE ZpId(w, i) = ZpId(v, i)
    <2>1. v \in Seq(Zpc!Row(s)) /\ i \in DOMAIN w /\ w[i] = v[i] /\ Len(v) <= Len(w)
        BY <1>1, <1>2 DEF n
    <2>2. v[i] \in Zpc!Row(s) OBVIOUS
    <2>3. CASE v[i].id # None
        <3>1. ZpFilled(s, v, Zpc!AssignIds(v)) /\ ZpFilled(s, w, Zpc!AssignIds(w))
            BY <1>1, ZpFills
        <3>2. ZpId(v, i) = v[i].id BY <1>5, <2>3, <3>1 DEF ZpFilled
        <3>3. ZpId(w, i) = w[i].id BY <1>5, <2>1, <2>3, <3>1 DEF ZpFilled
        <3>4. QED BY <2>1, <3>2, <3>3
    <2>4. CASE v[i].id = None
        <3>1. Zpc!Nameless(v[i]) BY <1>5, <2>4 DEF Zpc!Nameless
        <3>2. v[i] \in Zpc!ClaimRow(s) BY <1>5, <2>2, ZpRows
        <3>3. ZpEarlier(w, i) = ZpEarlier(v, i)
            <4>1. \A j \in 1..(i - 1) : w[j] = v[j] BY <1>1
            <4>2. QED BY <2>1, <4>1 DEF ZpEarlier
        <3>4. ASSUME NEW k \in Nat
              PROVE  Zpc!Id(v[i], k) \in ZpStored(v) <=> Zpc!Id(v[i], k) \in ZpStored(w)
            <4>1. SUFFICES ASSUME Zpc!IsClaim(r) PROVE Zpc!Id(v[i], k) # r.id BY <1>4
            <4>2. CASE r.id = None BY <3>2, <4>2, ZpIds
            <4>3. CASE r.id # None
                <5>1. v[i].lesson # r.lesson BY <3>1, <4>1, <4>3
                <5>2. r.id[1][1] = r.lesson BY <4>1, <4>3, ZpRows
                <5>3. Zpc!Id(v[i], k)[1][1] = v[i].lesson BY <3>2, ZpIds
                <5>4. QED BY <5>1, <5>2, <5>3
            <4>4. QED BY <4>2, <4>3
        <3>5. QED BY <1>1, <2>1, <3>1, <3>3, <3>4, ZpSameNonce
    <2>5. QED BY <2>3, <2>4
<1>6. QED BY <1>1, <1>2, <1>3, <1>5 DEF ZpAppended, w, n

\* Renewing the moments of the rows about a problem: only those of them that have no
\* id yet get another, which names the new moments.
ZpRenew(v, problem, fires) ==
    [i \in DOMAIN v |-> IF Zpc!IsClaim(v[i]) /\ Problem[v[i].lesson] = problem
                        THEN [v[i] EXCEPT !.fires = fires] ELSE v[i]]
ZpRenewed(v, problem, fires, w) ==
    /\ w \in Seq(Zpc!Row("global")) /\ DOMAIN w = DOMAIN v
    /\ \A i \in DOMAIN v :
          /\ w[i].n = v[i].n /\ w[i].kind = v[i].kind
          /\ ~Zpc!IsClaim(v[i]) => w[i] = v[i]
          /\ Zpc!IsClaim(v[i]) =>
                /\ w[i].lesson = v[i].lesson /\ w[i].id = v[i].id
                /\ \/ ZpId(w, i) = ZpId(v, i)
                   \/ /\ v[i].id = None /\ Problem[v[i].lesson] = problem
                      /\ ZpId(w, i)[1][2] = fires

\* So does the renewal of a destination.
LEMMA ZpRenews ==
    ASSUME NEW v \in Seq(Zpc!Row("global")), NEW problem, NEW fires \in When
    PROVE  ZpRenewed(v, problem, fires, ZpRenew(v, problem, fires))
<1> DEFINE w == ZpRenew(v, problem, fires)
           Same(r) == Zpc!IsClaim(r) /\ Problem[r.lesson] = problem
           F(r) == [r EXCEPT !.fires = fires]
<1>1. w = [i \in DOMAIN v |-> IF Same(v[i]) THEN F(v[i]) ELSE v[i]] BY DEF ZpRenew
<1>2. /\ "global" \in Zpc!Store /\ fires \in Zpc!Moments("global")
      /\ \A i \in DOMAIN v : v[i] \in Zpc!Row("global")
      /\ Len(v) \in Nat /\ DOMAIN v = 1..Len(v)
    BY DEF Zpc!Store, Zpc!Moments
<1>3. ASSUME NEW r \in Zpc!ClaimRow("global")
      PROVE  /\ F(r) \in Zpc!ClaimRow("global") /\ F(r).kind = r.kind /\ F(r).n = r.n
             /\ F(r).lesson = r.lesson /\ F(r).id = r.id /\ F(r).fires = fires
    BY <1>2 DEF Zpc!ClaimRow
<1> HIDE DEF F, w
<1>4. ASSUME NEW i \in DOMAIN v
      PROVE  /\ w[i] \in Zpc!Row("global") /\ w[i].n = v[i].n /\ w[i].kind = v[i].kind
             /\ ~Same(v[i]) => w[i] = v[i]
             /\ Zpc!IsClaim(v[i]) => w[i].lesson = v[i].lesson /\ w[i].id = v[i].id
             /\ Same(v[i]) => w[i].fires = fires
    <2>1. CASE Same(v[i])
        <3>1. v[i] \in Zpc!ClaimRow("global") BY <1>2, <2>1, ZpRows
        <3>2. w[i] = F(v[i]) BY <1>1, <2>1
        <3>3. QED BY <1>3, <2>1, <3>1, <3>2 DEF Zpc!Row
    <2>2. CASE ~Same(v[i])
        <3>1. w[i] = v[i] BY <1>1, <2>2
        <3>2. QED BY <1>2, <2>2, <3>1
    <2>3. QED BY <2>1, <2>2
<1>5. w \in Seq(Zpc!Row("global")) /\ DOMAIN w = DOMAIN v /\ Len(w) = Len(v)
    <2>1. DOMAIN w = DOMAIN v BY <1>1
    <2>2. w \in [1..Len(v) -> Zpc!Row("global")] BY <1>1, <1>2, <1>4
    <2>3. QED BY <1>2, <2>1, <2>2
<1>6. ZpStored(w) = ZpStored(v)
    <2>1. ZpStored(w) = {x : x \in {w[i].id : i \in {j \in DOMAIN w : Zpc!IsClaim(w[j])}}}
        BY DEF ZpStored, Zpc!ToSet
    <2>2. ZpStored(v) = {x : x \in {v[i].id : i \in {j \in DOMAIN v : Zpc!IsClaim(v[j])}}}
        BY DEF ZpStored, Zpc!ToSet
    <2>3. \A i \in DOMAIN v : /\ Zpc!IsClaim(v[i]) <=> Zpc!IsClaim(w[i])
                              /\ Zpc!IsClaim(v[i]) => w[i].id = v[i].id
        BY <1>4 DEF Zpc!IsClaim
    <2> HIDE DEF Same
    <2>4. QED BY <1>5, <2>1, <2>2, <2>3
<1>7. ZpFilled("global", v, Zpc!AssignIds(v)) /\ ZpFilled("global", w, Zpc!AssignIds(w))
    BY <1>2, <1>5, ZpFills
<1>8. ASSUME NEW i \in DOMAIN v, Zpc!IsClaim(v[i])
      PROVE  \/ ZpId(w, i) = ZpId(v, i)
             \/ v[i].id = None /\ Problem[v[i].lesson] = problem /\ ZpId(w, i)[1][2] = fires
    <2>1. Zpc!IsClaim(w[i]) /\ w[i].id = v[i].id /\ w[i].lesson = v[i].lesson
        BY <1>4, <1>8 DEF Zpc!IsClaim
    <2>2. CASE v[i].id # None
        <3>1. ZpId(v, i) = v[i].id BY <1>7, <1>8, <2>2 DEF ZpFilled
        <3>2. ZpId(w, i) = w[i].id BY <1>5, <1>7, <2>1, <2>2 DEF ZpFilled
        <3>3. QED BY <2>1, <3>1, <3>2
    <2>3. CASE v[i].id = None /\ Same(v[i])
        <3>1. ZpId(w, i) = Zpc!Id(w[i], ZpNonce(w, i)) BY <1>5, <1>7, <2>1, <2>3 DEF ZpFilled
        <3>2. w[i].fires = fires BY <1>4, <2>3
        <3>3. QED BY <2>3, <3>1, <3>2 DEF Zpc!Id, Zpc!Content
    <2>4. CASE v[i].id = None /\ ~Same(v[i])
        <3>1. w[i] = v[i] /\ Zpc!Nameless(v[i]) BY <1>4, <1>8, <2>4 DEF Zpc!Nameless
        <3>2. ASSUME NEW j \in DOMAIN v
              PROVE  (Zpc!Nameless(w[j]) /\ Zpc!Content(w[j]) = Zpc!Content(w[i]))
                 <=> (Zpc!Nameless(v[j]) /\ Zpc!Content(v[j]) = Zpc!Content(v[i]))
            <4>1. CASE ~Same(v[j])
                <5>1. w[j] = v[j] BY <1>4, <4>1
                <5>2. QED BY <3>1, <5>1
            <4>2. CASE Same(v[j])
                <5>1. w[j].lesson = v[j].lesson BY <1>4, <4>2
                <5>2. v[j].lesson # v[i].lesson BY <1>8, <2>4, <4>2
                <5>3. QED BY <2>1, <5>1, <5>2 DEF Zpc!Content
            <4>3. QED BY <4>1, <4>2
        <3>3. ZpEarlier(w, i) = ZpEarlier(v, i)
            <4>1. \A j \in 1..(i - 1) : j \in DOMAIN v BY <1>2
            <4> HIDE DEF Same
            <4>2. QED BY <3>2, <4>1 DEF ZpEarlier
        <3>4. ZpId(v, i) = ZpId(w, i) BY <1>2, <1>5, <1>6, <3>1, <3>3, ZpSameNonce
        <3>5. QED BY <3>4
    <2>5. QED BY <1>8, <2>2, <2>3, <2>4
<1>9. QED BY <1>4, <1>5, <1>8 DEF ZpRenewed, w

-----------------------------------------------------------------------------
(* Versions that differ in the ids written down.                          *)

\* The same lines with the same ids, some of which may have been written down.
ZpLike(s, u, v) ==
    /\ u \in Seq(Zpc!Row(s)) /\ v \in Seq(Zpc!Row(s)) /\ DOMAIN v = DOMAIN u
    /\ \A i \in DOMAIN u :
          /\ v[i].n = u[i].n /\ v[i].kind = u[i].kind
          /\ ~Zpc!IsClaim(u[i]) => v[i] = u[i]
          /\ Zpc!IsClaim(u[i]) => v[i].lesson = u[i].lesson /\ ZpId(v, i) = ZpId(u, i)
          /\ Zpc!Nameless(v[i]) => Zpc!Nameless(u[i])

\* A file is like itself, and like itself with its ids filled in.
LEMMA ZpLikeSelf ==
    ASSUME NEW s \in Zpc!Store, NEW v \in Seq(Zpc!Row(s))
    PROVE  ZpLike(s, v, v) /\ ZpLike(s, v, Zpc!AssignIds(v))
<1>1. ZpLike(s, v, v) BY DEF ZpLike
<1> DEFINE A == Zpc!AssignIds(v)
<1>2. ZpFilled(s, v, A) BY ZpFills
<1>3. \A i \in DOMAIN v : ZpId(A, i) = ZpId(v, i) BY ZpFillsOnce
<1> HIDE DEF A
<1>4. ZpLike(s, v, A) BY <1>2, <1>3 DEF ZpLike, ZpFilled
<1>5. QED BY <1>1, <1>4 DEF A

\* What holds of a version holds of one like it.
LEMMA ZpLikeOne ==
    ASSUME NEW s \in Zpc!Store, NEW u, NEW v, ZpLike(s, u, v)
    PROVE  /\ \A i \in DOMAIN u : Zpc!IsClaim(v[i]) <=> Zpc!IsClaim(u[i])
           /\ ZpLines(s, u) => ZpLines(s, v)
           /\ \A d : ZpUnlike(u, d) => ZpUnlike(v, d)
           /\ \A renamed, raced : ZpFresh(s, u, renamed, raced) => ZpFresh(s, v, renamed, raced)
           /\ \A t : ZpTellsTrue(u, t) => ZpTellsTrue(v, t)
           /\ \A f : /\ ZpGot(u, f) => ZpGot(v, f)
                     /\ ZpLacks(u, f) => ZpLacks(v, f)
                     /\ ZpSince(u, f) => ZpSince(v, f)
<1>1. \A i \in DOMAIN u : Zpc!IsClaim(v[i]) <=> Zpc!IsClaim(u[i]) BY DEF ZpLike, Zpc!IsClaim
<1>2. ZpLines(s, u) => ZpLines(s, v) BY DEF ZpLines, ZpLike
<1>3. ASSUME NEW d, ZpUnlike(u, d) PROVE ZpUnlike(v, d)
    <2>1. SUFFICES ASSUME NEW i \in DOMAIN v, NEW j \in DOMAIN v, Zpc!IsClaim(v[i]),
                          Zpc!IsClaim(v[j]), v[i].id = v[j].id, i # j, v[i].id # None
                   PROVE  v[i].id \in d
        BY DEF ZpUnlike
    <2>2. /\ i \in DOMAIN u /\ j \in DOMAIN u /\ Zpc!IsClaim(u[i]) /\ Zpc!IsClaim(u[j])
          /\ ZpId(v, i) = ZpId(u, i) /\ ZpId(v, j) = ZpId(u, j)
          /\ u \in Seq(Zpc!Row(s)) /\ v \in Seq(Zpc!Row(s))
        BY <1>1, <2>1 DEF ZpLike
    <2>3. ZpFilled(s, v, Zpc!AssignIds(v)) BY <2>2, ZpFills
    <2>4. ZpId(v, i) = v[i].id /\ ZpId(v, j) = v[j].id BY <2>1, <2>3 DEF ZpFilled
    <2>5. ZpId(u, i) = ZpId(u, j) BY <2>1, <2>2, <2>4
    <2>6. u[i].id # None /\ u[i].id = u[j].id /\ ZpId(u, i) = u[i].id
        BY <2>1, <2>2, <2>5, ZpDiffer
    <2>7. u[i].id \in d BY <1>3, <2>1, <2>2, <2>6 DEF ZpUnlike
    <2>8. QED BY <2>2, <2>4, <2>6, <2>7
<1>4. \A renamed, raced : ZpFresh(s, u, renamed, raced) => ZpFresh(s, v, renamed, raced)
    BY DEF ZpFresh, ZpLike
<1>5. \A t : ZpTellsTrue(u, t) => ZpTellsTrue(v, t) BY <1>1 DEF ZpTellsTrue, ZpLike
<1>6. ASSUME NEW f
      PROVE  /\ ZpGot(u, f) => ZpGot(v, f)
             /\ ZpLacks(u, f) => ZpLacks(v, f)
             /\ ZpSince(u, f) => ZpSince(v, f)
    <2>1. ASSUME ZpGot(u, f) PROVE ZpGot(v, f)
        <3>1. PICK i \in DOMAIN u : u[i].kind = "retracts" /\ u[i].of = f.id /\ u[i].n \in f.lines
            BY <2>1 DEF ZpGot
        <3>2. ~Zpc!IsClaim(u[i]) BY <3>1 DEF Zpc!IsClaim
        <3>3. i \in DOMAIN v /\ v[i] = u[i] BY <3>2 DEF ZpLike
        <3>4. QED BY <3>1, <3>3 DEF ZpGot
    <2>2. ZpLacks(u, f) => ZpLacks(v, f) BY <1>1 DEF ZpLacks, ZpLike
    <2>3. ZpSince(u, f) => ZpSince(v, f) BY <1>1 DEF ZpSince, ZpLike
    <2>4. QED BY <2>1, <2>2, <2>3
<1>7. QED BY <1>1, <1>2, <1>3, <1>4, <1>5, <1>6

\* Versions that agree do so with their ids filled in.
LEMMA ZpLikeAgree ==
    ASSUME NEW s \in Zpc!Store, NEW u, NEW v, ZpLike(s, u, v),
           NEW x, NEW y, ZpLike(s, x, y), NEW renamed, NEW raced, ZpAgree(u, x, renamed, raced)
    PROVE  ZpAgree(v, y, renamed, raced)
<1>1. \A i \in DOMAIN u : Zpc!IsClaim(v[i]) <=> Zpc!IsClaim(u[i]) BY ZpLikeOne
<1>2. \A i \in DOMAIN x : Zpc!IsClaim(y[i]) <=> Zpc!IsClaim(x[i]) BY ZpLikeOne
<1>3. /\ DOMAIN v = DOMAIN u /\ \A i \in DOMAIN u :
          v[i].n = u[i].n /\ (Zpc!IsClaim(u[i]) => v[i].lesson = u[i].lesson /\ ZpId(v, i) = ZpId(u, i))
      /\ DOMAIN y = DOMAIN x /\ \A i \in DOMAIN x :
          y[i].n = x[i].n /\ (Zpc!IsClaim(x[i]) => y[i].lesson = x[i].lesson /\ ZpId(y, i) = ZpId(x, i))
    BY DEF ZpLike
<1>4. ASSUME NEW i \in DOMAIN v, NEW j \in DOMAIN y, v[i].n = y[j].n
      PROVE  /\ Zpc!IsClaim(v[i]) <=> Zpc!IsClaim(y[j])
             /\ Zpc!IsClaim(v[i]) => /\ v[i].lesson = y[j].lesson
                                     /\ ZpId(v, i) = ZpId(y, j) \/ v[i].n \in renamed
    <2>1. i \in DOMAIN u /\ j \in DOMAIN x /\ u[i].n = x[j].n BY <1>3, <1>4
    <2>2. /\ Zpc!IsClaim(u[i]) <=> Zpc!IsClaim(x[j])
          /\ Zpc!IsClaim(u[i]) => /\ u[i].lesson = x[j].lesson
                                  /\ ZpId(u, i) = ZpId(x, j) \/ u[i].n \in renamed
        BY <2>1 DEF ZpAgree
    <2>3. QED BY <1>1, <1>2, <1>3, <2>1, <2>2
<1>5. ASSUME NEW i \in DOMAIN v PROVE v[i].n \in raced \/ \E j \in DOMAIN y : y[j].n = v[i].n
    <2>1. u[i].n \in raced \/ \E j \in DOMAIN x : x[j].n = u[i].n BY <1>3 DEF ZpAgree
    <2>2. QED BY <1>3, <2>1
<1>6. QED BY <1>4, <1>5 DEF ZpAgree

-----------------------------------------------------------------------------
\* What holds of the lines and numbers.
ZpCounted ==
    /\ zNext \in Nat /\ DOMAIN zFiles = Zpc!Store
    /\ zRaced \subseteq 1..zNext /\ zRenamed \subseteq 1..zNext
ZpBook == ZpCounted /\ ZpEach /\ ZpTogether /\ ZpApart /\ Zpc!LostHasCause

\* From one step to the next a row of a store is known by one id.
ZpKeepsIds ==
    \A s \in Zpc!Store : \A i \in DOMAIN zFiles[s], j \in DOMAIN zFiles'[s] :
        (/\ Zpc!IsClaim(zFiles[s][i]) /\ Zpc!IsClaim(zFiles'[s][j])
         /\ zFiles[s][i].n = zFiles'[s][j].n)
        => ZpId(zFiles[s], i) = ZpId(zFiles'[s], j) \/ zFiles[s][i].n \in zRenamed'

\* What is in a store is one of its versions.
LEMMA ZpFileIn == \A s \in Zpc!Store : zFiles[s] \in ZpVersions(s)
BY DEF ZpVersions

\* The numbers of the lines there are.
LEMMA ZpNumbers ==
    \A k : k \in Zpc!Lines <=> \E s \in Zpc!Store : \E i \in DOMAIN zFiles[s] : zFiles[s][i].n = k
<1>1. Zpc!Lines = UNION {{r.n : r \in {zFiles[s][i] : i \in DOMAIN zFiles[s]}} : s \in Zpc!Store}
    BY DEF Zpc!Lines, Zpc!ToSet
<1>2. QED BY <1>1

\* Reading, filling in and writing back.
ZpQuiet ==
    /\ zNext' = zNext /\ zRaced' = zRaced /\ zRenamed' = zRenamed /\ zDoubled' = zDoubled
    /\ DOMAIN zFiles' = Zpc!Store
    /\ \A s \in Zpc!Store : \A v \in ZpVersions(s)' : \E u \in ZpVersions(s) : ZpLike(s, u, v)

\* The lines and numbers stay well kept, and no row gets another id.
LEMMA ZpQuietBook ==
    ASSUME ZpBook, ZpQuiet
    PROVE  ZpBook' /\ ZpKeepsIds
<1>1. ZpCounted' BY DEF ZpBook, ZpCounted, ZpQuiet
<1>2. ZpEach'
    <2>1. SUFFICES ASSUME NEW s \in Zpc!Store, NEW v \in ZpVersions(s)'
                   PROVE  /\ ZpLines(s, v) /\ ZpUnlike(v, zDoubled)
                          /\ ZpFresh(s, v, zRenamed, zRaced)
                          /\ \A i \in DOMAIN v : v[i].n \in 1..zNext
        BY DEF ZpEach, ZpQuiet
    <2>2. PICK u \in ZpVersions(s) : ZpLike(s, u, v) BY DEF ZpQuiet
    <2>3. /\ ZpLines(s, u) /\ ZpUnlike(u, zDoubled) /\ ZpFresh(s, u, zRenamed, zRaced)
          /\ \A i \in DOMAIN u : u[i].n \in 1..zNext
        BY DEF ZpBook, ZpEach
    <2>4. \A i \in DOMAIN v : i \in DOMAIN u /\ v[i].n = u[i].n BY <2>2 DEF ZpLike
    <2>5. QED BY <2>2, <2>3, <2>4, ZpLikeOne
<1>3. ZpTogether'
    <2>1. SUFFICES ASSUME NEW s \in Zpc!Store, NEW v \in ZpVersions(s)', NEW y \in ZpVersions(s)'
                   PROVE  ZpAgree(v, y, zRenamed, zRaced)
        BY DEF ZpTogether, ZpQuiet
    <2>2. PICK u \in ZpVersions(s) : ZpLike(s, u, v) BY DEF ZpQuiet
    <2>3. PICK x \in ZpVersions(s) : ZpLike(s, x, y) BY DEF ZpQuiet
    <2>4. ZpAgree(u, x, zRenamed, zRaced) BY DEF ZpBook, ZpTogether
    <2>5. QED BY <2>2, <2>3, <2>4, ZpLikeAgree
<1>4. ZpApart'
    <2>1. SUFFICES ASSUME NEW v \in ZpVersions("project")', NEW y \in ZpVersions("global")',
                          NEW i \in DOMAIN v, NEW j \in DOMAIN y
                   PROVE  v[i].n # y[j].n
        BY DEF ZpApart
    <2>2. "project" \in Zpc!Store /\ "global" \in Zpc!Store BY DEF Zpc!Store
    <2>3. PICK u \in ZpVersions("project") : ZpLike("project", u, v) BY <2>2 DEF ZpQuiet
    <2>4. PICK x \in ZpVersions("global") : ZpLike("global", x, y) BY <2>2 DEF ZpQuiet
    <2>5. i \in DOMAIN u /\ j \in DOMAIN x /\ v[i].n = u[i].n /\ y[j].n = x[j].n
        BY <2>3, <2>4 DEF ZpLike
    <2>6. QED BY <2>5 DEF ZpBook, ZpApart
<1>5. \A s \in Zpc!Store : \A i \in DOMAIN zFiles[s] :
          zFiles[s][i].n \in zRaced \/ \E j \in DOMAIN zFiles'[s] : zFiles'[s][j].n = zFiles[s][i].n
    <2>1. SUFFICES ASSUME NEW s \in Zpc!Store, NEW i \in DOMAIN zFiles[s]
                   PROVE  \/ zFiles[s][i].n \in zRaced
                          \/ \E j \in DOMAIN zFiles'[s] : zFiles'[s][j].n = zFiles[s][i].n
        OBVIOUS
    <2>2. zFiles'[s] \in ZpVersions(s)' BY DEF ZpVersions
    <2>3. PICK u \in ZpVersions(s) : ZpLike(s, u, zFiles'[s]) BY <2>2 DEF ZpQuiet
    <2>4. ZpAgree(zFiles[s], u, zRenamed, zRaced) BY ZpFileIn DEF ZpBook, ZpTogether
    <2>5. zFiles[s][i].n \in zRaced \/ \E j \in DOMAIN u : u[j].n = zFiles[s][i].n
        BY <2>4 DEF ZpAgree
    <2>6. QED BY <2>3, <2>5 DEF ZpLike
<1>6. Zpc!LostHasCause'
    <2>1. SUFFICES ASSUME NEW k \in 1..zNext PROVE k \in Zpc!Lines' \/ k \in zRaced
        BY DEF Zpc!LostHasCause, ZpQuiet
    <2>2. k \in Zpc!Lines \/ k \in zRaced BY DEF ZpBook, Zpc!LostHasCause
    <2>3. ASSUME k \in Zpc!Lines PROVE k \in Zpc!Lines' \/ k \in zRaced
        <3>1. PICK s \in Zpc!Store : \E i \in DOMAIN zFiles[s] : zFiles[s][i].n = k BY <2>3, ZpNumbers
        <3>2. k \in zRaced \/ \E j \in DOMAIN zFiles'[s] : zFiles'[s][j].n = k BY <1>5, <3>1
        <3>3. Zpc!Lines' = UNION {{r.n : r \in {zFiles'[t][i] : i \in DOMAIN zFiles'[t]}} : t \in Zpc!Store}
            BY DEF Zpc!Lines, Zpc!ToSet
        <3>4. QED BY <3>2, <3>3
    <2>4. QED BY <2>2, <2>3
<1>7. ZpKeepsIds
    <2>1. SUFFICES ASSUME NEW s \in Zpc!Store, NEW i \in DOMAIN zFiles[s], NEW j \in DOMAIN zFiles'[s],
                          Zpc!IsClaim(zFiles[s][i]), Zpc!IsClaim(zFiles'[s][j]),
                          zFiles[s][i].n = zFiles'[s][j].n
                   PROVE  ZpId(zFiles[s], i) = ZpId(zFiles'[s], j) \/ zFiles[s][i].n \in zRenamed
        BY DEF ZpKeepsIds, ZpQuiet
    <2>2. zFiles'[s] \in ZpVersions(s)' BY DEF ZpVersions
    <2>3. PICK u \in ZpVersions(s) : ZpLike(s, u, zFiles'[s]) BY <2>2 DEF ZpQuiet
    <2>4. ZpAgree(zFiles[s], u, zRenamed, zRaced) /\ ZpLines(s, zFiles[s])
        BY ZpFileIn DEF ZpBook, ZpTogether, ZpEach
    <2>5. ZpLike(s, zFiles[s], zFiles[s]) BY <2>4, ZpLikeSelf DEF ZpLines
    <2>6. ZpAgree(zFiles[s], zFiles'[s], zRenamed, zRaced) BY <2>3, <2>4, <2>5, ZpLikeAgree
    <2>7. QED BY <2>1, <2>6 DEF ZpAgree
<1>8. QED BY <1>1, <1>2, <1>3, <1>4, <1>6, <1>7 DEF ZpBook

-----------------------------------------------------------------------------
(* A line more.                                                           *)

\* A line more at the end of a store.
ZpGrows(s, r) ==
    /\ r \in Zpc!Row(s) /\ r.n = zNext + 1 /\ zNext' = zNext + 1 /\ zRenamed' = zRenamed
    /\ zFiles' = [zFiles EXCEPT ![s] = Append(zFiles[s], r)]
    /\ zDoubled \subseteq zDoubled' /\ zRaced' \subseteq zRaced \cup {zNext + 1}
    /\ zRaced \subseteq zRaced'
    /\ zNext + 1 \in zRaced' \/ ZpVersions(s)' = {zFiles'[s]}
    /\ \A t \in Zpc!Store : ZpVersions(t)' \subseteq ZpVersions(t) \cup {zFiles'[t]}
    /\ (Zpc!IsClaim(r) /\ r.id # None)
       => \A i \in DOMAIN zFiles[s] : Zpc!IsClaim(zFiles[s][i]) =>
             /\ zFiles[s][i].id = None => zFiles[s][i].lesson # r.lesson
             /\ zFiles[s][i].id = r.id => r.id \in zDoubled'
    /\ s = "global" => ~Zpc!Nameless(r)

\* How a version follows from one of the step before.
ZpFollows(t, s, r, u, v) ==
    /\ \A i \in DOMAIN u : /\ i \in DOMAIN v /\ v[i] = u[i] /\ u[i].n \in 1..zNext
                           /\ Zpc!IsClaim(u[i]) => ZpId(v, i) = ZpId(u, i)
    /\ \A i \in DOMAIN v : i \in DOMAIN u \/ (/\ t = s /\ v = zFiles'[s] /\ v[i] = r
                                              /\ i = Len(zFiles[s]) + 1)

\* What a line more makes of each version.
LEMMA ZpGrown ==
    ASSUME ZpBook, NEW s \in Zpc!Store, NEW r, ZpGrows(s, r)
    PROVE  /\ ZpAppended(s, zFiles[s], r, zFiles'[s])
           /\ \A t \in Zpc!Store :
                /\ t # s => zFiles'[t] = zFiles[t]
                /\ \A v \in ZpVersions(t)' :
                     v \in ZpVersions(t) \/ (t = s /\ v = zFiles'[s])
                /\ \A v \in ZpVersions(t)' : \E u \in ZpVersions(t) : ZpFollows(t, s, r, u, v)
           /\ \A t \in Zpc!Store : ZpFollows(t, s, r, zFiles[t], zFiles'[t])
<1>1. zFiles[s] \in Seq(Zpc!Row(s)) BY ZpFileIn DEF ZpBook, ZpEach, ZpLines
<1>2. zFiles'[s] = Append(zFiles[s], r) /\ \A t \in Zpc!Store : t # s => zFiles'[t] = zFiles[t]
    BY DEF ZpGrows, ZpBook, ZpCounted
<1>3. ZpAppended(s, zFiles[s], r, zFiles'[s])
    <2>1. (Zpc!IsClaim(r) /\ r.id # None)
              => \A i \in DOMAIN zFiles[s] : Zpc!Nameless(zFiles[s][i]) => zFiles[s][i].lesson # r.lesson
        BY DEF ZpGrows, Zpc!Nameless
    <2>2. r \in Zpc!Row(s) BY DEF ZpGrows
    <2>3. ZpAppended(s, zFiles[s], r, Append(zFiles[s], r)) BY <1>1, <2>1, <2>2, ZpAppends
    <2>4. QED BY <1>2, <2>3
<1>4. ASSUME NEW t \in Zpc!Store, NEW v \in ZpVersions(t)'
      PROVE  v \in ZpVersions(t) \/ (t = s /\ v = zFiles'[s])
    <2>1. v \in ZpVersions(t) \/ v = zFiles'[t] BY DEF ZpGrows
    <2>2. QED BY <1>2, <2>1, ZpFileIn
<1>5. \A t \in Zpc!Store : \A u \in ZpVersions(t) :
          ZpFollows(t, s, r, u, u)
    BY DEF ZpFollows, ZpBook, ZpEach
<1>6. ZpFollows(s, s, r, zFiles[s], zFiles'[s])
    <2>1. \A i \in DOMAIN zFiles[s] : zFiles[s][i].n \in 1..zNext
        BY ZpFileIn DEF ZpBook, ZpEach
    <2>2. QED BY <1>3, <2>1 DEF ZpAppended, ZpFollows
<1>7. ASSUME NEW t \in Zpc!Store, NEW v \in ZpVersions(t)'
      PROVE  \E u \in ZpVersions(t) : ZpFollows(t, s, r, u, v)
    BY <1>4, <1>5, <1>6, <1>7, ZpFileIn
<1>8. ASSUME NEW t \in Zpc!Store PROVE ZpFollows(t, s, r, zFiles[t], zFiles'[t])
    BY <1>2, <1>5, <1>6, ZpFileIn
<1>9. QED BY <1>2, <1>3, <1>4, <1>7, <1>8

\* Versions that follow from ones that agree do so, too, or the line is on record as raced.
LEMMA ZpFollowsAgree ==
    ASSUME ZpBook, NEW s \in Zpc!Store, NEW r, ZpGrows(s, r), NEW t \in Zpc!Store,
           NEW u, NEW v, NEW x, NEW y, ZpFollows(t, s, r, u, v), ZpFollows(t, s, r, x, y),
           ZpAgree(u, x, zRenamed, zRaced), t # s \/ zNext + 1 \in zRaced' \/ y = zFiles'[s]
    PROVE  ZpAgree(v, y, zRenamed', zRaced')
<1>1. zNext \in Nat /\ r.n = zNext + 1 /\ zRenamed' = zRenamed /\ zRaced \subseteq zRaced'
    BY DEF ZpBook, ZpCounted, ZpGrows
<1>2. ASSUME NEW i \in DOMAIN v, NEW j \in DOMAIN y, v[i].n = y[j].n
      PROVE  /\ Zpc!IsClaim(v[i]) <=> Zpc!IsClaim(y[j])
             /\ Zpc!IsClaim(v[i]) => /\ v[i].lesson = y[j].lesson
                                     /\ ZpId(v, i) = ZpId(y, j) \/ v[i].n \in zRenamed
    <2>1. CASE i \in DOMAIN u /\ j \in DOMAIN x
        <3>1. /\ v[i] = u[i] /\ y[j] = x[j]
              /\ Zpc!IsClaim(u[i]) => ZpId(v, i) = ZpId(u, i)
              /\ Zpc!IsClaim(x[j]) => ZpId(y, j) = ZpId(x, j)
            BY <2>1 DEF ZpFollows
        <3>2. /\ Zpc!IsClaim(u[i]) <=> Zpc!IsClaim(x[j])
              /\ Zpc!IsClaim(u[i]) => /\ u[i].lesson = x[j].lesson
                                      /\ ZpId(u, i) = ZpId(x, j) \/ u[i].n \in zRenamed
            BY <1>2, <2>1, <3>1 DEF ZpAgree
        <3>3. QED BY <3>1, <3>2
    <2>2. CASE i \in DOMAIN u /\ j \notin DOMAIN x
        <3>1. v[i].n \in 1..zNext /\ y[j] = r BY <2>2 DEF ZpFollows
        <3>2. QED BY <1>1, <1>2, <3>1
    <2>3. CASE i \notin DOMAIN u /\ j \in DOMAIN x
        <3>1. y[j].n \in 1..zNext /\ v[i] = r BY <2>3 DEF ZpFollows
        <3>2. QED BY <1>1, <1>2, <3>1
    <2>4. CASE i \notin DOMAIN u /\ j \notin DOMAIN x
        <3>1. v = y /\ i = j BY <2>4 DEF ZpFollows
        <3>2. QED BY <3>1
    <2>5. QED BY <2>1, <2>2, <2>3, <2>4
<1>3. ASSUME NEW i \in DOMAIN v PROVE v[i].n \in zRaced' \/ \E j \in DOMAIN y : y[j].n = v[i].n
    <2>1. CASE i \in DOMAIN u
        <3>1. v[i] = u[i] BY <2>1 DEF ZpFollows
        <3>2. u[i].n \in zRaced \/ \E j \in DOMAIN x : x[j].n = u[i].n BY <2>1 DEF ZpAgree
        <3>3. \A j \in DOMAIN x : j \in DOMAIN y /\ y[j] = x[j] BY DEF ZpFollows
        <3>4. QED BY <1>1, <3>1, <3>2, <3>3
    <2>2. CASE i \notin DOMAIN u
        <3>1. t = s /\ v = zFiles'[s] /\ v[i] = r BY <2>2 DEF ZpFollows
        <3>2. CASE zNext + 1 \in zRaced' BY <1>1, <3>1, <3>2
        <3>3. CASE y = zFiles'[s] BY <3>1, <3>3
        <3>4. QED BY <3>1, <3>2, <3>3
    <2>3. QED BY <2>1, <2>2
<1>4. QED BY <1>1, <1>2, <1>3 DEF ZpAgree

\* A line more leaves the stores well kept and no row with another id.
LEMMA ZpGrowsBook ==
    ASSUME ZpBook, NEW s \in Zpc!Store, NEW r, ZpGrows(s, r)
    PROVE  ZpBook' /\ ZpKeepsIds
<1>1. /\ zNext \in Nat /\ zNext' = zNext + 1 /\ r.n = zNext + 1 /\ zRenamed' = zRenamed
      /\ zDoubled \subseteq zDoubled' /\ r \in Zpc!Row(s)
      /\ zRaced \subseteq zRaced' /\ zRaced' \subseteq zRaced \cup {zNext + 1}
      /\ zRaced \subseteq 1..zNext /\ zRenamed \subseteq 1..zNext
    BY DEF ZpBook, ZpCounted, ZpGrows
<1>0. \A k \in 1..zNext : k \in 1..(zNext + 1) /\ k # zNext + 1 BY <1>1
<1>2. ZpCounted'
    <2>1. zNext' \in Nat /\ zNext + 1 \in 1..zNext' BY <1>1
    <2>2. DOMAIN zFiles' = Zpc!Store BY DEF ZpBook, ZpCounted, ZpGrows
    <2>3. QED BY <1>0, <1>1, <2>1, <2>2 DEF ZpCounted
<1>3. ASSUME NEW t \in Zpc!Store, NEW v \in ZpVersions(t)'
      PROVE  /\ ZpLines(t, v) /\ ZpUnlike(v, zDoubled') /\ ZpFresh(t, v, zRenamed', zRaced')
             /\ \A i \in DOMAIN v : v[i].n \in 1..zNext'
    <2>1. CASE v \in ZpVersions(t)
        <3>1. /\ ZpLines(t, v) /\ ZpUnlike(v, zDoubled) /\ ZpFresh(t, v, zRenamed, zRaced)
              /\ \A i \in DOMAIN v : v[i].n \in 1..zNext
            BY <2>1 DEF ZpBook, ZpEach
        <3>2. ZpUnlike(v, zDoubled') BY <1>1, <3>1 DEF ZpUnlike
        <3>3. \A i \in DOMAIN v : v[i].n \notin zRaced => v[i].n \notin zRaced'
            BY <1>0, <1>1, <3>1
        <3>4. ZpFresh(t, v, zRenamed', zRaced') BY <1>1, <3>1, <3>3 DEF ZpFresh
        <3>5. QED BY <1>0, <1>1, <3>1, <3>2, <3>4
    <2>2. CASE t = s /\ v = zFiles'[s]
        <3> DEFINE u == zFiles[s]
        <3>1. ZpAppended(s, u, r, v) BY <2>2, ZpGrown
        <3>2. /\ ZpLines(s, u) /\ ZpUnlike(u, zDoubled) /\ ZpFresh(s, u, zRenamed, zRaced)
              /\ \A i \in DOMAIN u : u[i].n \in 1..zNext
            BY ZpFileIn DEF ZpBook, ZpEach
        <3>3. \A i \in DOMAIN v : (i \in DOMAIN u /\ v[i] = u[i]) \/ (i = Len(u) + 1 /\ v[i] = r)
            BY <3>1 DEF ZpAppended
        <3>4. /\ (Zpc!IsClaim(r) /\ r.id # None)
                 => \A i \in DOMAIN u : Zpc!IsClaim(u[i]) => (u[i].id = r.id => r.id \in zDoubled')
              /\ s = "global" => ~Zpc!Nameless(r)
            BY DEF ZpGrows
        <3> HIDE DEF u
        <3>5. \A i \in DOMAIN v : v[i].n \in 1..zNext'
            <4>1. r.n \in 1..zNext' BY <1>1
            <4>2. QED BY <1>0, <1>1, <3>2, <3>3, <4>1
        <3>6. ZpLines(s, v)
            <4>1. v \in Seq(Zpc!Row(s)) BY <3>1 DEF ZpAppended
            <4>2. ASSUME NEW i \in DOMAIN v, NEW j \in DOMAIN v, v[i].n = v[j].n PROVE i = j
                <5>1. CASE i \in DOMAIN u /\ v[i] = u[i] /\ j \in DOMAIN u /\ v[j] = u[j]
                    BY <3>2, <4>2, <5>1 DEF ZpLines
                <5>2. CASE i \in DOMAIN u /\ v[i] = u[i] /\ v[j] = r BY <1>0, <1>1, <3>2, <4>2, <5>2
                <5>3. CASE j \in DOMAIN u /\ v[j] = u[j] /\ v[i] = r BY <1>0, <1>1, <3>2, <4>2, <5>3
                <5>4. QED BY <3>3, <5>1, <5>2, <5>3
            <4>3. QED BY <4>1, <4>2 DEF ZpLines
        <3>7. ZpUnlike(v, zDoubled')
            <4>1. SUFFICES ASSUME NEW i \in DOMAIN v, NEW j \in DOMAIN v, Zpc!IsClaim(v[i]),
                              Zpc!IsClaim(v[j]), v[i].id = v[j].id, i # j, v[i].id # None
                       PROVE  v[i].id \in zDoubled'
                BY DEF ZpUnlike
            <4>2. CASE i \in DOMAIN u /\ v[i] = u[i] /\ j \in DOMAIN u /\ v[j] = u[j]
                BY <1>1, <3>2, <4>1, <4>2 DEF ZpUnlike
            <4>3. CASE i \in DOMAIN u /\ v[i] = u[i] /\ v[j] = r BY <3>4, <4>1, <4>3
            <4>4. CASE j \in DOMAIN u /\ v[j] = u[j] /\ v[i] = r BY <3>4, <4>1, <4>4
            <4>5. QED BY <3>3, <4>1, <4>2, <4>3, <4>4
        <3>8. ZpFresh(s, v, zRenamed', zRaced')
            <4>1. SUFFICES ASSUME NEW i \in DOMAIN v
                           PROVE  IF s = "global" THEN Zpc!Nameless(v[i]) => v[i].n \notin zRaced'
                                  ELSE v[i].n \notin zRenamed'
                BY DEF ZpFresh
            <4>2. CASE i \in DOMAIN u /\ v[i] = u[i]
                <5>1. v[i].n # zNext + 1 BY <1>0, <3>2, <4>2
                <5>2. QED BY <1>1, <3>2, <4>2, <5>1 DEF ZpFresh
            <4>3. CASE v[i] = r BY <1>0, <1>1, <3>4, <4>3
            <4>4. QED BY <3>3, <4>2, <4>3
        <3>9. QED BY <2>2, <3>5, <3>6, <3>7, <3>8
    <2>3. QED BY <2>1, <2>2, <1>3, ZpGrown
<1>4. ZpEach' BY <1>3 DEF ZpEach
<1>5. ZpTogether'
    <2>1. SUFFICES ASSUME NEW t \in Zpc!Store, NEW v \in ZpVersions(t)', NEW y \in ZpVersions(t)'
                   PROVE  ZpAgree(v, y, zRenamed', zRaced')
        BY DEF ZpTogether
    <2>2. PICK u \in ZpVersions(t) : ZpFollows(t, s, r, u, v) BY ZpGrown
    <2>3. PICK x \in ZpVersions(t) : ZpFollows(t, s, r, x, y) BY ZpGrown
    <2>4. ZpAgree(u, x, zRenamed, zRaced) BY DEF ZpBook, ZpTogether
    <2>5. t # s \/ zNext + 1 \in zRaced' \/ y = zFiles'[s] BY DEF ZpGrows
    <2>6. QED BY <2>2, <2>3, <2>4, <2>5, ZpFollowsAgree
<1>6. ZpApart'
    <2>1. SUFFICES ASSUME NEW v \in ZpVersions("project")', NEW y \in ZpVersions("global")',
                          NEW i \in DOMAIN v, NEW j \in DOMAIN y, v[i].n = y[j].n
                   PROVE  FALSE
        BY DEF ZpApart
    <2>2. "project" \in Zpc!Store /\ "global" \in Zpc!Store BY DEF Zpc!Store
    <2>3. PICK u \in ZpVersions("project") : ZpFollows("project", s, r, u, v) BY <2>2, ZpGrown
    <2>4. PICK x \in ZpVersions("global") : ZpFollows("global", s, r, x, y) BY <2>2, ZpGrown
    <2>5. CASE i \in DOMAIN u /\ j \in DOMAIN x
        <3>1. v[i] = u[i] /\ y[j] = x[j] BY <2>3, <2>4, <2>5 DEF ZpFollows
        <3>2. QED BY <2>1, <2>5, <3>1 DEF ZpBook, ZpApart
    <2>6. CASE i \in DOMAIN u /\ j \notin DOMAIN x
        <3>1. v[i].n \in 1..zNext /\ y[j] = r BY <2>3, <2>4, <2>6 DEF ZpFollows
        <3>2. QED BY <1>0, <1>1, <2>1, <3>1
    <2>7. CASE i \notin DOMAIN u /\ j \in DOMAIN x
        <3>1. y[j].n \in 1..zNext /\ v[i] = r BY <2>3, <2>4, <2>7 DEF ZpFollows
        <3>2. QED BY <1>0, <1>1, <2>1, <3>1
    <2>8. CASE i \notin DOMAIN u /\ j \notin DOMAIN x
        <3>1. s = "project" /\ s = "global" BY <2>3, <2>4, <2>8 DEF ZpFollows
        <3>2. QED BY <3>1
    <2>9. QED BY <2>5, <2>6, <2>7, <2>8
<1>7. Zpc!LostHasCause'
    <2>1. SUFFICES ASSUME NEW k \in 1..(zNext + 1) PROVE k \in Zpc!Lines' \/ k \in zRaced'
        BY <1>1 DEF Zpc!LostHasCause
    <2>2. Zpc!Lines' = UNION {{q.n : q \in {zFiles'[t][i] : i \in DOMAIN zFiles'[t]}} : t \in Zpc!Store}
        BY DEF Zpc!Lines, Zpc!ToSet
    <2>3. CASE k = zNext + 1
        <3>1. Len(zFiles[s]) + 1 \in DOMAIN zFiles'[s] /\ zFiles'[s][Len(zFiles[s]) + 1] = r
            BY ZpGrown DEF ZpAppended
        <3>2. QED BY <1>1, <2>2, <2>3, <3>1
    <2>4. CASE k \in 1..zNext
        <3>1. k \in Zpc!Lines \/ k \in zRaced BY <2>4 DEF ZpBook, Zpc!LostHasCause
        <3>2. ASSUME k \in Zpc!Lines PROVE k \in Zpc!Lines'
            <4>1. PICK t \in Zpc!Store : \E i \in DOMAIN zFiles[t] : zFiles[t][i].n = k
                BY <3>2, ZpNumbers
            <4>2. \A i \in DOMAIN zFiles[t] : i \in DOMAIN zFiles'[t] /\ zFiles'[t][i] = zFiles[t][i]
                BY ZpGrown DEF ZpFollows
            <4>3. QED BY <2>2, <4>1, <4>2
        <3>3. QED BY <1>1, <3>1, <3>2
    <2>5. QED BY <1>1, <2>3, <2>4
<1>8. ZpKeepsIds
    <2>1. SUFFICES ASSUME NEW t \in Zpc!Store, NEW i \in DOMAIN zFiles[t], NEW j \in DOMAIN zFiles'[t],
                          Zpc!IsClaim(zFiles[t][i]), Zpc!IsClaim(zFiles'[t][j]),
                          zFiles[t][i].n = zFiles'[t][j].n
                   PROVE  ZpId(zFiles[t], i) = ZpId(zFiles'[t], j) \/ zFiles[t][i].n \in zRenamed
        BY <1>1 DEF ZpKeepsIds
    <2>2. ZpFollows(t, s, r, zFiles[t], zFiles'[t]) BY ZpGrown
    <2>3. ZpLines(t, zFiles[t]) BY ZpFileIn DEF ZpBook, ZpEach
    <2>4. CASE j \in DOMAIN zFiles[t]
        <3>1. zFiles'[t][j] = zFiles[t][j] BY <2>2, <2>4 DEF ZpFollows
        <3>2. i = j BY <2>1, <2>3, <2>4, <3>1 DEF ZpLines
        <3>3. QED BY <2>1, <2>2, <2>4, <3>2 DEF ZpFollows
    <2>5. CASE j \notin DOMAIN zFiles[t]
        <3>1. zFiles'[t][j] = r /\ zFiles[t][i].n \in 1..zNext BY <2>2, <2>5 DEF ZpFollows
        <3>2. QED BY <1>0, <1>1, <2>1, <3>1
    <2>6. QED BY <2>4, <2>5
<1>9. QED BY <1>2, <1>4, <1>5, <1>6, <1>7, <1>8 DEF ZpBook

-----------------------------------------------------------------------------
(* Rows renewed.                                                          *)

\* Rows of the machine's store renewed in a version of it that was read.
ZpNewly(v, problem) == {v[i].n : i \in {j \in DOMAIN v : /\ Zpc!Nameless(v[j])
                                                         /\ Problem[v[j].lesson] = problem}}
ZpRenewal(u, problem, fires) ==
    /\ u \in ZpVersions("global") /\ fires \in When
    /\ zFiles' = [zFiles EXCEPT !["global"] = ZpRenew(u, problem, fires)]
    /\ zNext' = zNext /\ zRaced' = zRaced /\ zDoubled \subseteq zDoubled'
    /\ zRenamed' = zRenamed \cup ZpNewly(u, problem)
    /\ \A t \in Zpc!Store : ZpVersions(t)' \subseteq ZpVersions(t) \cup {zFiles'[t]}

\* How a version follows from one of the step before.
ZpBecame(u, v) ==
    /\ DOMAIN v = DOMAIN u
    /\ \A i \in DOMAIN u :
          /\ v[i].n = u[i].n /\ (Zpc!IsClaim(v[i]) <=> Zpc!IsClaim(u[i]))
          /\ Zpc!IsClaim(u[i]) => /\ v[i].lesson = u[i].lesson
                                  /\ ZpId(v, i) = ZpId(u, i) \/ u[i].n \in zRenamed'

\* What a renewal makes of each version.
LEMMA ZpRenewalMakes ==
    ASSUME ZpBook, NEW u, NEW problem, NEW fires, ZpRenewal(u, problem, fires)
    PROVE  /\ ZpRenewed(u, problem, fires, zFiles'["global"])
           /\ zFiles'["project"] = zFiles["project"]
           /\ ZpBecame(u, zFiles'["global"])
           /\ \A t \in Zpc!Store : \A v \in ZpVersions(t)' :
                /\ v \in ZpVersions(t) \/ (t = "global" /\ v = zFiles'["global"])
                /\ \E x \in ZpVersions(t) : ZpBecame(x, v)
<1>1. "global" \in Zpc!Store /\ "project" \in Zpc!Store /\ u \in ZpVersions("global")
    BY DEF Zpc!Store, ZpRenewal
<1>2. u \in Seq(Zpc!Row("global")) BY <1>1 DEF ZpBook, ZpEach, ZpLines
<1>3. /\ zFiles'["global"] = ZpRenew(u, problem, fires)
      /\ zFiles'["project"] = zFiles["project"]
    BY <1>1 DEF ZpRenewal, ZpBook, ZpCounted
<1>4. ZpRenewed(u, problem, fires, zFiles'["global"]) BY <1>2, <1>3, ZpRenews DEF ZpRenewal
<1>5. ZpBecame(u, zFiles'["global"])
    <2> DEFINE w == zFiles'["global"]
    <2>1. \A i \in DOMAIN u : Zpc!IsClaim(w[i]) <=> Zpc!IsClaim(u[i])
        BY <1>4 DEF ZpRenewed, Zpc!IsClaim
    <2>2. ASSUME NEW i \in DOMAIN u, Zpc!IsClaim(u[i]), u[i].id = None,
                 Problem[u[i].lesson] = problem
          PROVE  u[i].n \in zRenamed'
        <3>1. u[i].n \in ZpNewly(u, problem) BY <2>2 DEF ZpNewly, Zpc!Nameless
        <3>2. QED BY <3>1 DEF ZpRenewal
    <2>3. QED BY <1>4, <2>1, <2>2 DEF ZpRenewed, ZpBecame
<1>6. \A x : ZpBecame(x, x) BY DEF ZpBecame
<1>7. ASSUME NEW t \in Zpc!Store, NEW v \in ZpVersions(t)'
      PROVE  v \in ZpVersions(t) \/ (t = "global" /\ v = zFiles'["global"])
    <2>1. v \in ZpVersions(t) \/ v = zFiles'[t] BY DEF ZpRenewal
    <2>2. t = "global" \/ t = "project" BY DEF Zpc!Store
    <2>3. QED BY <1>3, <2>1, <2>2, ZpFileIn
<1>8. ASSUME NEW t \in Zpc!Store, NEW v \in ZpVersions(t)'
      PROVE  \E x \in ZpVersions(t) : ZpBecame(x, v)
    BY <1>1, <1>5, <1>6, <1>7
<1>9. QED BY <1>3, <1>4, <1>5, <1>7, <1>8

\* Versions that agreed do so after a renewal, but for the rows it renamed.
LEMMA ZpBecameAgree ==
    ASSUME zRenamed \subseteq zRenamed', NEW u, NEW v, NEW x, NEW y,
           ZpBecame(u, v), ZpBecame(x, y), ZpAgree(u, x, zRenamed, zRaced)
    PROVE  ZpAgree(v, y, zRenamed', zRaced)
<1>1. ASSUME NEW i \in DOMAIN v, NEW j \in DOMAIN y, v[i].n = y[j].n
      PROVE  /\ Zpc!IsClaim(v[i]) <=> Zpc!IsClaim(y[j])
             /\ Zpc!IsClaim(v[i]) => /\ v[i].lesson = y[j].lesson
                                     /\ ZpId(v, i) = ZpId(y, j) \/ v[i].n \in zRenamed'
    <2>1. i \in DOMAIN u /\ j \in DOMAIN x /\ u[i].n = x[j].n BY <1>1 DEF ZpBecame
    <2>2. /\ Zpc!IsClaim(u[i]) <=> Zpc!IsClaim(x[j])
          /\ Zpc!IsClaim(u[i]) => /\ u[i].lesson = x[j].lesson
                                  /\ ZpId(u, i) = ZpId(x, j) \/ u[i].n \in zRenamed
        BY <2>1 DEF ZpAgree
    <2>3. /\ v[i].n = u[i].n /\ (Zpc!IsClaim(v[i]) <=> Zpc!IsClaim(u[i]))
          /\ Zpc!IsClaim(u[i]) => /\ v[i].lesson = u[i].lesson
                                  /\ ZpId(v, i) = ZpId(u, i) \/ u[i].n \in zRenamed'
        BY <2>1 DEF ZpBecame
    <2>4. /\ y[j].n = x[j].n /\ (Zpc!IsClaim(y[j]) <=> Zpc!IsClaim(x[j]))
          /\ Zpc!IsClaim(x[j]) => /\ y[j].lesson = x[j].lesson
                                  /\ ZpId(y, j) = ZpId(x, j) \/ x[j].n \in zRenamed'
        BY <2>1 DEF ZpBecame
    <2>5. QED BY <2>1, <2>2, <2>3, <2>4
<1>2. ASSUME NEW i \in DOMAIN v PROVE v[i].n \in zRaced \/ \E j \in DOMAIN y : y[j].n = v[i].n
    <2>1. i \in DOMAIN u /\ v[i].n = u[i].n BY DEF ZpBecame
    <2>2. u[i].n \in zRaced \/ \E j \in DOMAIN x : x[j].n = u[i].n BY <2>1 DEF ZpAgree
    <2>3. \A j \in DOMAIN x : j \in DOMAIN y /\ y[j].n = x[j].n BY DEF ZpBecame
    <2>4. QED BY <2>1, <2>2, <2>3
<1>3. QED BY <1>1, <1>2 DEF ZpAgree

\* A renewal leaves the stores well kept, and renames only what it has on record.
LEMMA ZpRenewalBook ==
    ASSUME ZpBook, NEW u, NEW problem, NEW fires, ZpRenewal(u, problem, fires)
    PROVE  ZpBook' /\ ZpKeepsIds
<1>1. /\ zNext' = zNext /\ zRaced' = zRaced /\ zDoubled \subseteq zDoubled'
      /\ zRenamed' = zRenamed \cup ZpNewly(u, problem) /\ zRenamed \subseteq zRenamed'
      /\ u \in ZpVersions("global")
    BY DEF ZpRenewal
<1>2. "global" \in Zpc!Store /\ "project" \in Zpc!Store BY DEF Zpc!Store
<1>3. \A k \in ZpNewly(u, problem) : \E i \in DOMAIN u : k = u[i].n BY DEF ZpNewly
<1>4. ZpCounted'
    <2>1. \A i \in DOMAIN u : u[i].n \in 1..zNext BY <1>1, <1>2 DEF ZpBook, ZpEach
    <2>2. ZpNewly(u, problem) \subseteq 1..zNext BY <1>3, <2>1
    <2>3. DOMAIN zFiles' = Zpc!Store BY DEF ZpBook, ZpCounted, ZpRenewal
    <2>4. QED BY <1>1, <2>2, <2>3 DEF ZpBook, ZpCounted
<1>5. ASSUME NEW t \in Zpc!Store, NEW v \in ZpVersions(t)'
      PROVE  /\ ZpLines(t, v) /\ ZpUnlike(v, zDoubled') /\ ZpFresh(t, v, zRenamed', zRaced)
             /\ \A i \in DOMAIN v : v[i].n \in 1..zNext
    <2>1. CASE v \in ZpVersions(t)
        <3>1. /\ ZpLines(t, v) /\ ZpUnlike(v, zDoubled) /\ ZpFresh(t, v, zRenamed, zRaced)
              /\ \A i \in DOMAIN v : v[i].n \in 1..zNext
            BY <2>1 DEF ZpBook, ZpEach
        <3>2. ZpUnlike(v, zDoubled') BY <1>1, <3>1 DEF ZpUnlike
        <3>3. CASE t = "global" BY <3>1, <3>2, <3>3 DEF ZpFresh
        <3>4. CASE t = "project"
            <4>1. \A i \in DOMAIN v, j \in DOMAIN u : v[i].n # u[j].n
                BY <1>1, <2>1, <3>4 DEF ZpBook, ZpApart
            <4>2. \A i \in DOMAIN v : v[i].n \notin zRenamed' BY <1>1, <1>3, <3>1, <3>4, <4>1 DEF ZpFresh
            <4>3. ZpFresh(t, v, zRenamed', zRaced) BY <3>4, <4>2 DEF ZpFresh
            <4>4. QED BY <3>1, <3>2, <4>3
        <3>5. QED BY <3>3, <3>4 DEF Zpc!Store
    <2>2. CASE t = "global" /\ v = zFiles'["global"]
        <3>1. ZpRenewed(u, problem, fires, v) BY <2>2, ZpRenewalMakes
        <3>2. /\ ZpLines("global", u) /\ ZpUnlike(u, zDoubled) /\ ZpFresh("global", u, zRenamed, zRaced)
              /\ \A i \in DOMAIN u : u[i].n \in 1..zNext
            BY <1>1, <1>2 DEF ZpBook, ZpEach
        <3>3. \A i \in DOMAIN v : /\ i \in DOMAIN u /\ v[i].n = u[i].n
                                  /\ Zpc!IsClaim(v[i]) => Zpc!IsClaim(u[i]) /\ v[i].id = u[i].id
            BY <3>1 DEF ZpRenewed, Zpc!IsClaim
        <3>4. ZpLines("global", v) BY <3>1, <3>2, <3>3 DEF ZpLines, ZpRenewed
        <3>5. ZpUnlike(v, zDoubled') BY <1>1, <3>2, <3>3 DEF ZpUnlike
        <3>6. ZpFresh("global", v, zRenamed', zRaced)
            BY <3>2, <3>3 DEF ZpFresh, Zpc!Nameless
        <3>7. QED BY <2>2, <3>2, <3>3, <3>4, <3>5, <3>6
    <2>3. QED BY <2>1, <2>2, ZpRenewalMakes
<1>6. ZpEach' BY <1>1, <1>5 DEF ZpEach
<1>7. ZpTogether'
    <2>1. SUFFICES ASSUME NEW t \in Zpc!Store, NEW v \in ZpVersions(t)', NEW y \in ZpVersions(t)'
                   PROVE  ZpAgree(v, y, zRenamed', zRaced)
        BY <1>1 DEF ZpTogether
    <2>2. PICK q \in ZpVersions(t) : ZpBecame(q, v) BY ZpRenewalMakes
    <2>3. PICK x \in ZpVersions(t) : ZpBecame(x, y) BY ZpRenewalMakes
    <2>4. ZpAgree(q, x, zRenamed, zRaced) BY DEF ZpBook, ZpTogether
    <2>5. QED BY <1>1, <2>2, <2>3, <2>4, ZpBecameAgree
<1>8. ZpApart'
    <2>1. SUFFICES ASSUME NEW v \in ZpVersions("project")', NEW y \in ZpVersions("global")',
                          NEW i \in DOMAIN v, NEW j \in DOMAIN y
                   PROVE  v[i].n # y[j].n
        BY DEF ZpApart
    <2>2. PICK q \in ZpVersions("project") : ZpBecame(q, v) BY <1>2, ZpRenewalMakes
    <2>3. PICK x \in ZpVersions("global") : ZpBecame(x, y) BY <1>2, ZpRenewalMakes
    <2>4. i \in DOMAIN q /\ j \in DOMAIN x /\ v[i].n = q[i].n /\ y[j].n = x[j].n
        BY <2>2, <2>3 DEF ZpBecame
    <2>5. QED BY <2>4 DEF ZpBook, ZpApart
<1>9. \A t \in Zpc!Store : ZpAgree(zFiles[t], zFiles'[t], zRenamed', zRaced)
    <2>1. SUFFICES ASSUME NEW t \in Zpc!Store
                   PROVE  ZpAgree(zFiles[t], zFiles'[t], zRenamed', zRaced)
        OBVIOUS
    <2>2. zFiles'[t] \in ZpVersions(t)' BY DEF ZpVersions
    <2>3. PICK x \in ZpVersions(t) : ZpBecame(x, zFiles'[t]) BY <2>2, ZpRenewalMakes
    <2>4. ZpAgree(zFiles[t], x, zRenamed, zRaced) BY ZpFileIn DEF ZpBook, ZpTogether
    <2>5. ZpBecame(zFiles[t], zFiles[t]) BY DEF ZpBecame
    <2>6. QED BY <1>1, <2>3, <2>4, <2>5, ZpBecameAgree
<1>10. Zpc!LostHasCause'
    <2>1. SUFFICES ASSUME NEW k \in 1..zNext PROVE k \in Zpc!Lines' \/ k \in zRaced
        BY <1>1 DEF Zpc!LostHasCause
    <2>2. Zpc!Lines' = UNION {{q.n : q \in {zFiles'[t][i] : i \in DOMAIN zFiles'[t]}} : t \in Zpc!Store}
        BY DEF Zpc!Lines, Zpc!ToSet
    <2>3. k \in Zpc!Lines \/ k \in zRaced BY DEF ZpBook, Zpc!LostHasCause
    <2>4. ASSUME k \in Zpc!Lines PROVE k \in Zpc!Lines' \/ k \in zRaced
        <3>1. PICK t \in Zpc!Store : \E i \in DOMAIN zFiles[t] : zFiles[t][i].n = k BY <2>4, ZpNumbers
        <3>2. k \in zRaced \/ \E j \in DOMAIN zFiles'[t] : zFiles'[t][j].n = k
            BY <1>9, <3>1 DEF ZpAgree
        <3>3. QED BY <2>2, <3>2
    <2>5. QED BY <2>3, <2>4
<1>11. ZpKeepsIds BY <1>9 DEF ZpKeepsIds, ZpAgree
<1>12. QED BY <1>4, <1>6, <1>7, <1>8, <1>10, <1>11 DEF ZpBook

-----------------------------------------------------------------------------
(* What a command holds, and its steps.                                   *)

ZpInv == /\ ZpBook /\ ZpTyped /\ ZpToldTrue /\ ZpFiledReach
         /\ \A p \in Proc \cap zAlone : ZpLone(p)

\* Where a command is tells what it holds.
LEMMA ZpAt ==
    ASSUME NEW next, NEW r \in ZpProcess(next)
    PROVE  /\ r.at \in {"idle", "load", "replace", "append", "tell", "twin", "dest", "write"}
           /\ r.at = "idle" => r = Zpc!Idle
           /\ r.at = "load" => r \in ZpReading(next)
           /\ r.at = "tell" => r \in ZpTell(next)
           /\ r.at \in {"append", "twin"} => r \in ZpCorrect(next)
           /\ r.at = "replace" => r \in ZpRewrite(next)
           /\ r.at = "dest" => r \in [at : {"dest"}, row : ZpPromoted]
           /\ r.at = "write" => r \in [at : {"write"}, store : {"global"}, row : ZpPromoted,
                                       lines : Seq(Zpc!Row("global"))]
<1>1. CASE r \in {Zpc!Idle} BY <1>1 DEF Zpc!Idle
<1>2. CASE r \in ZpLoad BY <1>2 DEF ZpLoad, ZpReading
<1>3. CASE r \in ZpTell(next) BY <1>3 DEF ZpTell, ZpReading
<1>4. CASE r \in ZpCorrect(next) BY <1>4 DEF ZpCorrect, ZpReading
<1>5. CASE r \in ZpRewrite(next) BY <1>5 DEF ZpRewrite
<1>6. CASE r \in [at : {"dest"}, row : ZpPromoted] BY <1>6
<1>7. CASE r \in [at : {"write"}, store : {"global"}, row : ZpPromoted,
                  lines : Seq(Zpc!Row("global"))]
    BY <1>7
<1>8. QED BY <1>1, <1>2, <1>3, <1>4, <1>5, <1>6, <1>7 DEF ZpProcess

\* What a command that reads a store goes on with.
LEMMA ZpReads ==
    ASSUME NEW next, NEW r \in ZpReading(next)
    PROVE  /\ r.at = "load" /\ r.store \in Zpc!Store
           /\ r.then \in {"end", "tell", "append"} /\ r \in ZpProcess(next)
           /\ r.then = "tell" => r \in ZpTell(next) /\ r.store = "project"
           /\ r.then = "append" => r \in ZpCorrect(next)
           /\ r.then = "end" => r.store = "project"
           /\ r.then # "end" => /\ [r EXCEPT !.at = r.then] \in ZpProcess(next)
                                /\ [r EXCEPT !.at = r.then].at = r.then
<1>1. CASE r \in ZpLoad BY <1>1 DEF ZpLoad, ZpReading, Zpc!Store, ZpProcess
<1>2. CASE r \in ZpTell(next)
    <2>1. [r EXCEPT !.at = "tell"] \in ZpTell(next) /\ [r EXCEPT !.at = "tell"].at = "tell"
        BY <1>2 DEF ZpTell
    <2>2. r.then = "tell" /\ r.store = "project" BY <1>2 DEF ZpTell
    <2>3. QED BY <1>2, <2>1, <2>2 DEF ZpReading, Zpc!Store, ZpProcess
<1>3. CASE r \in ZpCorrect(next)
    <2>1. /\ [r EXCEPT !.at = "append"] \in ZpCorrect(next)
          /\ [r EXCEPT !.at = "append"].at = "append" /\ r.then = "append" /\ r.store \in Zpc!Store
        BY <1>3 DEF ZpCorrect
    <2>2. QED BY <1>3, <2>1 DEF ZpReading, ZpProcess
<1>4. QED BY <1>1, <1>2, <1>3 DEF ZpReading

\* What a command may hold when fewer lines are written, it may hold when there are more.
LEMMA ZpMonotone ==
    ASSUME NEW n \in Nat, NEW m \in Nat, n <= m
    PROVE  /\ 1..n \subseteq 1..m /\ ZpProcess(n) \subseteq ZpProcess(m)
           /\ ZpReading(n) \subseteq ZpReading(m)
<1>1. \A k \in 1..n : k \in 1..m OBVIOUS
<1>2. ZpTell(n) \subseteq ZpTell(m)
    <2>1. ASSUME NEW r \in ZpTell(n) PROVE r \in ZpTell(m) BY <1>1 DEF ZpTell
    <2>2. QED BY <2>1
<1>6. ZpCorrect(n) \subseteq ZpCorrect(m)
    <2>1. ASSUME NEW r \in ZpCorrect(n) PROVE r \in ZpCorrect(m)
        <3>1. r.lines \in SUBSET (1..m) BY <1>1 DEF ZpCorrect
        <3>2. QED BY <3>1 DEF ZpCorrect
    <2>2. QED BY <2>1
<1>3. ZpReading(n) \subseteq ZpReading(m) BY <1>2, <1>6 DEF ZpReading
<1>4. ZpRewrite(n) \subseteq ZpRewrite(m)
    <2>1. ASSUME NEW r \in ZpRewrite(n) PROVE r \in ZpRewrite(m) BY <1>3 DEF ZpRewrite
    <2>2. QED BY <2>1
<1>5. QED BY <1>1, <1>2, <1>3, <1>4, <1>6 DEF ZpProcess

\* The versions there are when one command has moved on.
ZpMoved(p, r, s) ==
    /\ \A v \in ZpVersions(s)' :
          \/ v = zFiles'[s]
          \/ r.at \in {"replace", "write"} /\ r.store = s /\ v = r.lines
          \/ \E q \in Proc \ {p} : /\ zProc[q].at \in {"replace", "write"}
                                   /\ zProc[q].store = s /\ v = zProc[q].lines
    /\ \A q \in Proc \ {p} : (zProc[q].at \in {"replace", "write"} /\ zProc[q].store = s)
          => zProc[q].lines \in ZpVersions(s)
    /\ zProc'[p] = r /\ \A q \in Proc \ {p} : zProc'[q] = zProc[q]

\* A step of one command moves that command on and no other.
LEMMA ZpMoves ==
    ASSUME NEW p \in Proc, NEW r, zProc \in [Proc -> ZpProcess(zNext)],
           zProc' = [zProc EXCEPT ![p] = r], NEW s \in Zpc!Store
    PROVE  ZpMoved(p, r, s)
<1>1. zProc'[p] = r /\ \A q \in Proc \ {p} : zProc'[q] = zProc[q] OBVIOUS
<1>2. ASSUME NEW v \in ZpVersions(s)'
      PROVE  \/ v = zFiles'[s]
             \/ r.at \in {"replace", "write"} /\ r.store = s /\ v = r.lines
             \/ \E q \in Proc \ {p} : /\ zProc[q].at \in {"replace", "write"}
                                      /\ zProc[q].store = s /\ v = zProc[q].lines
    <2>1. CASE v = zFiles'[s] BY <2>1
    <2>2. CASE \E q \in Proc : /\ zProc'[q].at \in {"replace", "write"}
                               /\ zProc'[q].store = s /\ v = zProc'[q].lines
        <3>1. PICK q \in Proc : /\ zProc'[q].at \in {"replace", "write"}
                                /\ zProc'[q].store = s /\ v = zProc'[q].lines
            BY <2>2
        <3>2. CASE q = p BY <1>1, <3>1, <3>2
        <3>3. CASE q # p BY <1>1, <3>1, <3>3
        <3>4. QED BY <3>2, <3>3
    <2>3. QED BY <2>1, <2>2 DEF ZpVersions, ZpPending
<1>3. QED BY <1>1, <1>2 DEF ZpMoved, ZpVersions, ZpPending

\* A command that reads, or writes back a version there is, only fills in ids.
LEMMA ZpQuietMove ==
    ASSUME ZpBook, zProc \in [Proc -> ZpProcess(zNext)],
           NEW p \in Proc, NEW r, zProc' = [zProc EXCEPT ![p] = r],
           zNext' = zNext, zRaced' = zRaced, zRenamed' = zRenamed, zDoubled' = zDoubled,
           zFiles' = zFiles \/ (\E s \in Zpc!Store : \E x \in ZpVersions(s) :
                                   zFiles' = [zFiles EXCEPT ![s] = x]),
           r.at \in {"replace", "write"} =>
               \E u \in ZpVersions(r.store) : ZpLike(r.store, u, r.lines)
    PROVE  ZpQuiet
<1>1. DOMAIN zFiles' = Zpc!Store BY DEF ZpBook, ZpCounted
<1>2. \A s \in Zpc!Store : zFiles'[s] \in ZpVersions(s) BY ZpFileIn DEF ZpBook, ZpCounted
<1>3. \A s \in Zpc!Store : \A v \in ZpVersions(s) : ZpLike(s, v, v)
    BY ZpLikeSelf DEF ZpBook, ZpEach, ZpLines
<1>4. ASSUME NEW s \in Zpc!Store, NEW v \in ZpVersions(s)'
      PROVE  \E u \in ZpVersions(s) : ZpLike(s, u, v)
    <2>0. ZpMoved(p, r, s) BY ZpMoves
    <2>1. CASE v = zFiles'[s] BY <1>2, <1>3, <2>1
    <2>2. CASE r.at \in {"replace", "write"} /\ r.store = s /\ v = r.lines BY <2>2
    <2>3. CASE \E q \in Proc \ {p} : /\ zProc[q].at \in {"replace", "write"}
                                     /\ zProc[q].store = s /\ v = zProc[q].lines
        <3>1. v \in ZpVersions(s) BY <2>0, <2>3 DEF ZpMoved
        <3>2. QED BY <1>3, <3>1
    <2>4. QED BY <2>0, <2>1, <2>2, <2>3 DEF ZpMoved
<1>5. QED BY <1>1, <1>4 DEF ZpQuiet

-----------------------------------------------------------------------------
(* What was told and what was filed stays.                                *)

\* What a step does to the stores.  Of what it adds to the machine's store nothing is
\* known by the id in question.
ZpSteps(without) ==
    \/ ZpQuiet
    \/ \E s \in Zpc!Store : \E r :
          /\ ZpGrows(s, r)
          /\ s = "global" /\ Zpc!IsClaim(r) => r.id # None /\ r.id \notin without
    \/ \E u, problem, fires : ZpRenewal(u, problem, fires)

\* What learn reported stays true of every version.
LEMMA ZpTellsStay ==
    ASSUME ZpBook, ZpSteps({}), NEW t, t.n \in 1..zNext,
           \A v \in ZpVersions("project") : ZpTellsTrue(v, t)
    PROVE  \A v \in ZpVersions("project")' : ZpTellsTrue(v, t)
<1>0. "project" \in Zpc!Store /\ zNext \in Nat BY DEF Zpc!Store, ZpBook, ZpCounted
<1>1. SUFFICES ASSUME NEW v \in ZpVersions("project")' PROVE ZpTellsTrue(v, t) OBVIOUS
<1>2. CASE ZpQuiet
    <2>1. PICK u \in ZpVersions("project") : ZpLike("project", u, v) BY <1>0, <1>2 DEF ZpQuiet
    <2>2. QED BY <1>0, <2>1, ZpLikeOne
<1>3. CASE \E s \in Zpc!Store : \E r : ZpGrows(s, r)
    <2>1. PICK s \in Zpc!Store : \E r : ZpGrows(s, r) BY <1>3
    <2>2. PICK r : ZpGrows(s, r) BY <2>1
    <2>3. PICK u \in ZpVersions("project") : ZpFollows("project", s, r, u, v)
        BY <1>0, <2>2, ZpGrown
    <2>4. r.n = zNext + 1 /\ r.n # t.n BY <1>0, <2>2 DEF ZpGrows
    <2>5. \A i \in DOMAIN v : v[i].n = t.n => i \in DOMAIN u BY <2>3, <2>4 DEF ZpFollows
    <2>6. \A i \in DOMAIN u : v[i] = u[i] /\ (Zpc!IsClaim(u[i]) => ZpId(v, i) = ZpId(u, i))
        BY <2>3 DEF ZpFollows
    <2>7. QED BY <2>5, <2>6 DEF ZpTellsTrue
<1>4. CASE \E u, problem, fires : ZpRenewal(u, problem, fires)
    <2>1. PICK u, problem, fires : ZpRenewal(u, problem, fires) BY <1>4
    <2>2. v \in ZpVersions("project") BY <1>0, <2>1, ZpRenewalMakes
    <2>3. QED BY <2>2
<1>5. QED BY <1>2, <1>3, <1>4 DEF ZpSteps

\* A retraction that every version holds is not lost.
LEMMA ZpGotStays ==
    ASSUME ZpBook, ZpSteps({}), NEW t \in Zpc!Store, NEW f, \A v \in ZpVersions(t) : ZpGot(v, f)
    PROVE  \A v \in ZpVersions(t)' : ZpGot(v, f)
<1>1. SUFFICES ASSUME NEW v \in ZpVersions(t)' PROVE ZpGot(v, f) OBVIOUS
<1>2. CASE ZpQuiet
    <2>1. PICK u \in ZpVersions(t) : ZpLike(t, u, v) BY <1>2 DEF ZpQuiet
    <2>2. QED BY <2>1, ZpLikeOne
<1>3. CASE \E s \in Zpc!Store : \E r : ZpGrows(s, r)
    <2>1. PICK s \in Zpc!Store : \E r : ZpGrows(s, r) BY <1>3
    <2>2. PICK r : ZpGrows(s, r) BY <2>1
    <2>3. PICK u \in ZpVersions(t) : ZpFollows(t, s, r, u, v) BY <2>2, ZpGrown
    <2>4. \A i \in DOMAIN u : i \in DOMAIN v /\ v[i] = u[i] BY <2>3 DEF ZpFollows
    <2>5. QED BY <2>4 DEF ZpGot
<1>4. CASE \E u, problem, fires : ZpRenewal(u, problem, fires)
    <2>1. PICK u, problem, fires : ZpRenewal(u, problem, fires) BY <1>4
    <2>2. CASE v \in ZpVersions(t) BY <2>2
    <2>3. CASE t = "global" /\ v = zFiles'["global"]
        <3>1. u \in ZpVersions("global") BY <2>1 DEF ZpRenewal
        <3>2. ZpRenewed(u, problem, fires, v) BY <2>1, <2>3, ZpRenewalMakes
        <3>3. PICK i \in DOMAIN u : u[i].kind = "retracts" /\ u[i].of = f.id /\ u[i].n \in f.lines
            BY <2>3, <3>1 DEF ZpGot
        <3>4. v[i] = u[i] /\ i \in DOMAIN v BY <3>2, <3>3 DEF ZpRenewed, Zpc!IsClaim
        <3>5. QED BY <3>3, <3>4 DEF ZpGot
    <2>4. QED BY <2>1, <2>2, <2>3, ZpRenewalMakes
<1>5. QED BY <1>2, <1>3, <1>4 DEF ZpSteps

\* Rows with the id are still younger than the retraction.
LEMMA ZpSinceStays ==
    ASSUME ZpBook, ZpSteps({}), NEW f, f.lines \subseteq 1..zNext,
           \A v \in ZpVersions("project") : ZpSince(v, f)
    PROVE  \A v \in ZpVersions("project")' : ZpSince(v, f)
<1>0. "project" \in Zpc!Store /\ zNext \in Nat BY DEF Zpc!Store, ZpBook, ZpCounted
<1>1. SUFFICES ASSUME NEW v \in ZpVersions("project")' PROVE ZpSince(v, f) OBVIOUS
<1>2. CASE ZpQuiet
    <2>1. PICK u \in ZpVersions("project") : ZpLike("project", u, v) BY <1>0, <1>2 DEF ZpQuiet
    <2>2. QED BY <1>0, <2>1, ZpLikeOne
<1>3. CASE \E s \in Zpc!Store : \E r : ZpGrows(s, r)
    <2>1. PICK s \in Zpc!Store : \E r : ZpGrows(s, r) BY <1>3
    <2>2. PICK r : ZpGrows(s, r) BY <2>1
    <2>3. PICK u \in ZpVersions("project") : ZpFollows("project", s, r, u, v)
        BY <1>0, <2>2, ZpGrown
    <2>4. \A n \in f.lines : n < r.n BY <1>0, <2>2 DEF ZpGrows
    <2>5. \A i \in DOMAIN v : i \in DOMAIN u \/ v[i] = r BY <2>3 DEF ZpFollows
    <2>6. \A i \in DOMAIN u : v[i] = u[i] /\ (Zpc!IsClaim(u[i]) => ZpId(v, i) = ZpId(u, i))
        BY <2>3 DEF ZpFollows
    <2>7. QED BY <2>4, <2>5, <2>6 DEF ZpSince
<1>4. CASE \E u, problem, fires : ZpRenewal(u, problem, fires)
    <2>1. PICK u, problem, fires : ZpRenewal(u, problem, fires) BY <1>4
    <2>2. v \in ZpVersions("project") BY <1>0, <2>1, ZpRenewalMakes
    <2>3. QED BY <2>2
<1>5. QED BY <1>2, <1>3, <1>4 DEF ZpSteps

\* A store without rows of that id gets none, unless one is promoted: an id that a
\* renewal derives names moments, and one of a project's row does not.
LEMMA ZpLacksStays ==
    ASSUME ZpBook, NEW f, ZpSteps({f.id}), f.id \in Zpc!Ids("project"),
           \A v \in ZpVersions("global") : ZpLacks(v, f)
    PROVE  \A v \in ZpVersions("global")' : ZpLacks(v, f)
<1>0. "global" \in Zpc!Store BY DEF Zpc!Store
<1>1. SUFFICES ASSUME NEW v \in ZpVersions("global")' PROVE ZpLacks(v, f) OBVIOUS
<1>2. CASE ZpQuiet
    <2>1. PICK u \in ZpVersions("global") : ZpLike("global", u, v) BY <1>0, <1>2 DEF ZpQuiet
    <2>2. QED BY <1>0, <2>1, ZpLikeOne
<1>3. CASE \E s \in Zpc!Store : \E r :
               /\ ZpGrows(s, r)
               /\ s = "global" /\ Zpc!IsClaim(r) => r.id # None /\ r.id \notin {f.id}
    <2>1. PICK s \in Zpc!Store : \E r :
               /\ ZpGrows(s, r)
               /\ s = "global" /\ Zpc!IsClaim(r) => r.id # None /\ r.id \notin {f.id}
        BY <1>3
    <2>2. PICK r : /\ ZpGrows(s, r)
                   /\ s = "global" /\ Zpc!IsClaim(r) => r.id # None /\ r.id \notin {f.id}
        BY <2>1
    <2>3. PICK u \in ZpVersions("global") : ZpFollows("global", s, r, u, v)
        BY <1>0, <2>2, ZpGrown
    <2>4. SUFFICES ASSUME NEW i \in DOMAIN v, Zpc!IsClaim(v[i]) PROVE ZpId(v, i) # f.id
        BY DEF ZpLacks
    <2>5. CASE i \in DOMAIN u
        <3>1. v[i] = u[i] /\ (Zpc!IsClaim(u[i]) => ZpId(v, i) = ZpId(u, i))
            BY <2>3, <2>5 DEF ZpFollows
        <3>2. QED BY <2>4, <2>5, <3>1 DEF ZpLacks
    <2>6. CASE i \notin DOMAIN u
        <3>1. s = "global" /\ v = zFiles'[s] /\ v[i] = r BY <2>3, <2>6 DEF ZpFollows
        <3>2. ZpAppended(s, zFiles[s], r, v) BY <2>2, <3>1, ZpGrown
        <3>3. v \in Seq(Zpc!Row("global")) BY <3>1, <3>2 DEF ZpAppended
        <3>4. ZpFilled("global", v, Zpc!AssignIds(v)) BY <1>0, <3>3, ZpFills
        <3>5. r.id # None /\ r.id # f.id BY <2>2, <2>4, <3>1
        <3>6. ZpId(v, i) = r.id BY <2>4, <3>1, <3>4, <3>5 DEF ZpFilled
        <3>7. QED BY <3>5, <3>6
    <2>7. QED BY <2>5, <2>6
<1>4. CASE \E u, problem, fires : ZpRenewal(u, problem, fires)
    <2>1. PICK u, problem, fires : ZpRenewal(u, problem, fires) BY <1>4
    <2>2. CASE v \in ZpVersions("global") BY <2>2
    <2>3. CASE v = zFiles'["global"]
        <3>1. u \in ZpVersions("global") /\ fires \in When BY <2>1 DEF ZpRenewal
        <3>2. ZpRenewed(u, problem, fires, v) BY <2>1, <2>3, ZpRenewalMakes
        <3>3. f.id[1][2] = {} BY DEF Zpc!Ids, Zpc!Moments
        <3>4. fires # {} BY <3>1, ZpcAssumption
        <3>5. ASSUME NEW i \in DOMAIN v, Zpc!IsClaim(v[i]) PROVE ZpId(v, i) # f.id
            <4>1. i \in DOMAIN u /\ Zpc!IsClaim(u[i]) BY <3>2, <3>5 DEF ZpRenewed, Zpc!IsClaim
            <4>2. ZpId(v, i) = ZpId(u, i) \/ ZpId(v, i)[1][2] = fires
                BY <3>2, <4>1 DEF ZpRenewed
            <4>3. ZpId(u, i) # f.id BY <3>1, <4>1 DEF ZpLacks
            <4>4. QED BY <3>3, <3>4, <4>2, <4>3
        <3>6. QED BY <3>5 DEF ZpLacks
    <2>4. QED BY <1>0, <2>1, <2>2, <2>3, ZpRenewalMakes
<1>5. QED BY <1>2, <1>3, <1>4 DEF ZpSteps

\* A retraction that has reached the stores stays there.
LEMMA ZpReachStays ==
    ASSUME ZpBook, NEW f, f.lines \subseteq 1..zNext, ZpReached(f), ZpSteps({}),
           ((\A v \in ZpVersions("project") : ZpGot(v, f)) /\ ~ZpPromotes(f.id))
               => ZpSteps({f.id}) /\ ~ZpPromotes(f.id)'
    PROVE  ZpReached(f)'
<1>0. "global" \in Zpc!Store /\ "project" \in Zpc!Store BY DEF Zpc!Store
<1>1. \A t \in Zpc!Store : (\A v \in ZpVersions(t) : ZpGot(v, f))
                              => \A v \in ZpVersions(t)' : ZpGot(v, f)
    BY ZpGotStays
<1>2. CASE /\ \A v \in ZpVersions("global") : ZpGot(v, f)
           /\ \/ \A v \in ZpVersions("project") : ZpGot(v, f)
              \/ \A v \in ZpVersions("project") : ZpSince(v, f)
    <2>1. \A v \in ZpVersions("global")' : ZpGot(v, f) BY <1>0, <1>1, <1>2
    <2>2. \/ \A v \in ZpVersions("project")' : ZpGot(v, f)
          \/ \A v \in ZpVersions("project")' : ZpSince(v, f)
        <3>1. CASE \A v \in ZpVersions("project") : ZpGot(v, f) BY <1>0, <1>1, <3>1
        <3>2. CASE \A v \in ZpVersions("project") : ZpSince(v, f) BY <3>2, ZpSinceStays
        <3>3. QED BY <1>2, <3>1, <3>2
    <2>3. QED BY <2>1, <2>2 DEF ZpReached
<1>3. CASE /\ \A v \in ZpVersions("project") : ZpGot(v, f)
           /\ \A v \in ZpVersions("global") : ZpLacks(v, f)
           /\ f.id \in Zpc!Ids("project") /\ ~ZpPromotes(f.id)
    <2>1. \A v \in ZpVersions("project")' : ZpGot(v, f) BY <1>0, <1>1, <1>3
    <2>2. \A v \in ZpVersions("global")' : ZpLacks(v, f) BY <1>3, ZpLacksStays
    <2>3. f.id \in Zpc!Ids("project")' BY <1>3 DEF Zpc!Ids, Zpc!Moments
    <2>4. QED BY <1>3, <2>1, <2>2, <2>3 DEF ZpReached
<1>4. QED BY <1>2, <1>3 DEF ZpReached

\* What is left to say of a step, once the stores are well kept.
ZpReports ==
    /\ \A t \in zTold' : \/ t \in zTold
                         \/ /\ t.n \in 1..zNext'
                            /\ \A v \in ZpVersions("project")' : ZpTellsTrue(v, t)
    /\ \A f \in zFiled' : \/ f \in zFiled
                          \/ /\ f.lines \subseteq 1..zNext'
                             /\ f.id \notin zDoubled' => ZpReached(f)'
ZpSpares ==
    /\ ZpSteps({}) /\ zDoubled \subseteq zDoubled'
    /\ \A f \in zFiled :
          (/\ f.id \notin zDoubled' /\ ~ZpPromotes(f.id)
           /\ \A v \in ZpVersions("project") : ZpGot(v, f))
          => ZpSteps({f.id}) /\ ~ZpPromotes(f.id)'
ZpAlones(p, r) ==
    /\ \/ zAlone' = zAlone /\ zProc[p] # Zpc!Idle
       \/ zAlone' \subseteq {p} /\ (p \in zAlone' => \A q \in Proc \ {p} : zProc[q] = Zpc!Idle)
    /\ p \in zAlone' => ZpLoneAs(r, zFiles')
ZpGoes(p, r) ==
    /\ zProc' = [zProc EXCEPT ![p] = r] /\ r \in ZpProcess(zNext')
    /\ zNext' \in Nat /\ zNext <= zNext'

\* A step keeps the invariant if it keeps the stores well, reports what is true, spares
\* what was filed and leaves a command that runs by itself with what it needs.
LEMMA ZpEnds ==
    ASSUME ZpInv, NEW p \in Proc, NEW r, ZpBook', ZpGoes(p, r), ZpReports, ZpSpares, ZpAlones(p, r)
    PROVE  ZpInv'
<1>1. /\ zNext \in Nat /\ zProc \in [Proc -> ZpProcess(zNext)]
      /\ \A t \in zTold : t.n \in 1..zNext
      /\ \A f \in zFiled : f.lines \subseteq 1..zNext
    BY DEF ZpInv, ZpBook, ZpCounted, ZpTyped
<1>2. 1..zNext \subseteq 1..zNext' /\ ZpProcess(zNext) \subseteq ZpProcess(zNext')
    BY <1>1, ZpMonotone DEF ZpGoes
<1>3. zProc'[p] = r /\ \A q \in Proc \ {p} : zProc'[q] = zProc[q] BY <1>1 DEF ZpGoes
<1>4. ZpTyped'
    <2>1. zProc' \in [Proc -> ZpProcess(zNext)']
        <3>1. \A q \in Proc : zProc'[q] \in ZpProcess(zNext') BY <1>1, <1>2, <1>3 DEF ZpGoes
        <3>2. zProc' = [q \in Proc |-> zProc'[q]] BY <1>1 DEF ZpGoes
        <3>3. zProc' \in [Proc -> ZpProcess(zNext')] BY <3>1, <3>2
        <3>4. ZpProcess(zNext)' = ZpProcess(zNext')
            BY DEF ZpProcess, Zpc!Idle, ZpLoad, ZpTell, ZpCorrect, ZpRewrite, ZpReading, ZpPromoted,
                   Zpc!Row, Zpc!ClaimRow, Zpc!Ids, Zpc!Moments, Zpc!Store
        <3>5. QED BY <3>3, <3>4
    <2>2. \A t \in zTold' : t.n \in 1..zNext' BY <1>1, <1>2 DEF ZpReports
    <2>3. \A f \in zFiled' : f.lines \subseteq 1..zNext' BY <1>1, <1>2 DEF ZpReports
    <2>4. QED BY <2>1, <2>2, <2>3 DEF ZpTyped
<1>5. ZpToldTrue'
    <2>1. SUFFICES ASSUME NEW t \in zTold' PROVE \A v \in ZpVersions("project")' : ZpTellsTrue(v, t)
        BY DEF ZpToldTrue
    <2>2. CASE t \in zTold
        <3>1. t.n \in 1..zNext /\ \A v \in ZpVersions("project") : ZpTellsTrue(v, t)
            BY <1>1, <2>2 DEF ZpInv, ZpToldTrue
        <3>2. QED BY <3>1, ZpTellsStay DEF ZpInv, ZpSpares
    <2>3. QED BY <2>2 DEF ZpReports
<1>6. ZpFiledReach'
    <2>1. SUFFICES ASSUME NEW f \in zFiled', f.id \notin zDoubled' PROVE ZpReached(f)'
        BY DEF ZpFiledReach
    <2>2. CASE f \in zFiled
        <3>1. ZpReached(f) /\ f.lines \subseteq 1..zNext
            BY <1>1, <2>1, <2>2 DEF ZpInv, ZpFiledReach, ZpSpares
        <3>2. /\ ZpSteps({})
              /\ ((\A v \in ZpVersions("project") : ZpGot(v, f)) /\ ~ZpPromotes(f.id))
                     => ZpSteps({f.id}) /\ ~ZpPromotes(f.id)'
            BY <2>1, <2>2 DEF ZpSpares
        <3>3. QED BY <3>1, <3>2, ZpReachStays DEF ZpInv
    <2>3. QED BY <2>1, <2>2 DEF ZpReports
<1>7. ASSUME NEW q \in Proc \cap zAlone' PROVE ZpLone(q)'
    <2>1. CASE zAlone' = zAlone /\ zProc[p] # Zpc!Idle
        <3>1. ZpLone(q) BY <1>7, <2>1 DEF ZpInv
        <3>2. q = p BY <2>1, <3>1 DEF ZpLone
        <3>3. \A o \in Proc \ {p} : zProc'[o] = Zpc!Idle BY <1>3, <3>1, <3>2 DEF ZpLone
        <3>4. ZpLoneAs(zProc'[p], zFiles') BY <1>3, <1>7, <3>2 DEF ZpAlones
        <3>5. QED BY <3>2, <3>3, <3>4 DEF ZpLone, Zpc!Idle, ZpLoneAs, ZpTelling, ZpCorrecting,
                  Zpc!Other, ZpGot, Zpc!IsClaim
    <2>2. CASE zAlone' \subseteq {p} /\ (p \in zAlone' => \A o \in Proc \ {p} : zProc[o] = Zpc!Idle)
        <3>1. q = p BY <1>7, <2>2
        <3>2. \A o \in Proc \ {p} : zProc'[o] = Zpc!Idle BY <1>3, <1>7, <2>2, <3>1
        <3>3. ZpLoneAs(zProc'[p], zFiles') BY <1>3, <1>7, <3>1 DEF ZpAlones
        <3>4. QED BY <3>1, <3>2, <3>3 DEF ZpLone, Zpc!Idle, ZpLoneAs, ZpTelling, ZpCorrecting,
                  Zpc!Other, ZpGot, Zpc!IsClaim
    <2>3. QED BY <2>1, <2>2 DEF ZpAlones
<1>8. QED BY <1>4, <1>5, <1>6, <1>7 DEF ZpInv

\* A command that is running, as the only one or not.
LEMMA ZpRuns ==
    ASSUME ZpInv, NEW p \in Proc
    PROVE  /\ zProc[p] \in ZpProcess(zNext) /\ zNext \in Nat
           /\ zProc \in [Proc -> ZpProcess(zNext)]
           /\ p \in zAlone => /\ \A q \in Proc \ {p} : zProc[q] = Zpc!Idle
                              /\ ZpLoneAs(zProc[p], zFiles)
BY DEF ZpInv, ZpBook, ZpCounted, ZpTyped, ZpLone

\* A step that promotes no row but the one it has adds none to those being promoted.
LEMMA ZpPromotesOn ==
    ASSUME NEW p \in Proc, NEW r, ZpInv, zProc' = [zProc EXCEPT ![p] = r],
           r.at \in {"dest", "write"} => zProc[p].at \in {"dest", "write"} /\ r.row = zProc[p].row
    PROVE  \A id : ~ZpPromotes(id) => ~ZpPromotes(id)'
<1>1. zProc'[p] = r /\ \A q \in Proc \ {p} : zProc'[q] = zProc[q]
    BY DEF ZpInv, ZpTyped
<1>2. QED BY <1>1 DEF ZpPromotes

\* A step that only reads, fills in or writes back.
LEMMA ZpQuietEnds ==
    ASSUME ZpInv, NEW p \in Proc, NEW r, zProc' = [zProc EXCEPT ![p] = r],
           r \in ZpProcess(zNext), ZpQuiet, ZpReports, ZpAlones(p, r),
           \A f \in zFiled : (f.id \notin zDoubled /\ ~ZpPromotes(f.id)
                              /\ \A v \in ZpVersions("project") : ZpGot(v, f))
                             => ~ZpPromotes(f.id)'
    PROVE  ZpInv' /\ ZpKeepsIds
<1>1. ZpBook' /\ ZpKeepsIds BY ZpQuietBook DEF ZpInv
<1>2. ZpGoes(p, r) BY DEF ZpGoes, ZpQuiet, ZpInv, ZpBook, ZpCounted
<1>3. ZpSpares BY DEF ZpSpares, ZpSteps, ZpQuiet
<1>4. QED BY <1>1, <1>2, <1>3, ZpEnds

\* Claims of a file, as readers see them.
LEMMA ZpClaims ==
    ASSUME NEW s \in Zpc!Store, NEW v \in Seq(Zpc!Row(s))
    PROVE  \A r \in Zpc!Claims(v) : \E i \in DOMAIN v :
              /\ Zpc!IsClaim(v[i]) /\ r = Zpc!AssignIds(v)[i] /\ r.id = ZpId(v, i)
              /\ r.n = v[i].n /\ r \in Zpc!ClaimRow(s) /\ r.lesson \in Lesson
              /\ r.id \in Zpc!Ids(s) /\ r.id[1][1] = r.lesson
<1> DEFINE A == Zpc!AssignIds(v)
<1>1. ZpFilled(s, v, A) BY ZpFills
<1>2. SUFFICES ASSUME NEW r \in Zpc!Claims(v)
               PROVE  \E i \in DOMAIN v :
                  /\ Zpc!IsClaim(v[i]) /\ r = A[i] /\ r.id = ZpId(v, i)
                  /\ r.n = v[i].n /\ r \in Zpc!ClaimRow(s) /\ r.lesson \in Lesson
                  /\ r.id \in Zpc!Ids(s) /\ r.id[1][1] = r.lesson
    OBVIOUS
<1>3. r \in Zpc!ToSet(A) /\ Zpc!IsClaim(r) BY <1>2 DEF Zpc!Claims
<1> HIDE DEF A
<1>4. PICK i \in DOMAIN v : r = A[i] BY <1>1, <1>3 DEF Zpc!ToSet, ZpFilled
<1>5. Zpc!IsClaim(v[i]) BY <1>1, <1>3, <1>4 DEF ZpFilled, Zpc!IsClaim
<1>6. A[i] \in Zpc!Row(s) BY <1>1 DEF ZpFilled
<1>7. r \in Zpc!ClaimRow(s) /\ r.lesson \in Lesson BY <1>3, <1>4, <1>6, ZpRows
<1>8. r.id = ZpId(v, i) /\ r.n = v[i].n /\ r.id \in Zpc!Ids(s) /\ r.id[1][1] = r.lesson
    BY <1>1, <1>4, <1>5 DEF ZpFilled
<1>9. QED BY <1>4, <1>5, <1>7, <1>8

\* An id resolves in a file if a claim is known by it.
LEMMA ZpResolves ==
    ASSUME NEW s \in Zpc!Store, NEW v \in Seq(Zpc!Row(s))
    PROVE  \A id : Zpc!Resolves(v, id) <=> \E i \in DOMAIN v : Zpc!IsClaim(v[i]) /\ ZpId(v, i) = id
<1>1. \A r \in Zpc!Claims(v) : \E i \in DOMAIN v : Zpc!IsClaim(v[i]) /\ r.id = ZpId(v, i)
    BY ZpClaims
<1> DEFINE A == Zpc!AssignIds(v)
<1>2. ASSUME NEW i \in DOMAIN v, Zpc!IsClaim(v[i])
      PROVE  \E r \in Zpc!Claims(v) : r.id = ZpId(v, i)
    <2>1. ZpFilled(s, v, A) BY ZpFills
    <2>2. A[i] \in Zpc!ToSet(A) BY <2>1 DEF Zpc!ToSet, ZpFilled
    <2>3. Zpc!IsClaim(A[i]) /\ A[i].id = ZpId(v, i) BY <1>2, <2>1 DEF ZpFilled, Zpc!IsClaim
    <2>4. A[i] \in Zpc!Claims(v) BY <2>2, <2>3 DEF Zpc!Claims
    <2>5. QED BY <2>3, <2>4
<1> HIDE DEF A
<1>3. QED BY <1>1, <1>2 DEF Zpc!Resolves

\* A retraction that a file holds is of the row with its id, if there is only one.
LEMMA ZpHolds ==
    ASSUME NEW s \in Zpc!Store, NEW v, ZpLines(s, v), NEW d, ZpUnlike(v, d), NEW f,
           ZpGot(v, f), f.id \notin d, NEW r \in Zpc!LiveClaims(v)
    PROVE  r.id # f.id
<1> DEFINE A == Zpc!AssignIds(v)
<1>1. v \in Seq(Zpc!Row(s)) /\ r \in Zpc!Claims(v) /\ ~Zpc!Retracted(v, r)
    BY DEF ZpLines, Zpc!LiveClaims
<1>2. PICK i \in DOMAIN v : Zpc!IsClaim(v[i]) /\ r = A[i] /\ r.id = ZpId(v, i)
    BY <1>1, ZpClaims
<1>3. ZpFilled(s, v, A) BY <1>1, ZpFills
<1>4. SUFFICES ASSUME r.id = f.id PROVE FALSE OBVIOUS
<1>5. \E c \in Zpc!ToSet(v) : c.kind = "retracts" /\ c.of = r.id
    <2>1. PICK j \in DOMAIN v : v[j].kind = "retracts" /\ v[j].of = f.id BY DEF ZpGot
    <2>2. v[j] \in Zpc!ToSet(v) BY DEF Zpc!ToSet
    <2>3. QED BY <1>4, <2>1, <2>2
<1>6. ASSUME NEW j \in DOMAIN A, Zpc!IsClaim(A[j]), A[j].id = r.id PROVE j = i
    <2>1. j \in DOMAIN v /\ Zpc!IsClaim(v[j]) /\ ZpId(v, j) = r.id
        <3> HIDE DEF A
        <3>1. QED BY <1>3, <1>6 DEF ZpFilled, Zpc!IsClaim
    <2>2. SUFFICES ASSUME j # i PROVE FALSE OBVIOUS
    <2>3. v[j].id # None /\ v[j].id = v[i].id /\ ZpId(v, j) = v[j].id
        BY <1>1, <1>2, <2>1, <2>2, ZpDiffer
    <2>4. v[j].id \in d BY <1>2, <2>1, <2>2, <2>3 DEF ZpUnlike
    <2>5. QED BY <1>4, <2>1, <2>3, <2>4
<1>7. i \in DOMAIN A /\ Zpc!IsClaim(A[i]) /\ A[i].id = r.id /\ i \in Nat
    BY <1>1, <1>2, <1>3 DEF ZpFilled, Zpc!IsClaim
<1>8. Zpc!Meant(v, r.id) = r
    <2> DEFINE at == {j \in DOMAIN A : Zpc!IsClaim(A[j]) /\ A[j].id = r.id}
    <2>1. at = {i} BY <1>6, <1>7
    <2>2. Zpc!Meant(v, r.id) = A[CHOOSE k \in at : \A j \in at : j <= k] BY DEF Zpc!Meant
    <2> HIDE DEF A, at
    <2>3. (CHOOSE k \in at : \A j \in at : j <= k) = i
        <3>1. \A j \in at : j <= i BY <1>7, <2>1
        <3>2. QED BY <2>1, <3>1
    <2>4. QED BY <1>2, <2>2, <2>3 DEF A
<1>9. QED BY <1>1, <1>5, <1>8 DEF Zpc!Retracted

\* Whoever begins is alone if nobody else runs.
LEMMA ZpBegins ==
    ASSUME ZpInv, NEW p \in Proc, Zpc!Begin(p), NEW r, ZpLoneAs(r, zFiles')
    PROVE  zProc[p] = Zpc!Idle /\ ZpAlones(p, r)
<1>1. zProc[p] = Zpc!Idle BY ZpRuns, ZpAt DEF Zpc!Begin, Zpc!Running
<1>2. zAlone' = IF \E q \in Proc : Zpc!Running(q) THEN {} ELSE {p} BY DEF Zpc!Begin
<1>3. \A q \in Proc : ~Zpc!Running(q) => zProc[q] = Zpc!Idle
    BY ZpAt DEF Zpc!Running, ZpInv, ZpTyped
<1>4. QED BY <1>1, <1>2, <1>3 DEF ZpAlones

\* echo >> file, by a command that goes on: a line more.
LEMMA ZpAppendMove ==
    ASSUME ZpInv, NEW p \in Proc, NEW r, zProc' = [zProc EXCEPT ![p] = r],
           r.at \notin {"replace", "write"}, NEW s \in Zpc!Store, NEW x \in Zpc!Row(s),
           x.n = zNext + 1, Zpc!AppendTo(p, s, x), zRenamed' = zRenamed, zDoubled \subseteq zDoubled',
           (Zpc!IsClaim(x) /\ x.id # None)
             => \A i \in DOMAIN zFiles[s] : Zpc!IsClaim(zFiles[s][i]) =>
                  /\ zFiles[s][i].id = None => zFiles[s][i].lesson # x.lesson
                  /\ zFiles[s][i].id = x.id => x.id \in zDoubled',
           s = "global" => ~Zpc!Nameless(x)
    PROVE  ZpGrows(s, x) /\ ZpBook' /\ ZpKeepsIds
<1>1. /\ zFiles' = [zFiles EXCEPT ![s] = Append(zFiles[s], x)] /\ zNext' = zNext + 1
      /\ zRaced' = IF \E q \in Proc \ {p} : zProc[q].at \in {"replace", "write"} /\ zProc[q].store = s
                   THEN zRaced \cup {zNext'} ELSE zRaced
    BY DEF Zpc!AppendTo
<1>2. \A t \in Zpc!Store : ZpMoved(p, r, t) BY ZpMoves DEF ZpInv, ZpTyped
<1>3. \A t \in Zpc!Store : ZpVersions(t)' \subseteq ZpVersions(t) \cup {zFiles'[t]}
    BY <1>2 DEF ZpMoved
<1>4. zNext + 1 \in zRaced' \/ ZpVersions(s)' = {zFiles'[s]}
    <2>1. CASE \E q \in Proc \ {p} : zProc[q].at \in {"replace", "write"} /\ zProc[q].store = s
        BY <1>1, <2>1
    <2>2. CASE ~\E q \in Proc \ {p} : zProc[q].at \in {"replace", "write"} /\ zProc[q].store = s
        <3>1. \A v \in ZpVersions(s)' : v = zFiles'[s] BY <1>2, <2>2 DEF ZpMoved
        <3>2. zFiles'[s] \in ZpVersions(s)' BY DEF ZpVersions
        <3>3. QED BY <3>1, <3>2
    <2>3. QED BY <2>1, <2>2
<1>5. zRaced' \subseteq zRaced \cup {zNext + 1} /\ zRaced \subseteq zRaced' BY <1>1
<1>6. ZpGrows(s, x) BY <1>1, <1>3, <1>4, <1>5 DEF ZpGrows
<1>7. QED BY <1>6, ZpGrowsBook DEF ZpInv

-----------------------------------------------------------------------------
(* The steps.                                                             *)

\* A step that leaves the stores alone.
LEMMA ZpKept ==
    ASSUME ZpInv, NEW p \in Proc, NEW r, zProc' = [zProc EXCEPT ![p] = r], r \in ZpProcess(zNext),
           Zpc!Keep, UNCHANGED Zpc!history, ZpAlones(p, r),
           r.at \in {"replace", "write"} =>
               \E u \in ZpVersions(r.store) : ZpLike(r.store, u, r.lines),
           r.at \in {"dest", "write"} => zProc[p].at \in {"dest", "write"} /\ r.row = zProc[p].row
    PROVE  ZpInv' /\ ZpKeepsIds
<1>1. /\ zFiles' = zFiles /\ zNext' = zNext /\ zRaced' = zRaced /\ zRenamed' = zRenamed
      /\ zDoubled' = zDoubled /\ zTold' = zTold /\ zFiled' = zFiled
    BY DEF Zpc!Keep, Zpc!history
<1>2. ZpBook /\ zProc \in [Proc -> ZpProcess(zNext)] BY DEF ZpInv, ZpTyped
<1>3. ZpQuiet BY <1>1, <1>2, ZpQuietMove
<1>4. ZpReports BY <1>1 DEF ZpReports
<1>5. \A id : ~ZpPromotes(id) => ~ZpPromotes(id)' BY ZpPromotesOn
<1>6. QED BY <1>3, <1>4, <1>5, ZpQuietEnds

\* A command that is done holds nothing.
LEMMA ZpIdleProcess ==
    ASSUME NEW next
    PROVE  Zpc!Idle \in ZpProcess(next) /\ Zpc!Idle.at = "idle"
           /\ \A files : ZpLoneAs(Zpc!Idle, files)
BY DEF ZpProcess, Zpc!Idle, ZpLoneAs

\* retract --backfill begins.
LEMMA ZpBackfill ==
    ASSUME ZpInv, NEW p \in Proc, Zpc!Backfill(p)
    PROVE  ZpInv' /\ ZpKeepsIds
<1>1. PICK r : r = [at |-> "load", store |-> "project", then |-> "end"] OBVIOUS
<1>2. Zpc!Begin(p) /\ Zpc!Keep /\ UNCHANGED Zpc!history /\ zProc' = [zProc EXCEPT ![p] = r]
    BY <1>1 DEF Zpc!Backfill, Zpc!Becomes
<1>3. r \in ZpProcess(zNext) /\ r.at = "load" /\ r.then = "end"
    BY <1>1 DEF ZpProcess, ZpLoad
<1>4. ZpLoneAs(r, zFiles') BY <1>3 DEF ZpLoneAs, ZpTelling, ZpCorrecting
<1>5. ZpAlones(p, r) BY <1>2, <1>4, ZpBegins
<1>6. QED BY <1>2, <1>3, <1>5, ZpKept

\* A command is killed.
LEMMA ZpKill ==
    ASSUME ZpInv, NEW p \in Proc, Zpc!Kill(p)
    PROVE  ZpInv' /\ ZpKeepsIds
<1>1. /\ Zpc!Keep /\ UNCHANGED Zpc!history /\ zProc' = [zProc EXCEPT ![p] = Zpc!Idle]
      /\ zAlone' = zAlone /\ zProc[p] # Zpc!Idle
    BY DEF Zpc!Kill, Zpc!Becomes, Zpc!Running, Zpc!Idle
<1>2. ZpAlones(p, Zpc!Idle) BY <1>1, ZpIdleProcess DEF ZpAlones
<1>3. QED BY <1>1, <1>2, ZpIdleProcess, ZpKept

\* promote reads the destination.
LEMMA ZpReadDest ==
    ASSUME ZpInv, NEW p \in Proc, Zpc!ReadDest(p)
    PROVE  ZpInv' /\ ZpKeepsIds
<1>1. PICK r : r = [at |-> "write", store |-> "global", row |-> zProc[p].row,
                    lines |-> zFiles["global"]]
    OBVIOUS
<1>2. /\ Zpc!Keep /\ UNCHANGED Zpc!history /\ zProc' = [zProc EXCEPT ![p] = r]
      /\ zAlone' = zAlone /\ zProc[p].at = "dest" /\ zProc[p] # Zpc!Idle
    BY <1>1 DEF Zpc!ReadDest, Zpc!Becomes, Zpc!Idle
<1>3. zProc[p] \in [at : {"dest"}, row : ZpPromoted] BY <1>2, ZpRuns, ZpAt
<1>4. "global" \in Zpc!Store /\ zFiles["global"] \in ZpVersions("global")
    BY ZpFileIn DEF Zpc!Store
<1>5. zFiles["global"] \in Seq(Zpc!Row("global")) BY <1>4 DEF ZpInv, ZpBook, ZpEach, ZpLines
<1>6. r \in ZpProcess(zNext) BY <1>1, <1>3, <1>5 DEF ZpProcess
<1>7. ZpLike("global", zFiles["global"], zFiles["global"]) BY <1>4, <1>5, ZpLikeSelf
<1>8. zFiles' = zFiles BY <1>2 DEF Zpc!Keep
<1>9. ZpLoneAs(r, zFiles') BY <1>1, <1>8 DEF ZpLoneAs
<1>10. ZpAlones(p, r) BY <1>2, <1>9 DEF ZpAlones
<1>11. r.at = "write" /\ r.store = "global" /\ r.lines = zFiles["global"] /\ r.row = zProc[p].row
    BY <1>1
<1>12. QED BY <1>2, <1>4, <1>6, <1>7, <1>10, <1>11, ZpKept

\* retract begins, or is refused.
LEMMA ZpRetract ==
    ASSUME ZpInv, NEW p \in Proc, NEW verb \in {"retracts", "challenges"}, NEW id,
           NEW evidence \in BOOLEAN, Zpc!Retract(p, verb, id, evidence)
    PROVE  ZpInv' /\ ZpKeepsIds
<1>0. "global" \in Zpc!Store /\ "project" \in Zpc!Store BY DEF Zpc!Store
<1>1. \A s \in Zpc!Store : zFiles[s] \in Seq(Zpc!Row(s))
    BY ZpFileIn DEF ZpInv, ZpBook, ZpEach, ZpLines
<1>2. \A s \in Zpc!Store : Zpc!Resolves(zFiles[s], id) => id \in Zpc!Ids(s)
    BY <1>1, ZpClaims DEF Zpc!Resolves
<1>3. Zpc!Ids("project") \subseteq Zpc!Ids("global") BY DEF Zpc!Ids, Zpc!Moments
<1>4. PICK s : s = IF Zpc!Resolves(zFiles["project"], id) THEN "project" ELSE "global" OBVIOUS
<1>5. /\ s \in Zpc!Store /\ id \in Zpc!Ids("global")
      /\ s = "project" => id \in Zpc!Ids("project")
    <2>1. \E t \in Zpc!Store : Zpc!Resolves(zFiles[t], id) BY DEF Zpc!Retract
    <2>2. QED BY <1>0, <1>2, <1>3, <1>4, <2>1 DEF Zpc!Store
<1>6. /\ Zpc!Begin(p) /\ Zpc!Keep /\ UNCHANGED Zpc!history BY DEF Zpc!Retract
<1>7. CASE ~evidence
    <2>1. zProc' = zProc BY <1>7 DEF Zpc!Retract
    <2>2. \A files : ZpLoneAs(Zpc!Idle, files) BY ZpIdleProcess
    <2>3. zProc[p] = Zpc!Idle /\ ZpAlones(p, Zpc!Idle) BY <1>6, <2>2, ZpBegins
    <2>4. zProc' = [zProc EXCEPT ![p] = Zpc!Idle] BY <2>1, <2>3 DEF ZpInv, ZpTyped
    <2>5. QED BY <1>6, <2>3, <2>4, ZpIdleProcess, ZpKept
<1>8. CASE evidence
    <2>1. PICK r : r = [at |-> "load", store |-> s, then |-> "append", verb |-> verb, id |-> id,
                        first |-> TRUE, lines |-> {}]
        OBVIOUS
    <2>2. zProc' = [zProc EXCEPT ![p] = r] BY <1>4, <1>8, <2>1 DEF Zpc!Retract, Zpc!Becomes
    <2>3. r \in ZpCorrect(zNext) BY <1>5, <2>1 DEF ZpCorrect
    <2>4. r \in ZpProcess(zNext) /\ r.at = "load" /\ r.then = "append" /\ r.first
        BY <2>1, <2>3 DEF ZpProcess
    <2>5. ZpLoneAs(r, zFiles') BY <2>4 DEF ZpLoneAs, ZpTelling, ZpCorrecting
    <2>6. ZpAlones(p, r) BY <1>6, <2>5, ZpBegins
    <2>7. QED BY <1>6, <2>2, <2>4, <2>6, ZpKept
<1>9. QED BY <1>7, <1>8

\* When a store has been read, the command goes on with what it holds.
LEMMA ZpGoesOn ==
    ASSUME NEW next, NEW c \in ZpReading(next), NEW files, c.then # "end",
           ZpTelling(c, files), ZpCorrecting(c, files)
    PROVE  ZpLoneAs([c EXCEPT !.at = c.then], files)
<1>1. CASE c.then = "tell"
    <2>1. c \in ZpTell(next) BY <1>1, ZpReads
    <2>2. PICK r : r = [c EXCEPT !.at = c.then] OBVIOUS
    <2>3. r.at = "tell" /\ r.then = "tell" /\ r.n = c.n BY <1>1, <2>1, <2>2 DEF ZpTell
    <2>4. ZpTelling(r, files) /\ ZpCorrecting(r, files)
        BY <1>1, <2>3 DEF ZpTelling, ZpCorrecting
    <2>5. QED BY <2>2, <2>3, <2>4 DEF ZpLoneAs
<1>2. CASE c.then = "append"
    <2>1. c \in ZpCorrect(next) BY <1>2, ZpReads
    <2>2. PICK r : r = [c EXCEPT !.at = c.then] OBVIOUS
    <2>3. /\ r.at = "append" /\ r.then = "append" /\ r.verb = c.verb /\ r.id = c.id
          /\ r.first = c.first /\ r.lines = c.lines /\ r.store = c.store
        BY <1>2, <2>1, <2>2 DEF ZpCorrect
    <2>4. \A v : ZpGot(v, c) => ZpGot(v, r) BY <2>3 DEF ZpGot
    <2>5. ZpTelling(r, files) /\ ZpCorrecting(r, files)
        BY <1>2, <2>3, <2>4 DEF ZpTelling, ZpCorrecting
    <2>6. QED BY <2>2, <2>3, <2>5 DEF ZpLoneAs
<1>3. QED BY <1>1, <1>2, ZpReads

\* _zpc_backfill reads a store, finds nothing to fill in, or fails.
LEMMA ZpLoadStore ==
    ASSUME ZpInv, NEW p \in Proc, Zpc!LoadStore(p)
    PROVE  ZpInv' /\ ZpKeepsIds
<1>1. PICK c : c = zProc[p] OBVIOUS
<1>2. c.at = "load" BY <1>1 DEF Zpc!LoadStore
<1>3. c \in ZpReading(zNext) BY <1>1, <1>2, ZpRuns, ZpAt
<1>4. PICK s \in Zpc!Store : s = c.store BY <1>3, ZpReads
<1>5. zFiles[s] \in ZpVersions(s) /\ zFiles[s] \in Seq(Zpc!Row(s))
    BY ZpFileIn DEF ZpInv, ZpBook, ZpEach, ZpLines
<1>6. /\ Zpc!Keep /\ UNCHANGED Zpc!history /\ zAlone' = zAlone /\ zProc[p] # Zpc!Idle
      /\ zFiles' = zFiles
    BY <1>1, <1>2 DEF Zpc!LoadStore, Zpc!Idle, Zpc!Keep
<1>7. p \in zAlone' => ZpTelling(c, zFiles) /\ ZpCorrecting(c, zFiles)
    BY <1>1, <1>2, <1>6, ZpRuns DEF ZpLoneAs
<1>8. CASE zProc' = [zProc EXCEPT ![p] = [at |-> "replace", lines |-> Zpc!AssignIds(zFiles[s]),
                                         of |-> c, store |-> s]]
    <2>1. PICK r : r = [at |-> "replace", lines |-> Zpc!AssignIds(zFiles[s]), of |-> c, store |-> s]
        OBVIOUS
    <2>2. r.at = "replace" /\ r.lines = Zpc!AssignIds(zFiles[s]) /\ r.of = c /\ r.store = s
        BY <2>1
    <2>3. ZpLike(s, zFiles[s], r.lines) BY <1>5, <2>2, ZpLikeSelf
    <2>4. r \in ZpProcess(zNext)
        <3>1. r.lines \in Seq(Zpc!Row(s)) BY <2>3 DEF ZpLike
        <3>2. r \in ZpRewrite(zNext) BY <1>3, <1>4, <2>1, <2>2, <3>1 DEF ZpRewrite, Zpc!Store
        <3>3. QED BY <3>2 DEF ZpProcess
    <2>5. p \in zAlone' => ZpLoneAs(r, zFiles') BY <1>6, <1>7, <2>2 DEF ZpLoneAs
    <2>6. ZpAlones(p, r) BY <1>6, <2>5 DEF ZpAlones
    <2>7. QED BY <1>5, <1>6, <1>8, <2>1, <2>2, <2>3, <2>4, <2>6, ZpKept
<1>9. CASE Zpc!Then(p)
    <2>1. CASE c.then = "end"
        <3>1. zProc' = [zProc EXCEPT ![p] = Zpc!Idle]
            BY <1>1, <1>9, <2>1 DEF Zpc!Then, Zpc!Becomes
        <3>2. ZpAlones(p, Zpc!Idle) BY <1>6, ZpIdleProcess DEF ZpAlones
        <3>3. QED BY <1>6, <3>1, <3>2, ZpIdleProcess, ZpKept
    <2>2. CASE c.then # "end"
        <3>1. PICK r : r = [c EXCEPT !.at = c.then] OBVIOUS
        <3>2. zProc' = [zProc EXCEPT ![p] = r]
            BY <1>1, <1>9, <2>2, <3>1 DEF Zpc!Then, Zpc!Becomes
        <3>3. r \in ZpProcess(zNext) /\ r.at \in {"tell", "append"}
            BY <1>3, <2>2, <3>1, ZpReads
        <3>4. p \in zAlone' => ZpLoneAs(r, zFiles') BY <1>3, <1>6, <1>7, <2>2, <3>1, ZpGoesOn
        <3>5. ZpAlones(p, r) BY <1>6, <3>4 DEF ZpAlones
        <3>6. QED BY <1>6, <3>2, <3>3, <3>5, ZpKept
    <2>3. QED BY <2>1, <2>2
<1>10. QED BY <1>1, <1>4, <1>8, <1>9 DEF Zpc!LoadStore, Zpc!Becomes

\* write_atomic replaces a store with what was read, ids filled in.
LEMMA ZpWriteAtomic ==
    ASSUME ZpInv, NEW p \in Proc, Zpc!WriteAtomic(p)
    PROVE  ZpInv' /\ ZpKeepsIds
<1>1. PICK c : c = zProc[p] OBVIOUS
<1>2. c.at = "replace" BY <1>1 DEF Zpc!WriteAtomic
<1>3. c \in ZpRewrite(zNext) BY <1>1, <1>2, ZpRuns, ZpAt
<1>4. PICK of \in ZpReading(zNext) : of = c.of BY <1>3 DEF ZpRewrite
<1>5. PICK s \in Zpc!Store : s = c.store /\ s = of.store BY <1>3, <1>4 DEF ZpRewrite
<1>6. zFiles[s] \in ZpVersions(s) /\ zFiles[s] \in Seq(Zpc!Row(s))
    BY ZpFileIn DEF ZpInv, ZpBook, ZpEach, ZpLines
<1>7. c.lines \in ZpVersions(s) BY <1>1, <1>2, <1>5 DEF ZpVersions, ZpPending
<1>8. /\ zFiles' = [zFiles EXCEPT ![s] = c.lines] /\ zNext' = zNext /\ zRaced' = zRaced
      /\ zRenamed' = zRenamed /\ zDoubled' = zDoubled /\ zTold' = zTold /\ zFiled' = zFiled
      /\ zAlone' = zAlone /\ zProc[p] # Zpc!Idle
    BY <1>1, <1>2, <1>5 DEF Zpc!WriteAtomic, Zpc!Replace, Zpc!history, Zpc!Idle
<1>9. PICK r : r = IF of.then = "end" THEN Zpc!Idle ELSE [of EXCEPT !.at = of.then] OBVIOUS
<1>10. zProc' = [zProc EXCEPT ![p] = r]
    BY <1>1, <1>4, <1>9 DEF Zpc!WriteAtomic, Zpc!Becomes
<1>11. r \in ZpProcess(zNext) /\ r.at \in {"idle", "tell", "append"}
    BY <1>4, <1>9, ZpReads, ZpIdleProcess
<1>12. ZpQuiet
    <2>1. ZpBook /\ zProc \in [Proc -> ZpProcess(zNext)] BY DEF ZpInv, ZpTyped
    <2>2. QED BY <1>7, <1>8, <1>10, <1>11, <2>1, ZpQuietMove
<1>13. ASSUME p \in zAlone' PROVE ZpLoneAs(r, zFiles')
    <2>1. /\ c.lines = Zpc!AssignIds(zFiles[s])
          /\ ZpTelling(of, zFiles) /\ ZpCorrecting(of, zFiles)
        BY <1>1, <1>2, <1>4, <1>5, <1>8, <1>13, ZpRuns DEF ZpLoneAs
    <2>2. DOMAIN zFiles = Zpc!Store BY DEF ZpInv, ZpBook, ZpCounted
    <2>3. ZpTelling(of, zFiles')
        <3>1. ASSUME of.then = "tell"
              PROVE  LET v == zFiles'["project"]
                     IN v # <<>> /\ Zpc!IsClaim(v[Len(v)]) /\ v[Len(v)].n = of.n
            <4> DEFINE v == zFiles["project"]
                       w == zFiles'["project"]
            <4>1. s = "project" BY <1>5, <3>1, ZpReads
            <4>2. w = Zpc!AssignIds(v) BY <1>8, <2>1, <2>2, <4>1
            <4>3. v # <<>> /\ Zpc!IsClaim(v[Len(v)]) /\ v[Len(v)].n = of.n
                BY <2>1, <3>1 DEF ZpTelling
            <4>4. v \in Seq(Zpc!Row(s)) BY <1>6, <4>1
            <4>5. ZpFilled(s, v, w) BY <4>2, <4>4, ZpFills
            <4>6. Len(v) \in DOMAIN v /\ Len(w) = Len(v)
                <5> HIDE DEF v, w
                <5>1. QED BY <4>3, <4>4, <4>5 DEF ZpFilled
            <4>7. QED
                <5> HIDE DEF v, w
                <5>1. w # <<>> BY <4>3, <4>4, <4>6
                <5>2. Zpc!IsClaim(w[Len(w)]) /\ w[Len(w)].n = of.n
                    BY <4>3, <4>5, <4>6 DEF ZpFilled, Zpc!IsClaim
                <5>3. QED BY <5>1, <5>2 DEF w
        <3>2. QED BY <3>1 DEF ZpTelling
    <2>4. ZpCorrecting(of, zFiles')
        <3>1. of.at = "load" BY ZpReads
        <3>2. Zpc!Other(s) # s /\ zFiles'[Zpc!Other(s)] = zFiles[Zpc!Other(s)]
            BY <1>8, <2>2 DEF Zpc!Other, Zpc!Store
        <3>3. QED BY <1>5, <2>1, <3>1, <3>2 DEF ZpCorrecting
    <2>5. QED BY <1>9, <2>3, <2>4, ZpIdleProcess, ZpGoesOn
<1>14. ZpAlones(p, r) BY <1>8, <1>13 DEF ZpAlones
<1>15. ZpReports BY <1>8 DEF ZpReports
<1>16. \A id : ~ZpPromotes(id) => ~ZpPromotes(id)' BY <1>10, <1>11, ZpPromotesOn
<1>17. QED BY <1>10, <1>11, <1>12, <1>14, <1>15, <1>16, ZpQuietEnds

\* learn reports the id of the last line: its own, if nobody else runs.
LEMMA ZpTells ==
    ASSUME ZpInv, NEW p \in Proc, Zpc!Tell(p)
    PROVE  ZpInv' /\ ZpKeepsIds
<1> DEFINE v == zFiles["project"]
           t == [n |-> zProc[p].n, id |-> IF Zpc!IsClaim(Zpc!Last(v)) THEN Zpc!Last(v).id ELSE None]
<1>1. /\ zProc[p].at = "tell" /\ zProc' = [zProc EXCEPT ![p] = Zpc!Idle]
      /\ zFiles' = zFiles /\ zNext' = zNext /\ zRaced' = zRaced /\ zRenamed' = zRenamed
      /\ zDoubled' = zDoubled /\ zFiled' = zFiled /\ zAlone' = zAlone /\ zProc[p] # Zpc!Idle
      /\ zTold' = IF p \in zAlone THEN zTold \cup {t} ELSE zTold
    BY DEF Zpc!Tell, Zpc!Keep, Zpc!Becomes, Zpc!Idle
<1>2. zProc[p] \in ZpTell(zNext) BY <1>1, ZpRuns, ZpAt
<1>3. "project" \in Zpc!Store /\ v \in ZpVersions("project") BY ZpFileIn DEF Zpc!Store
<1>4. ZpLines("project", v) BY <1>3 DEF ZpInv, ZpBook, ZpEach
<1>5. ASSUME p \in zAlone PROVE \A u \in ZpVersions("project")' : ZpTellsTrue(u, t)
    <2>1. \A q \in Proc \ {p} : zProc[q] = Zpc!Idle BY <1>5, ZpRuns
    <2>2. ZpMoved(p, Zpc!Idle, "project") BY <1>1, <1>3, ZpMoves DEF ZpInv, ZpTyped
    <2>3. \A u \in ZpVersions("project")' : u = v
        BY <1>1, <2>1, <2>2, ZpIdleProcess DEF ZpMoved
    <2>4. v # <<>> /\ v[Len(v)].n = zProc[p].n
        <3>1. ZpTelling(zProc[p], zFiles) BY <1>1, <1>5, ZpRuns DEF ZpLoneAs
        <3>2. QED BY <1>2, <3>1 DEF ZpTelling, ZpTell
    <2>5. Len(v) \in DOMAIN v /\ v \in Seq(Zpc!Row("project"))
        <3>1. v \in Seq(Zpc!Row("project")) BY <1>4 DEF ZpLines
        <3> HIDE DEF v
        <3>2. QED BY <2>4, <3>1
    <2>6. Zpc!Last(v) = v[Len(v)] BY DEF Zpc!Last
    <2>7. ZpFilled("project", v, Zpc!AssignIds(v)) BY <1>3, <2>5, ZpFills
    <2>8. t.n = v[Len(v)].n /\ t.id = IF Zpc!IsClaim(v[Len(v)]) THEN v[Len(v)].id ELSE None
        BY <2>4, <2>6
    <2> HIDE DEF v, t
    <2>9. ASSUME t.id # None, NEW i \in DOMAIN v, Zpc!IsClaim(v[i]), v[i].n = t.n
          PROVE  ZpId(v, i) = t.id
        <3>1. i = Len(v) BY <1>4, <2>5, <2>8, <2>9 DEF ZpLines
        <3>2. QED BY <2>5, <2>7, <2>8, <2>9, <3>1 DEF ZpFilled
    <2>10. ZpTellsTrue(v, t) BY <2>9 DEF ZpTellsTrue
    <2>11. QED BY <2>3, <2>10
<1>6. t.n \in 1..zNext BY <1>2 DEF ZpTell
<1> HIDE DEF v, t
<1>7. ZpReports BY <1>1, <1>5, <1>6 DEF ZpReports
<1>8. ZpBook /\ zProc \in [Proc -> ZpProcess(zNext)] BY DEF ZpInv, ZpTyped
<1>9. ZpQuiet BY <1>1, <1>8, ZpIdleProcess, ZpQuietMove
<1>10. ZpAlones(p, Zpc!Idle) BY <1>1, ZpIdleProcess DEF ZpAlones
<1>11. \A id : ~ZpPromotes(id) => ~ZpPromotes(id)' BY <1>1, ZpIdleProcess, ZpPromotesOn
<1>12. QED BY <1>1, <1>7, <1>9, <1>10, <1>11, ZpIdleProcess, ZpQuietEnds

\* A line that nothing new becomes of: not a claim of the machine's store.
LEMMA ZpAddEnds ==
    ASSUME ZpInv, NEW p \in Proc, NEW r, zProc' = [zProc EXCEPT ![p] = r],
           r \in ZpProcess(zNext + 1), r.at \notin {"replace", "write", "dest"},
           NEW s \in Zpc!Store, NEW x \in Zpc!Row(s), x.n = zNext + 1, Zpc!AppendTo(p, s, x),
           Zpc!IsClaim(x) => s = "project" /\ x.id = None,
           UNCHANGED Zpc!history, ZpAlones(p, r)
    PROVE  ZpInv' /\ ZpKeepsIds
<1>1. zRenamed' = zRenamed /\ zDoubled' = zDoubled /\ zTold' = zTold /\ zFiled' = zFiled
    BY DEF Zpc!history
<1>2. s = "global" => ~Zpc!Nameless(x) BY DEF Zpc!Nameless
<1>3. ZpGrows(s, x) /\ ZpBook' /\ ZpKeepsIds BY <1>1, <1>2, ZpAppendMove
<1>4. zNext' = zNext + 1 BY DEF Zpc!AppendTo
<1>5. ZpGoes(p, r) BY <1>4, ZpRuns DEF ZpGoes
<1>6. ZpReports BY <1>1 DEF ZpReports
<1>7. \A w : ZpSteps(w)
    <2>1. s = "global" /\ Zpc!IsClaim(x) => FALSE OBVIOUS
    <2>2. QED BY <1>3, <2>1 DEF ZpSteps
<1>8. \A id : ~ZpPromotes(id) => ~ZpPromotes(id)' BY ZpPromotesOn
<1>9. ZpSpares BY <1>1, <1>7, <1>8 DEF ZpSpares
<1>10. QED BY <1>3, <1>5, <1>6, <1>9, ZpEnds

\* The last line of a store is the one that was just appended.
LEMMA ZpLastLine ==
    ASSUME ZpInv, NEW p \in Proc, NEW s \in Zpc!Store, NEW x, Zpc!AppendTo(p, s, x)
    PROVE  /\ Len(zFiles'[s]) \in DOMAIN zFiles'[s] /\ zFiles'[s] # <<>>
           /\ zFiles'[s][Len(zFiles'[s])] = x
           /\ \A t \in Zpc!Store : t # s => zFiles'[t] = zFiles[t]
<1>1. zFiles[s] \in Seq(Zpc!Row(s)) BY ZpFileIn DEF ZpInv, ZpBook, ZpEach, ZpLines
<1>2. DOMAIN zFiles = Zpc!Store BY DEF ZpInv, ZpBook, ZpCounted
<1>3. zFiles' = [zFiles EXCEPT ![s] = Append(zFiles[s], x)] BY DEF Zpc!AppendTo
<1>4. PICK v : v = zFiles[s] OBVIOUS
<1>5. zFiles'[s] = Append(v, x) /\ \A t \in Zpc!Store : t # s => zFiles'[t] = zFiles[t]
    BY <1>2, <1>3, <1>4
<1>6. Len(v) \in Nat /\ Len(Append(v, x)) = Len(v) + 1 /\ DOMAIN Append(v, x) = 1..(Len(v) + 1)
      /\ Append(v, x)[Len(v) + 1] = x
    BY <1>1, <1>4
<1>7. Append(v, x) # <<>> BY <1>6
<1>8. QED BY <1>5, <1>6, <1>7

\* learn appends its row.
LEMMA ZpLearn ==
    ASSUME ZpInv, NEW p \in Proc, NEW lesson \in Lesson, Zpc!Learn(p, lesson)
    PROVE  ZpInv' /\ ZpKeepsIds
<1>1. PICK r : r = [at |-> "load", store |-> "project", then |-> "tell", n |-> zNext + 1] OBVIOUS
<1>2. PICK x : x = Zpc!Claim(None, lesson, {}, zNext + 1) OBVIOUS
<1>3. /\ Zpc!Begin(p) /\ Zpc!AppendTo(p, "project", x) /\ UNCHANGED Zpc!history
      /\ zProc' = [zProc EXCEPT ![p] = r]
    BY <1>1, <1>2 DEF Zpc!Learn, Zpc!Becomes
<1>4. zNext \in Nat /\ "project" \in Zpc!Store BY ZpRuns DEF Zpc!Store
<1>5. x \in Zpc!Row("project") /\ Zpc!IsClaim(x) /\ x.n = zNext + 1 /\ x.id = None
    BY <1>2, <1>4 DEF Zpc!Claim, Zpc!Row, Zpc!ClaimRow, Zpc!Moments, Zpc!IsClaim
<1>6. r \in ZpTell(zNext + 1) /\ r.at = "load" /\ r.then = "tell" /\ r.n = zNext + 1
    BY <1>1, <1>4 DEF ZpTell
<1>7. r \in ZpProcess(zNext + 1) BY <1>6 DEF ZpProcess
<1>8. ZpTelling(r, zFiles') BY <1>3, <1>4, <1>5, <1>6, ZpLastLine DEF ZpTelling
<1>9. ZpLoneAs(r, zFiles') BY <1>6, <1>8 DEF ZpLoneAs, ZpCorrecting
<1>10. ZpAlones(p, r) BY <1>3, <1>9, ZpBegins
<1>11. QED BY <1>3, <1>4, <1>5, <1>6, <1>7, <1>10, ZpAddEnds

\* A correction is appended to the store that has the id.
LEMMA ZpAppendCorrection ==
    ASSUME ZpInv, NEW p \in Proc, Zpc!AppendCorrection(p)
    PROVE  ZpInv' /\ ZpKeepsIds
<1>1. PICK c : c = zProc[p] OBVIOUS
<1>2. c.at = "append" BY <1>1 DEF Zpc!AppendCorrection
<1>3. c \in ZpCorrect(zNext) /\ zNext \in Nat BY <1>1, <1>2, ZpRuns, ZpAt
<1>4. PICK s \in Zpc!Store : s = c.store BY <1>3 DEF ZpCorrect
<1>5. PICK x : x = Zpc!Correction(c.verb, c.id, zNext + 1) OBVIOUS
<1>6. PICK r : r = [c EXCEPT !.at = "twin", !.lines = @ \cup {zNext + 1}] OBVIOUS
<1>7. /\ Zpc!AppendTo(p, s, x) /\ UNCHANGED Zpc!history /\ zProc' = [zProc EXCEPT ![p] = r]
      /\ zAlone' = zAlone /\ zProc[p] # Zpc!Idle
    BY <1>1, <1>2, <1>4, <1>5, <1>6 DEF Zpc!AppendCorrection, Zpc!Becomes, Zpc!Idle
<1>8. /\ x \in Zpc!Row(s) /\ ~Zpc!IsClaim(x) /\ x.n = zNext + 1
      /\ x.kind = c.verb /\ x.of = c.id
    BY <1>3, <1>5 DEF ZpCorrect, Zpc!Correction, Zpc!Row, Zpc!IsClaim
<1>9. /\ r \in ZpCorrect(zNext + 1) /\ r.at = "twin" /\ r.verb = c.verb /\ r.id = c.id
      /\ r.first = c.first /\ r.store = c.store /\ r.lines = c.lines \cup {zNext + 1}
      /\ r.then = "append" /\ c.then = "append"
    <2>1. 1..zNext \subseteq 1..(zNext + 1) /\ zNext + 1 \in 1..(zNext + 1) BY <1>3
    <2>2. c.lines \cup {zNext + 1} \in SUBSET (1..(zNext + 1)) BY <1>3, <2>1 DEF ZpCorrect
    <2>3. QED BY <1>3, <1>6, <2>2 DEF ZpCorrect
<1>10. r \in ZpProcess(zNext + 1) BY <1>9 DEF ZpProcess
<1>11. ASSUME p \in zAlone', r.verb = "retracts"
       PROVE  /\ ZpGot(zFiles'[r.store], r)
              /\ ~r.first => ZpGot(zFiles'[Zpc!Other(r.store)], r)
    <2>1. ZpGot(zFiles'[s], r) BY <1>7, <1>8, <1>9, <1>11, ZpLastLine DEF ZpGot
    <2>2. ASSUME ~r.first PROVE ZpGot(zFiles'[Zpc!Other(s)], r)
        <3>1. ZpCorrecting(c, zFiles) BY <1>1, <1>2, <1>7, <1>11, ZpRuns DEF ZpLoneAs
        <3>2. ZpGot(zFiles[Zpc!Other(s)], c) BY <1>4, <1>9, <1>11, <2>2, <3>1 DEF ZpCorrecting
        <3>3. Zpc!Other(s) \in Zpc!Store /\ Zpc!Other(s) # s BY DEF Zpc!Other, Zpc!Store
        <3>4. zFiles'[Zpc!Other(s)] = zFiles[Zpc!Other(s)] BY <1>7, <3>3, ZpLastLine
        <3>5. QED BY <1>9, <3>2, <3>4 DEF ZpGot
    <2>3. QED BY <1>4, <1>9, <2>1, <2>2
<1>12. p \in zAlone' => ZpLoneAs(r, zFiles')
    BY <1>9, <1>11 DEF ZpLoneAs, ZpTelling, ZpCorrecting
<1>13. ZpAlones(p, r) BY <1>7, <1>12 DEF ZpAlones
<1>14. QED BY <1>7, <1>8, <1>9, <1>10, <1>13, ZpAddEnds

\* promote begins: a row that is live has no retraction in its store, so none that was
\* filed is about it.
LEMMA ZpPromote ==
    ASSUME ZpInv, NEW p \in Proc, NEW row, NEW when \in When, NEW complete \in BOOLEAN,
           Zpc!Promote(p, row, when, complete)
    PROVE  ZpInv' /\ ZpKeepsIds
<1>1. /\ Zpc!Begin(p) /\ Zpc!Keep /\ UNCHANGED Zpc!history
      /\ row \in Zpc!LiveClaims(zFiles["project"])
      /\ zFiles' = zFiles /\ zNext' = zNext /\ zRaced' = zRaced /\ zRenamed' = zRenamed
      /\ zDoubled' = zDoubled /\ zTold' = zTold /\ zFiled' = zFiled
    BY DEF Zpc!Promote, Zpc!Keep, Zpc!history
<1>2. CASE zProc' = zProc
    <2>1. zProc[p] = Zpc!Idle /\ ZpAlones(p, Zpc!Idle) BY <1>1, ZpIdleProcess, ZpBegins
    <2>2. zProc' = [zProc EXCEPT ![p] = Zpc!Idle] BY <1>2, <2>1 DEF ZpInv, ZpTyped
    <2>3. QED BY <1>1, <2>1, <2>2, ZpIdleProcess, ZpKept
<1>3. CASE zProc' = [zProc EXCEPT ![p] = [at |-> "dest", row |-> [row EXCEPT !.fires = when]]]
    <2>1. PICK x : x = [row EXCEPT !.fires = when] OBVIOUS
    <2>2. PICK r : r = [at |-> "dest", row |-> x] OBVIOUS
    <2>3. "project" \in Zpc!Store /\ zFiles["project"] \in ZpVersions("project")
        BY ZpFileIn DEF Zpc!Store
    <2>4. ZpLines("project", zFiles["project"]) /\ ZpUnlike(zFiles["project"], zDoubled)
        BY <2>3 DEF ZpInv, ZpBook, ZpEach
    <2>5. zFiles["project"] \in Seq(Zpc!Row("project")) /\ row \in Zpc!Claims(zFiles["project"])
        BY <1>1, <2>4 DEF ZpLines, Zpc!LiveClaims
    <2>6. row \in Zpc!ClaimRow("project") /\ row.id \in Zpc!Ids("project")
        BY <2>3, <2>5, ZpClaims
    <2>7. x \in ZpPromoted /\ x.id = row.id
        <3>1. x.id \in Zpc!Ids("global") BY <2>1, <2>6 DEF Zpc!ClaimRow, Zpc!Ids, Zpc!Moments
        <3>2. x \in Zpc!ClaimRow("global") /\ x.fires = when /\ x.id = row.id
            BY <2>1, <2>6, <3>1 DEF Zpc!ClaimRow, Zpc!Moments
        <3>3. QED BY <2>6, <3>2 DEF ZpPromoted
    <2>8. r \in ZpProcess(zNext) /\ r.at = "dest" /\ r.row = x BY <2>2, <2>7 DEF ZpProcess
    <2>9. zProc' = [zProc EXCEPT ![p] = r] BY <1>3, <2>1, <2>2
    <2>10. ZpAlones(p, r)
        <3>1. ZpLoneAs(r, zFiles') BY <2>8 DEF ZpLoneAs
        <3>2. QED BY <1>1, <3>1, ZpBegins
    <2>11. ZpQuiet
        <3>1. ZpBook /\ zProc \in [Proc -> ZpProcess(zNext)] BY DEF ZpInv, ZpTyped
        <3>2. QED BY <1>1, <2>8, <2>9, <3>1, ZpQuietMove
    <2>12. ZpReports BY <1>1 DEF ZpReports
    <2>13. ASSUME NEW f \in zFiled, f.id \notin zDoubled, ~ZpPromotes(f.id),
                  \A v \in ZpVersions("project") : ZpGot(v, f)
           PROVE  ~ZpPromotes(f.id)'
        <3>1. ZpGot(zFiles["project"], f) BY <2>3, <2>13
        <3>2. row.id # f.id BY <1>1, <2>3, <2>4, <2>13, <3>1, ZpHolds
        <3>3. zProc'[p] = r /\ \A q \in Proc \ {p} : zProc'[q] = zProc[q]
            BY <2>9 DEF ZpInv, ZpTyped
        <3>4. QED BY <2>7, <2>8, <2>13, <3>2, <3>3 DEF ZpPromotes
    <2>14. QED BY <2>8, <2>9, <2>10, <2>11, <2>12, <2>13, ZpQuietEnds
<1>4. QED BY <1>2, <1>3 DEF Zpc!Promote, Zpc!Becomes

\* A command by itself has no other version of a store beside it when it is done.
LEMMA ZpByItself ==
    ASSUME ZpInv, NEW p \in Proc, p \in zAlone, zProc' = [zProc EXCEPT ![p] = Zpc!Idle]
    PROVE  /\ \A s \in Zpc!Store : \A v \in ZpVersions(s)' : v = zFiles'[s]
           /\ \A id : ~ZpPromotes(id)'
<1>1. \A q \in Proc \ {p} : zProc[q] = Zpc!Idle BY ZpRuns
<1>2. \A s \in Zpc!Store : ZpMoved(p, Zpc!Idle, s) BY ZpMoves DEF ZpInv, ZpTyped
<1>3. \A s \in Zpc!Store : \A v \in ZpVersions(s)' : v = zFiles'[s]
    BY <1>1, <1>2, ZpIdleProcess DEF ZpMoved
<1>4. \A q \in Proc : zProc'[q] = Zpc!Idle BY <1>1 DEF ZpInv, ZpTyped
<1>5. \A id : ~ZpPromotes(id)' BY <1>4, ZpIdleProcess DEF ZpPromotes
<1>6. QED BY <1>3, <1>5

\* The correction goes on to the other store if it has the id, too, and is reported as
\* done if not.
LEMMA ZpTwin ==
    ASSUME ZpInv, NEW p \in Proc, Zpc!Twin(p)
    PROVE  ZpInv' /\ ZpKeepsIds
<1>1. PICK c : c = zProc[p] OBVIOUS
<1>2. c.at = "twin" BY <1>1 DEF Zpc!Twin
<1>3. c \in ZpCorrect(zNext) /\ zNext \in Nat BY <1>1, <1>2, ZpRuns, ZpAt
<1>4. PICK s \in Zpc!Store : s = c.store BY <1>3 DEF ZpCorrect
<1>5. PICK o \in Zpc!Store : o = Zpc!Other(s) /\ o # s /\ s = Zpc!Other(o)
    BY DEF Zpc!Other, Zpc!Store
<1>6. /\ Zpc!Keep /\ zFiles' = zFiles /\ zNext' = zNext /\ zRaced' = zRaced
      /\ zRenamed' = zRenamed /\ zDoubled' = zDoubled /\ zTold' = zTold
      /\ zAlone' = zAlone /\ zProc[p] # Zpc!Idle
    BY <1>1, <1>2 DEF Zpc!Twin, Zpc!Keep, Zpc!Idle
<1>7. ASSUME p \in zAlone, c.verb = "retracts"
      PROVE  ZpGot(zFiles[s], c) /\ (~c.first => ZpGot(zFiles[o], c))
    <2>1. ZpCorrecting(c, zFiles) BY <1>1, <1>2, <1>7, ZpRuns DEF ZpLoneAs
    <2>2. c.then = "append" BY <1>3 DEF ZpCorrect
    <2>3. QED BY <1>2, <1>4, <1>5, <1>7, <2>1, <2>2 DEF ZpCorrecting
<1>8. CASE Zpc!HasTwin(p, zProc[p].id)
    <2>1. PICK r : r = [c EXCEPT !.at = "load", !.store = Zpc!Other(@), !.first = FALSE] OBVIOUS
    <2>2. zProc' = [zProc EXCEPT ![p] = r] /\ zFiled' = zFiled
        BY <1>1, <1>8, <2>1 DEF Zpc!Twin, Zpc!Becomes
    <2>3. /\ r \in ZpCorrect(zNext) /\ r.at = "load" /\ r.store = o /\ ~r.first
          /\ r.verb = c.verb /\ r.id = c.id /\ r.lines = c.lines /\ r.then = "append"
        BY <1>3, <1>4, <1>5, <2>1 DEF ZpCorrect
    <2>4. r \in ZpProcess(zNext) BY <2>3 DEF ZpProcess
    <2>5. ASSUME p \in zAlone' PROVE ZpLoneAs(r, zFiles')
        <3>1. r.verb = "retracts" => ZpGot(zFiles'[Zpc!Other(r.store)], r)
            BY <1>5, <1>6, <1>7, <2>3, <2>5 DEF ZpGot
        <3>2. QED BY <2>3, <3>1 DEF ZpLoneAs, ZpTelling, ZpCorrecting
    <2>6. ZpAlones(p, r) BY <1>6, <2>5 DEF ZpAlones
    <2>7. UNCHANGED Zpc!history BY <1>6, <2>2 DEF Zpc!history
    <2>8. QED BY <1>6, <2>2, <2>3, <2>4, <2>6, <2>7, ZpKept
<1>9. CASE ~Zpc!HasTwin(p, zProc[p].id)
    <2>1. PICK f : f = [id |-> c.id, lines |-> c.lines] OBVIOUS
    <2>2. /\ zProc' = [zProc EXCEPT ![p] = Zpc!Idle]
          /\ zFiled' = IF c.verb = "retracts" /\ p \in zAlone THEN zFiled \cup {f} ELSE zFiled
        BY <1>1, <1>9, <2>1 DEF Zpc!Twin, Zpc!Becomes
    <2>3. f.id = c.id /\ f.lines = c.lines /\ f.lines \subseteq 1..zNext
        BY <1>3, <2>1 DEF ZpCorrect
    <2>4. ASSUME c.verb = "retracts", p \in zAlone PROVE ZpReached(f)'
        <3>1. /\ \A t \in Zpc!Store : \A v \in ZpVersions(t)' : v = zFiles[t]
              /\ \A id : ~ZpPromotes(id)'
            BY <1>6, <2>2, <2>4, ZpByItself
        <3>2. ZpGot(zFiles[s], f) /\ (~c.first => ZpGot(zFiles[o], f))
            BY <1>7, <2>3, <2>4 DEF ZpGot
        <3>3. "project" \in Zpc!Store /\ "global" \in Zpc!Store /\ {s, o} = {"project", "global"}
            BY <1>5 DEF Zpc!Store
        <3>4. CASE ~c.first
            <4>1. ZpGot(zFiles["project"], f) /\ ZpGot(zFiles["global"], f)
                BY <3>2, <3>3, <3>4
            <4>2. /\ \A v \in ZpVersions("project")' : ZpGot(v, f)
                  /\ \A v \in ZpVersions("global")' : ZpGot(v, f)
                BY <3>1, <3>3, <4>1
            <4>3. QED BY <4>2 DEF ZpReached
        <3>5. CASE c.first
            <4>1. zFiles[o] \in Seq(Zpc!Row(o))
                BY ZpFileIn DEF ZpInv, ZpBook, ZpEach, ZpLines
            <4>2. ~Zpc!Resolves(zFiles[o], c.id)
                BY <1>1, <1>4, <1>5, <1>9, <3>5 DEF Zpc!HasTwin
            <4>3. \A i \in DOMAIN zFiles[o] : Zpc!IsClaim(zFiles[o][i]) => ZpId(zFiles[o], i) # f.id
                BY <2>3, <4>1, <4>2, ZpResolves
            <4>4. CASE s = "project"
                <5>1. f.id \in Zpc!Ids("project") BY <1>3, <1>4, <2>3, <3>5, <4>4 DEF ZpCorrect
                <5>2. ZpLacks(zFiles["global"], f) BY <3>3, <4>3, <4>4 DEF ZpLacks
                <5>3. \A v \in ZpVersions("project")' : ZpGot(v, f) BY <3>1, <3>2, <3>3, <4>4
                <5>4. \A v \in ZpVersions("global")' : ZpLacks(v, f) BY <3>1, <3>3, <5>2
                <5>5. f.id \in Zpc!Ids("project")' BY <5>1 DEF Zpc!Ids, Zpc!Moments
                <5>6. QED BY <3>1, <5>3, <5>4, <5>5 DEF ZpReached
            <4>5. CASE s = "global"
                <5>1. ZpSince(zFiles["project"], f) BY <3>3, <4>3, <4>5 DEF ZpSince
                <5>2. \A v \in ZpVersions("global")' : ZpGot(v, f) BY <3>1, <3>2, <3>3, <4>5
                <5>3. \A v \in ZpVersions("project")' : ZpSince(v, f) BY <3>1, <3>3, <5>1
                <5>4. QED BY <5>2, <5>3 DEF ZpReached
            <4>6. QED BY <4>4, <4>5 DEF Zpc!Store
        <3>6. QED BY <3>4, <3>5
    <2>5. ZpReports BY <1>6, <2>2, <2>3, <2>4 DEF ZpReports
    <2>6. ZpQuiet
        <3>1. ZpBook /\ zProc \in [Proc -> ZpProcess(zNext)] BY DEF ZpInv, ZpTyped
        <3>2. QED BY <1>6, <2>2, <3>1, ZpIdleProcess, ZpQuietMove
    <2>7. ZpAlones(p, Zpc!Idle) BY <1>6, ZpIdleProcess DEF ZpAlones
    <2>8. \A id : ~ZpPromotes(id) => ~ZpPromotes(id)' BY <2>2, ZpIdleProcess, ZpPromotesOn
    <2>9. QED BY <2>2, <2>5, <2>6, <2>7, <2>8, ZpIdleProcess, ZpQuietEnds
<1>10. QED BY <1>8, <1>9

\* promote renews the rows about its problem, or appends its own: by itself no row of
\* the destination has its id, and one that is nameless there has another lesson.
LEMMA ZpWriteDest ==
    ASSUME ZpInv, NEW p \in Proc, Zpc!WriteDest(p)
    PROVE  ZpInv' /\ ZpKeepsIds
<1>1. PICK c : c = zProc[p] OBVIOUS
<1>2. c.at = "write" BY <1>1 DEF Zpc!WriteDest
<1>3. c \in [at : {"write"}, store : {"global"}, row : ZpPromoted, lines : Seq(Zpc!Row("global"))]
    BY <1>1, <1>2, ZpRuns, ZpAt
<1>4. PICK row \in ZpPromoted : row = c.row BY <1>3
<1>5. PICK u \in Seq(Zpc!Row("global")) : u = c.lines BY <1>3
<1>6. "global" \in Zpc!Store /\ u \in ZpVersions("global") /\ zFiles["global"] \in ZpVersions("global")
    BY <1>1, <1>2, <1>3, <1>5, ZpFileIn DEF ZpVersions, ZpPending, Zpc!Store
<1>7. PICK problem : problem = Problem[row.lesson] OBVIOUS
<1> DEFINE Same(r) == Zpc!IsClaim(r) /\ Problem[r.lesson] = problem
           same == {r \in Zpc!ToSet(u) : Same(r)}
<1>8. /\ IF same # {} THEN Zpc!Replace("global", ZpRenew(u, problem, row.fires))
         ELSE Zpc!AppendTo(p, "global", [row EXCEPT !.n = zNext + 1])
      /\ zRenamed' = zRenamed \cup {r.n : r \in {x \in same : x.id = None}}
    BY <1>1, <1>4, <1>5, <1>7 DEF Zpc!WriteDest, ZpRenew
<1>9. /\ zProc' = [zProc EXCEPT ![p] = Zpc!Idle]
      /\ zDoubled' = IF p \in zAlone THEN zDoubled ELSE zDoubled \cup {row.id}
      /\ zFiled' = zFiled /\ zTold' = zTold /\ zAlone' = zAlone /\ zProc[p] # Zpc!Idle
    BY <1>1, <1>2, <1>4 DEF Zpc!WriteDest, Zpc!Becomes, Zpc!Idle
<1>10. ZpAlones(p, Zpc!Idle) BY <1>9, ZpIdleProcess DEF ZpAlones
<1>11. ZpReports BY <1>9 DEF ZpReports
<1>12. \A id : ~ZpPromotes(id) => ~ZpPromotes(id)' BY <1>9, ZpIdleProcess, ZpPromotesOn
<1>13. zDoubled \subseteq zDoubled' BY <1>9
<1>14. /\ row \in Zpc!ClaimRow("global") /\ row.id \in Zpc!Ids("project") /\ row.fires \in When
       /\ row.id # None /\ row.id[1][1] = row.lesson /\ Zpc!IsClaim(row)
    <2>1. Zpc!Ids("project") \subseteq Zpc!Ids("global") BY DEF Zpc!Ids, Zpc!Moments
    <2>2. QED BY <2>1, ZpcAssumption DEF ZpPromoted, Zpc!ClaimRow, Zpc!IsClaim
<1>15. \A j \in DOMAIN u : Same(u[j]) => u[j] \in same BY DEF Zpc!ToSet
<1>16. \A r \in same : \E j \in DOMAIN u : r = u[j] BY DEF Zpc!ToSet
<1>17. \A r : r \in same => Same(r) OBVIOUS
<1> HIDE DEF same
<1>18. CASE same # {}
    <2>1. {r.n : r \in {x \in same : x.id = None}} = ZpNewly(u, problem)
        BY <1>15, <1>16, <1>17 DEF ZpNewly, Zpc!Nameless
    <2>2. \A t \in Zpc!Store : ZpVersions(t)' \subseteq ZpVersions(t) \cup {zFiles'[t]}
        <3>1. \A t \in Zpc!Store : ZpMoved(p, Zpc!Idle, t)
            BY <1>9, ZpMoves DEF ZpInv, ZpTyped
        <3>2. QED BY <3>1, ZpIdleProcess DEF ZpMoved
    <2>3. /\ zFiles' = [zFiles EXCEPT !["global"] = ZpRenew(u, problem, row.fires)]
          /\ zNext' = zNext /\ zRaced' = zRaced
        BY <1>8, <1>18 DEF Zpc!Replace
    <2>4. ZpRenewal(u, problem, row.fires)
        BY <1>6, <1>8, <1>13, <1>14, <2>1, <2>2, <2>3 DEF ZpRenewal
    <2>5. ZpBook' /\ ZpKeepsIds BY <2>4, ZpRenewalBook DEF ZpInv
    <2>6. ZpGoes(p, Zpc!Idle) BY <1>9, <2>3, ZpRuns, ZpIdleProcess DEF ZpGoes
    <2>7. \A w : ZpSteps(w) BY <2>4 DEF ZpSteps
    <2>8. ZpSpares BY <1>12, <1>13, <2>7 DEF ZpSpares
    <2>9. QED BY <1>10, <1>11, <2>5, <2>6, <2>8, ZpEnds
<1>19. CASE same = {}
    <2>1. PICK x : x = [row EXCEPT !.n = zNext + 1] OBVIOUS
    <2>2. zNext \in Nat BY ZpRuns
    <2>3. /\ x \in Zpc!Row("global") /\ x.n = zNext + 1 /\ x.id = row.id /\ x.lesson = row.lesson
          /\ Zpc!IsClaim(x) /\ ~Zpc!Nameless(x)
        <3>1. /\ x \in Zpc!ClaimRow("global") /\ x.n = zNext + 1 /\ x.id = row.id
              /\ x.lesson = row.lesson
            BY <1>14, <2>1, <2>2 DEF Zpc!ClaimRow
        <3>2. QED BY <1>14, <3>1 DEF Zpc!Row, Zpc!ClaimRow, Zpc!IsClaim, Zpc!Nameless
    <2>4. Zpc!AppendTo(p, "global", x) /\ zRenamed' = zRenamed BY <1>8, <1>19, <2>1
    <2>5. ASSUME NEW i \in DOMAIN zFiles["global"], Zpc!IsClaim(zFiles["global"][i])
          PROVE  /\ zFiles["global"][i].id = None => zFiles["global"][i].lesson # x.lesson
                 /\ zFiles["global"][i].id = x.id => x.id \in zDoubled'
        <3>1. PICK v : v = zFiles["global"] OBVIOUS
        <3>2. \A j \in DOMAIN u : ~Same(u[j]) BY <1>15, <1>19
        <3>3. v[i].id = None => v[i].lesson # x.lesson
            <4>1. SUFFICES ASSUME v[i].id = None PROVE v[i].lesson # x.lesson OBVIOUS
            <4>2. /\ ZpAgree(v, u, zRenamed, zRaced) /\ ZpFresh("global", v, zRenamed, zRaced)
                BY <1>6, <3>1 DEF ZpInv, ZpBook, ZpTogether, ZpEach
            <4>3. v[i].n \notin zRaced BY <2>5, <3>1, <4>1, <4>2 DEF ZpFresh, Zpc!Nameless
            <4>4. PICK j \in DOMAIN u : u[j].n = v[i].n BY <2>5, <3>1, <4>2, <4>3 DEF ZpAgree
            <4>5. Zpc!IsClaim(u[j]) /\ u[j].lesson = v[i].lesson
                BY <2>5, <3>1, <4>2, <4>4 DEF ZpAgree
            <4>6. QED BY <1>7, <2>3, <3>2, <4>5
        <3>4. v[i].id = x.id => x.id \in zDoubled'
            <4>1. CASE p \notin zAlone BY <1>9, <2>3, <4>1
            <4>2. CASE p \in zAlone
                <5>1. u = v BY <1>1, <1>2, <1>5, <3>1, <4>2, ZpRuns DEF ZpLoneAs
                <5>2. v[i] \in Zpc!Row("global") BY <1>5, <2>5, <3>1, <5>1
                <5>3. v[i].id # None => v[i].id[1][1] = v[i].lesson
                    BY <1>6, <2>5, <3>1, <5>2, ZpRows
                <5>4. v[i].id # x.id BY <1>7, <1>14, <2>3, <2>5, <3>1, <3>2, <5>1, <5>3
                <5>5. QED BY <5>4
            <4>3. QED BY <4>1, <4>2
        <3>5. QED BY <3>1, <3>3, <3>4
    <2>6. ZpGrows("global", x) /\ ZpBook' /\ ZpKeepsIds
        BY <1>6, <1>9, <1>13, <2>3, <2>4, <2>5, ZpIdleProcess, ZpAppendMove
    <2>7. zNext' = zNext + 1 BY <2>4 DEF Zpc!AppendTo
    <2>8. ZpGoes(p, Zpc!Idle) BY <1>9, <2>2, <2>7, ZpIdleProcess DEF ZpGoes
    <2>9. \A w : x.id \notin w => ZpSteps(w) BY <1>6, <1>14, <2>3, <2>6 DEF ZpSteps
    <2>10. ZpPromotes(row.id) BY <1>1, <1>2, <1>4 DEF ZpPromotes
    <2>11. ZpSpares BY <1>12, <1>13, <2>3, <2>9, <2>10 DEF ZpSpares
    <2>12. QED BY <1>10, <1>11, <2>6, <2>8, <2>11, ZpEnds
<1>20. QED BY <1>18, <1>19

-----------------------------------------------------------------------------
(* The theorems.                                                          *)

\* Stores that are well kept satisfy the invariant.
LEMMA ZpInvInit ==
    ASSUME Zpc!Init
    PROVE  ZpInv
<1>1. /\ zFiles \in ZpcGiven /\ zNext = Len(zFiles["project"]) + Len(zFiles["global"])
      /\ zProc = [p \in Proc |-> Zpc!Idle] /\ zRenamed = {} /\ zRaced = {} /\ zDoubled = {}
      /\ zFiled = {} /\ zTold = {} /\ zAlone = {}
    BY DEF Zpc!Init
<1>2. Zpc!WellKept(zFiles) BY <1>1, ZpcAssumption
<1>3. "project" \in Zpc!Store /\ "global" \in Zpc!Store BY DEF Zpc!Store
<1>4. \A s \in Zpc!Store : zFiles[s] \in Seq(Zpc!Row(s)) BY <1>2 DEF Zpc!WellKept
<1>5. zNext \in Nat
    <2>1. \A S : \A v \in Seq(S) : Len(v) \in Nat OBVIOUS
    <2>2. Len(zFiles["project"]) \in Nat /\ Len(zFiles["global"]) \in Nat BY <1>3, <1>4, <2>1
    <2>3. \A a, b \in Nat : a + b \in Nat OBVIOUS
    <2>4. QED BY <1>1, <2>2, <2>3
<1>6. \A p \in Proc : zProc[p].at = "idle" BY <1>1, ZpIdleProcess
<1>7. \A s \in Zpc!Store : ZpVersions(s) = {zFiles[s]} BY <1>6 DEF ZpVersions, ZpPending
<1>8. /\ \A s \in Zpc!Store : \A i \in DOMAIN zFiles[s] : zFiles[s][i].n \in 1..zNext
      /\ 1..zNext \subseteq Zpc!Lines
    <2>1. 1..zNext = UNION {{zFiles[s][i].n : i \in DOMAIN zFiles[s]} : s \in Zpc!Store}
        BY <1>1, <1>2 DEF Zpc!WellKept, Zpc!Numbered
    <2>2. ASSUME NEW s \in Zpc!Store, NEW i \in DOMAIN zFiles[s]
          PROVE  zFiles[s][i].n \in 1..zNext
        BY <2>1
    <2>3. ASSUME NEW k \in 1..zNext PROVE k \in Zpc!Lines
        <3>1. \E s \in Zpc!Store : \E i \in DOMAIN zFiles[s] : zFiles[s][i].n = k BY <2>1
        <3>2. QED BY <3>1, ZpNumbers
    <2>4. QED BY <2>2, <2>3
<1>9. /\ \A s, t \in Zpc!Store : \A i \in DOMAIN zFiles[s], j \in DOMAIN zFiles[t] :
            zFiles[s][i].n = zFiles[t][j].n => s = t /\ i = j
      /\ \A s \in Zpc!Store : \A i, j \in DOMAIN zFiles[s] :
          (/\ Zpc!IsClaim(zFiles[s][i]) /\ Zpc!IsClaim(zFiles[s][j])
           /\ zFiles[s][i].id = zFiles[s][j].id)
          => i = j \/ zFiles[s][i].id = None
    BY <1>2 DEF Zpc!WellKept
<1>10. ZpBook
    <2>1. ZpCounted BY <1>1, <1>2, <1>5 DEF ZpCounted, Zpc!WellKept
    <2>2. ZpEach
        <3>1. ASSUME NEW s \in Zpc!Store
              PROVE  /\ ZpLines(s, zFiles[s]) /\ ZpUnlike(zFiles[s], zDoubled)
                     /\ ZpFresh(s, zFiles[s], zRenamed, zRaced)
            <4>1. ZpLines(s, zFiles[s]) BY <1>4, <1>9 DEF ZpLines
            <4>2. ZpUnlike(zFiles[s], zDoubled) BY <1>9 DEF ZpUnlike
            <4>3. ZpFresh(s, zFiles[s], zRenamed, zRaced) BY <1>1 DEF ZpFresh
            <4>4. QED BY <4>1, <4>2, <4>3
        <3>2. QED BY <1>7, <1>8, <3>1 DEF ZpEach
    <2>3. ZpTogether
        <3>1. ASSUME NEW s \in Zpc!Store
              PROVE  ZpAgree(zFiles[s], zFiles[s], zRenamed, zRaced)
            BY <1>9 DEF ZpAgree
        <3>2. QED BY <1>7, <3>1 DEF ZpTogether
    <2>4. ZpApart
        <3>1. \A i \in DOMAIN zFiles["project"], j \in DOMAIN zFiles["global"] :
                  zFiles["project"][i].n # zFiles["global"][j].n
            BY <1>3, <1>9
        <3>2. QED BY <1>3, <1>7, <3>1 DEF ZpApart
    <2>5. Zpc!LostHasCause BY <1>8 DEF Zpc!LostHasCause
    <2>6. QED BY <2>1, <2>2, <2>3, <2>4, <2>5 DEF ZpBook
<1>11. ZpTyped /\ ZpToldTrue /\ ZpFiledReach
    BY <1>1, ZpIdleProcess DEF ZpTyped, ZpToldTrue, ZpFiledReach
<1>12. QED BY <1>1, <1>10, <1>11 DEF ZpInv

\* Every step of every command keeps it, and lets no row change its id.
LEMMA ZpInvStep ==
    ASSUME ZpInv, Zpc!Next
    PROVE  ZpInv' /\ ZpKeepsIds
<1>1. PICK p \in Proc :
        \/ \E lesson \in Lesson : Zpc!Learn(p, lesson)
        \/ Zpc!Backfill(p)
        \/ \E s \in Zpc!Store : \E r \in Zpc!Claims(zFiles[s]), verb \in {"retracts", "challenges"},
              b \in BOOLEAN : Zpc!Retract(p, verb, r.id, b)
        \/ \E r \in Zpc!Claims(zFiles["project"]), w \in When, b \in BOOLEAN : Zpc!Promote(p, r, w, b)
        \/ Zpc!LoadStore(p) \/ Zpc!WriteAtomic(p) \/ Zpc!Tell(p)
        \/ Zpc!AppendCorrection(p) \/ Zpc!Twin(p) \/ Zpc!ReadDest(p) \/ Zpc!WriteDest(p)
        \/ Zpc!Kill(p)
    BY DEF Zpc!Next
<1>2. CASE \E lesson \in Lesson : Zpc!Learn(p, lesson) BY <1>2, ZpLearn
<1>3. CASE Zpc!Backfill(p) BY <1>3, ZpBackfill
<1>4. CASE \E s \in Zpc!Store : \E r \in Zpc!Claims(zFiles[s]), verb \in {"retracts", "challenges"},
              b \in BOOLEAN : Zpc!Retract(p, verb, r.id, b)
    BY <1>4, ZpRetract
<1>5. CASE \E r \in Zpc!Claims(zFiles["project"]), w \in When, b \in BOOLEAN : Zpc!Promote(p, r, w, b)
    BY <1>5, ZpPromote
<1>6. CASE Zpc!LoadStore(p) BY <1>6, ZpLoadStore
<1>7. CASE Zpc!WriteAtomic(p) BY <1>7, ZpWriteAtomic
<1>8. CASE Zpc!Tell(p) BY <1>8, ZpTells
<1>9. CASE Zpc!AppendCorrection(p) BY <1>9, ZpAppendCorrection
<1>10. CASE Zpc!Twin(p) BY <1>10, ZpTwin
<1>11. CASE Zpc!ReadDest(p) BY <1>11, ZpReadDest
<1>12. CASE Zpc!WriteDest(p) BY <1>12, ZpWriteDest
<1>13. CASE Zpc!Kill(p) BY <1>13, ZpKill
<1>14. QED BY <1>1, <1>2, <1>3, <1>4, <1>5, <1>6, <1>7, <1>8, <1>9, <1>10, <1>11, <1>12, <1>13

\* So does a step that leaves agent-zpc alone.
LEMMA ZpInvStays ==
    ASSUME ZpInv, UNCHANGED zpcState
    PROVE  ZpInv'
<1>1. /\ zFiles' = zFiles /\ zProc' = zProc /\ zNext' = zNext /\ zRaced' = zRaced
      /\ zRenamed' = zRenamed /\ zDoubled' = zDoubled /\ zTold' = zTold /\ zFiled' = zFiled
      /\ zAlone' = zAlone
    BY DEF zpcState
<1>2. \A s : ZpVersions(s)' = ZpVersions(s) BY <1>1 DEF ZpVersions, ZpPending
<1>3. ZpQuiet
    <2>1. DOMAIN zFiles' = Zpc!Store BY <1>1 DEF ZpInv, ZpBook, ZpCounted
    <2>2. \A s \in Zpc!Store : \A v \in ZpVersions(s) : ZpLike(s, v, v)
        BY ZpLikeSelf DEF ZpInv, ZpBook, ZpEach, ZpLines
    <2>3. QED BY <1>1, <1>2, <2>1, <2>2 DEF ZpQuiet
<1>4. ZpBook' BY <1>3, ZpQuietBook DEF ZpInv
<1>5. ZpTyped'
    <2>1. ZpProcess(zNext)' = ZpProcess(zNext)
        BY <1>1 DEF ZpProcess, Zpc!Idle, ZpLoad, ZpTell, ZpCorrect, ZpRewrite, ZpReading, ZpPromoted,
               Zpc!Row, Zpc!ClaimRow, Zpc!Ids, Zpc!Moments, Zpc!Store
    <2>2. QED BY <1>1, <2>1 DEF ZpInv, ZpTyped
<1>6. ZpToldTrue' BY <1>1, <1>2 DEF ZpInv, ZpToldTrue
<1>7. ZpFiledReach'
    <2>1. \A id : ZpPromotes(id)' <=> ZpPromotes(id) BY <1>1 DEF ZpPromotes
    <2>2. ASSUME NEW f \in zFiled, ZpReached(f) PROVE ZpReached(f)'
        BY <1>2, <2>1, <2>2 DEF ZpReached, Zpc!Ids, Zpc!Moments
    <2>3. QED BY <1>1, <2>2 DEF ZpInv, ZpFiledReach
<1>8. ASSUME NEW p \in Proc \cap zAlone' PROVE ZpLone(p)'
    <2>1. ZpLone(p) BY <1>1, <1>8 DEF ZpInv
    <2>2. QED BY <1>1, <2>1 DEF ZpLone, Zpc!Idle, ZpLoneAs, ZpTelling, ZpCorrecting, Zpc!Other,
              ZpGot, Zpc!IsClaim
<1>9. QED BY <1>4, <1>5, <1>6, <1>7, <1>8 DEF ZpInv

\* What it says of the two stores.
LEMMA ZpStands ==
    ASSUME ZpInv
    PROVE  Zpc!LostHasCause /\ Zpc!RetractionReaches /\ Zpc!ToldIsOwn
<1>1. "project" \in Zpc!Store /\ "global" \in Zpc!Store BY DEF Zpc!Store
<1>2. \A s \in Zpc!Store : /\ zFiles[s] \in Seq(Zpc!Row(s)) /\ ZpLines(s, zFiles[s])
                           /\ ZpUnlike(zFiles[s], zDoubled)
    BY ZpFileIn DEF ZpInv, ZpBook, ZpEach, ZpLines
<1>3. Zpc!LostHasCause BY DEF ZpInv, ZpBook
<1>4. Zpc!ToldIsOwn
    <2>1. SUFFICES ASSUME NEW t \in zTold, t.id # None, NEW r \in Zpc!Claims(zFiles["project"]),
                          r.n = t.n
                   PROVE  r.id = t.id
        BY DEF Zpc!ToldIsOwn
    <2>2. ZpTellsTrue(zFiles["project"], t) BY <1>1, ZpFileIn DEF ZpInv, ZpToldTrue
    <2>3. PICK i \in DOMAIN zFiles["project"] :
              /\ Zpc!IsClaim(zFiles["project"][i]) /\ r.id = ZpId(zFiles["project"], i)
              /\ r.n = zFiles["project"][i].n
        BY <1>1, <1>2, ZpClaims
    <2>4. QED BY <2>1, <2>2, <2>3 DEF ZpTellsTrue
<1>5. Zpc!RetractionReaches
    <2>1. SUFFICES ASSUME NEW f \in zFiled, f.id \notin zDoubled, ~Zpc!LearnedSince(f),
                          NEW s \in Zpc!Store, NEW r \in Zpc!LiveClaims(zFiles[s])
                   PROVE  r.id # f.id
        BY DEF Zpc!RetractionReaches
    <2>2. ZpReached(f) BY <2>1 DEF ZpInv, ZpFiledReach
    <2>3. r \in Zpc!Claims(zFiles[s]) BY DEF Zpc!LiveClaims
    <2>4. PICK i \in DOMAIN zFiles[s] :
              Zpc!IsClaim(zFiles[s][i]) /\ r.id = ZpId(zFiles[s], i) /\ r.n = zFiles[s][i].n
        BY <1>2, <2>3, ZpClaims
    <2>5. zFiles[s] \in ZpVersions(s) BY ZpFileIn
    <2>6. CASE ZpGot(zFiles[s], f) BY <1>2, <2>1, <2>6, ZpHolds
    <2>7. CASE s = "project" /\ ZpSince(zFiles[s], f)
        <3>1. SUFFICES ASSUME r.id = f.id PROVE Zpc!LearnedSince(f) BY <2>1
        <3>2. \A n \in f.lines : n < r.n BY <2>4, <2>7, <3>1 DEF ZpSince
        <3>3. QED BY <2>3, <2>7, <3>1, <3>2 DEF Zpc!LearnedSince
    <2>8. CASE s = "global" /\ ZpLacks(zFiles[s], f) BY <2>4, <2>8 DEF ZpLacks
    <2>9. QED BY <2>2, <2>5, <2>6, <2>7, <2>8 DEF ZpReached, Zpc!Store
<1>6. QED BY <1>3, <1>4, <1>5

\* Readers know the same rows by the same ids before and after a step.
LEMMA ZpRowsKeepIds ==
    ASSUME ZpInv, ZpInv', ZpKeepsIds
    PROVE  Zpc!RowsKeepIds
<1>1. SUFFICES ASSUME NEW s \in Zpc!Store, NEW r \in Zpc!Claims(zFiles[s]),
                      NEW x \in Zpc!Claims(zFiles'[s]), r.n = x.n
               PROVE  r.id = x.id \/ r.n \in zRenamed'
    BY DEF Zpc!RowsKeepIds
<1>2. zFiles[s] \in Seq(Zpc!Row(s))
    BY ZpFileIn DEF ZpInv, ZpBook, ZpEach, ZpLines
<1>3. zFiles'[s] \in Seq(Zpc!Row(s))
    <2>1. zFiles'[s] \in ZpVersions(s)' BY DEF ZpVersions
    <2>2. ZpLines(s, zFiles'[s])
        BY <2>1 DEF ZpInv, ZpBook, ZpEach, ZpLines, Zpc!Row, Zpc!ClaimRow, Zpc!Ids, Zpc!Moments,
                    Zpc!Store
    <2>3. QED BY <2>2 DEF ZpLines
<1>4. PICK i \in DOMAIN zFiles[s] :
          Zpc!IsClaim(zFiles[s][i]) /\ r.id = ZpId(zFiles[s], i) /\ r.n = zFiles[s][i].n
    BY <1>2, ZpClaims
<1>5. PICK j \in DOMAIN zFiles'[s] :
          Zpc!IsClaim(zFiles'[s][j]) /\ x.id = ZpId(zFiles'[s], j) /\ x.n = zFiles'[s][j].n
    BY <1>3, ZpClaims
<1>6. QED BY <1>1, <1>4, <1>5 DEF ZpKeepsIds

\* The inductive invariant of agent-zpc.
THEOREM MemoriesInvariant == ToolsSpec => [](tool = "zpc" => ZpInv)
<1> DEFINE I == tool = "zpc" => ZpInv
<1>1. ToolsInit => I BY ZpInvInit DEF ToolsInit
<1>2. I /\ [ToolsNext]_toolsVars => I'
    <2>1. SUFFICES ASSUME I, [ToolsNext]_toolsVars, tool' = "zpc" PROVE ZpInv'
        OBVIOUS
    <2>2. tool = "zpc" /\ (Zpc!Next \/ UNCHANGED zpcState) BY <2>1, ToolsDo
    <2>3. QED BY <2>1, <2>2, ZpInvStep, ZpInvStays
<1>3. QED BY <1>1, <1>2, PTL DEF ToolsSpec

\* agent-zpc: readers keep the id they know a row by, unless a promotion renewed it before
\* it had one; a line is lost only if it was appended while a rewrite was on its way; and
\* what learn reported and what a retraction by itself has reached in both stores stands,
\* whatever is appended, filled in, promoted or killed after it.
THEOREM MemoryAlwaysStands == ToolsSpec => MemoryStands
<1> DEFINE I == tool = "zpc" => ZpInv
           S == tool = "zpc" => Zpc!LostHasCause /\ Zpc!RetractionReaches /\ Zpc!ToldIsOwn
           A == tool = "zpc" => /\ Zpc!RowsKeepIds
                                /\ (Zpc!LostHasCause /\ Zpc!RetractionReaches /\ Zpc!ToldIsOwn)'
<1>1. I => S BY ZpStands
<1>2. I /\ I' /\ S' /\ [ToolsNext]_toolsVars => [A]_toolsVars
    <2>1. SUFFICES ASSUME I, I', S', ToolsNext, tool = "zpc" PROVE A
        OBVIOUS
    <2>2. tool' = tool /\ Zpc!Next BY <2>1 DEF ToolsNext
    <2>3. ZpInv /\ ZpInv' /\ S' BY <2>1, <2>2
    <2>4. ZpKeepsIds BY <2>2, <2>3, ZpInvStep
    <2>5. Zpc!RowsKeepIds BY <2>3, <2>4, ZpRowsKeepIds
    <2>6. QED BY <2>1, <2>2, <2>5
<1>3. QED BY <1>1, <1>2, MemoriesInvariant, PTL DEF ToolsSpec, MemoryStands
=============================================================================
