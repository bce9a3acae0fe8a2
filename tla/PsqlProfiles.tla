----------------------------- MODULE PsqlProfiles -----------------------------
(***************************************************************************)
(* Connection profiles of agent-psql (src/lib/psql_keychain_store.py): a   *)
(* profile is a record in profiles.json, its password stripped, and an     *)
(* entry of the macOS Keychain under the same name.  Additions and removals*)
(* take a lock and give up when it is taken; the file is replaced whole;   *)
(* the Keychain is changed by a child process that may fail, time out with *)
(* its work done, or outlive a killed parent.  A connect reads the record  *)
(* and then, with two more children, the password, and takes no lock.      *)
(***************************************************************************)
EXTENDS Naturals, FiniteSets

CONSTANTS
    Proc,       \* the processes
    Account,    \* the names of profiles
    Uri,        \* the connection strings given to "profile add"
    Supported,  \* those of them that parse
    SecretOf,   \* [Uri -> the password in it, None without]
    Binary,     \* the secrets SecurityTool shows in hexadecimal
    Legacy,     \* what profiles.json may hold at first
    Darwin,     \* whether this is macOS
    None,
    MaxRuns,    \* bound: commands
    MaxKills    \* bound: processes killed

Secret == {SecretOf[u] : u \in Uri} \ {None}
Garbled(s) == <<"hex", s>>

\* A record: its string, whose password is masked, missing or (in old files)
\* there, and its credential_required, if it has one.
Record == [uri : Uri, password : {"masked", "none", "plain"},
           mark : {"yes", "no", "missing"}]

ASSUME UriAssumption ==
    /\ Supported \subseteq Uri /\ None \notin Uri
    /\ SecretOf \in [Uri -> Secret \cup {None}]
ASSUME ProfilesAssumption ==
    /\ None \notin Proc \cup Record
    /\ Legacy \subseteq Record /\ Binary \subseteq Secret
    /\ Darwin \in BOOLEAN /\ MaxRuns \in Nat /\ MaxKills \in Nat
ASSUME LegacyAssumption ==
    \A r \in Legacy : r.password = "none" => SecretOf[r.uri] = None

VARIABLES
    profiles,   \* profiles.json: [Account -> its record or None]
    keychain,   \* [Account -> the password stored under it, or None]
    lock,       \* who holds the flock of the profiles file
    pc,         \* where each process is
    job,        \* its command: add or remove, the account, the string
    staged,     \* the file it has staged
    strays,     \* changes of the Keychain by children of killed processes
    found,      \* the string a connect has read
    stale,      \* history: the profile was changed since a connect read it
    used,       \* history: what a connect was made with
    orphaned,   \* history: a child outlived its parent
    runs, kills

connecting == <<found, used>>
vars == <<profiles, keychain, lock, pc, job, staged, strays, connecting, stale,
          orphaned, runs, kills>>

Job == [do : {"add", "remove", "connect"}, a : Account, u : Uri \cup {None}]
File == [Account -> Record \cup {None}]
Key == Secret \cup {None}
Holding == {"load", "store", "publish", "delete"}
NoPair == [uri |-> None, secret |-> None]

TypeOK ==
    /\ profiles \in File
    /\ keychain \in [Account -> Key]
    /\ lock \in Proc \cup {None}
    /\ pc \in [Proc -> Holding \cup {"idle", "lock", "detail", "plain"}]
    /\ job \in [Proc -> Job \cup {None}]
    /\ staged \in [Proc -> File \cup {None}]
    /\ strays \subseteq [a : Account, secret : Key]
    /\ found \in [Proc -> Uri \cup {None}]
    /\ used \in [Proc -> [uri : Uri \cup {None},
                          secret : Key \cup {Garbled(s) : s \in Secret}]]
    /\ stale \in [Proc -> BOOLEAN]
    /\ orphaned \in BOOLEAN
    /\ runs \in 0..MaxRuns /\ kills \in 0..MaxKills

-----------------------------------------------------------------------------
\* _profile_record: whether a record goes with a credential, if it is valid.
Expects(r) ==
    IF r.uri \notin Supported THEN "invalid"
    ELSE IF r.password = "masked" /\ r.mark \in {"yes", "missing"} THEN "yes"
    ELSE IF r.password = "none" /\ r.mark \in {"no", "missing"} THEN "no"
    ELSE "invalid"

\* _parse_profile_uri: the string with its password masked, and the marker.
Parsed(u) == IF SecretOf[u] = None
             THEN [uri |-> u, password |-> "none", mark |-> "no"]
             ELSE [uri |-> u, password |-> "masked", mark |-> "yes"]

\* Files written by this version, or by one before the marker, with their keys.
Init ==
    /\ profiles \in [Account -> Legacy \cup {None}]
    /\ keychain = [a \in Account |->
                     IF profiles[a] = None THEN None
                     ELSE IF Expects(profiles[a]) = "yes" /\ Darwin
                     THEN SecretOf[profiles[a].uri] ELSE None]
    /\ lock = None
    /\ pc = [p \in Proc |-> "idle"]
    /\ job = [p \in Proc |-> None]
    /\ staged = [p \in Proc |-> None]
    /\ strays = {}
    /\ found = [p \in Proc |-> None]
    /\ stale = [p \in Proc |-> FALSE]
    /\ used = [p \in Proc |-> NoPair]
    /\ orphaned = FALSE
    /\ runs = 0 /\ kills = 0

Goto(p, l) == pc' = [pc EXCEPT ![p] = l]
Begin(p, j) ==
    /\ pc[p] = "idle" /\ runs < MaxRuns
    /\ runs' = runs + 1
    /\ job' = [job EXCEPT ![p] = j]
    /\ Goto(p, "lock")
    /\ UNCHANGED <<profiles, keychain, lock, staged, strays, connecting, stale,
                   orphaned, kills>>

\* The command returns: what it staged is unlinked, and the lock is let go.
End(p) ==
    /\ Goto(p, "idle")
    /\ job' = [job EXCEPT ![p] = None]
    /\ staged' = [staged EXCEPT ![p] = None]
    /\ lock' = IF lock = p THEN None ELSE lock

\* Whoever connects to the account is behind now.
Touch(a) == stale' = [q \in Proc |-> stale[q] \/ (found[q] # None /\ job[q].a = a)]

-----------------------------------------------------------------------------
(* profile add and profile remove.                                         *)

\* A string that does not parse is refused before anything is touched.
StartAdd(p, a, u) ==
    u \in Supported /\ Begin(p, [do |-> "add", a |-> a, u |-> u])

StartRemove(p, a) == Begin(p, [do |-> "remove", a |-> a, u |-> None])

\* Mutant: the lock is not exclusive.
TakeLockShared(p) ==
    /\ pc[p] = "lock"
    /\ lock' = p /\ Goto(p, "load")
    /\ UNCHANGED <<profiles, keychain, job, staged, strays, connecting, stale,
                   orphaned, runs, kills>>

\* LOCK_EX | LOCK_NB: a mutation that finds another one gives up.
TakeLock(p) ==
    /\ pc[p] = "lock"
    /\ IF lock = None THEN lock' = p /\ Goto(p, "load") /\ UNCHANGED <<job, staged>>
                      ELSE End(p)
    /\ UNCHANGED <<profiles, keychain, strays, connecting, stale, orphaned, runs,
                   kills>>

\* The file is read and its successor staged: an addition wants no profile of
\* that name, a removal a valid one.
Stage(p, to) ==
    LET a == job[p].a
    IN  /\ staged' = [staged EXCEPT ![p] = [profiles EXCEPT ![a] = to]]
        /\ UNCHANGED <<job, lock>>

LoadAdd(p) ==
    LET a == job[p].a
        u == job[p].u
    IN  /\ pc[p] = "load" /\ job[p].do = "add"
        /\ \/ /\ profiles[a] = None
              /\ Stage(p, Parsed(u))
              /\ Goto(p, IF SecretOf[u] # None /\ Darwin THEN "store" ELSE "publish")
           \/ End(p)
        /\ UNCHANGED <<profiles, keychain, strays, connecting, stale, orphaned,
                       runs, kills>>

LoadRemove(p) ==
    LET a == job[p].a
    IN  /\ pc[p] = "load" /\ job[p].do = "remove"
        /\ \/ /\ profiles[a] # None /\ Expects(profiles[a]) # "invalid"
              /\ Stage(p, None)
              /\ Goto(p, "publish")
           \/ End(p)
        /\ UNCHANGED <<profiles, keychain, strays, connecting, stale, orphaned,
                       runs, kills>>

\* store_password: it worked, it did not, or its answer came too late.
StorePassword(p) ==
    LET a == job[p].a
    IN  /\ pc[p] = "store"
        /\ \/ /\ keychain' = [keychain EXCEPT ![a] = SecretOf[job[p].u]]
              /\ Touch(a)
              /\ \/ Goto(p, "publish") /\ UNCHANGED <<job, staged, lock>>
                 \/ End(p)
           \/ End(p) /\ UNCHANGED <<keychain, stale>>
        /\ UNCHANGED <<profiles, strays, connecting, orphaned, runs, kills>>

\* Mutant: the password of a removed profile is deleted after the lock is gone.
PublishUnlocked(p) ==
    LET a == job[p].a
        bound == profiles[a] # None /\ Expects(profiles[a]) = "yes"
    IN  /\ pc[p] = "publish"
        /\ profiles' = staged[p]
        /\ Touch(a)
        /\ IF job[p].do = "remove" /\ bound /\ Darwin
           THEN /\ Goto(p, "delete") /\ UNCHANGED job
                /\ staged' = [staged EXCEPT ![p] = None] /\ lock' = None
           ELSE End(p)
        /\ UNCHANGED <<keychain, strays, connecting, orphaned, runs, kills>>

\* os.replace; after a removal the password goes too, if the record was bound to
\* one.  A file that cannot be replaced stays, and a password stored for it.
Publish(p) ==
    LET a == job[p].a
        bound == profiles[a] # None /\ Expects(profiles[a]) = "yes"
    IN  /\ pc[p] = "publish"
        /\ \/ /\ profiles' = staged[p]
              /\ Touch(a)
              /\ IF job[p].do = "remove" /\ bound /\ Darwin
                 THEN Goto(p, "delete") /\ UNCHANGED <<job, staged, lock>>
                 ELSE End(p)
           \/ End(p) /\ UNCHANGED <<profiles, stale>>
        /\ UNCHANGED <<keychain, strays, connecting, orphaned, runs, kills>>

\* delete_password, best effort.
DeletePassword(p) ==
    LET a == job[p].a
    IN  /\ pc[p] = "delete"
        /\ \/ keychain' = [keychain EXCEPT ![a] = None] /\ Touch(a)
           \/ UNCHANGED <<keychain, stale>>
        /\ End(p)
        /\ UNCHANGED <<profiles, strays, connecting, orphaned, runs, kills>>

-----------------------------------------------------------------------------
(* connect --profile.                                                      *)

\* The connection is made, or given up.
Use(p, uri, s) ==
    /\ used' = [used EXCEPT ![p] = [uri |-> uri, secret |-> s]]
    /\ found' = [found EXCEPT ![p] = None]
    /\ End(p)

GiveUp(p) == Use(p, None, None) /\ UNCHANGED stale

\* Mutant: a password is asked for whatever the record says.
ReadProfileBoth(p, a) ==
    /\ pc[p] = "idle" /\ runs < MaxRuns
    /\ runs' = runs + 1
    /\ profiles[a] # None /\ Expects(profiles[a]) # "invalid"
    /\ stale' = [stale EXCEPT ![p] = FALSE]
    /\ job' = [job EXCEPT ![p] = [do |-> "connect", a |-> a, u |-> None]]
    /\ found' = [found EXCEPT ![p] = profiles[a].uri]
    /\ used' = [used EXCEPT ![p] = NoPair]
    /\ Goto(p, "detail")
    /\ UNCHANGED <<profiles, keychain, lock, staged, strays, orphaned, kills>>

\* read_profile: a missing or an invalid record ends it, a record without a
\* credential is used as it is, and for one with a credential the first child is
\* asked for the password.
ReadProfile(p, a) ==
    LET r == profiles[a]
    IN  /\ pc[p] = "idle" /\ runs < MaxRuns
        /\ runs' = runs + 1
        /\ r # None /\ Expects(r) # "invalid"
        /\ stale' = [stale EXCEPT ![p] = FALSE]
        /\ IF Expects(r) = "yes"
           THEN /\ job' = [job EXCEPT ![p] = [do |-> "connect", a |-> a, u |-> None]]
                /\ found' = [found EXCEPT ![p] = r.uri]
                /\ used' = [used EXCEPT ![p] = NoPair]
                /\ Goto(p, "detail") /\ UNCHANGED <<staged, lock>>
           ELSE Use(p, r.uri, None)
        /\ UNCHANGED <<profiles, keychain, strays, orphaned, kills>>

\* The first child: a password it prints in hexadecimal is the answer, another
\* one is asked for again.
ReadDetail(p) ==
    LET s == keychain[job[p].a]
    IN  /\ pc[p] = "detail"
        /\ \/ Darwin /\ s \in Binary /\ Use(p, found[p], s) /\ UNCHANGED stale
           \/ /\ Darwin /\ s # None /\ s \notin Binary
              /\ Goto(p, "plain")
              /\ UNCHANGED <<job, staged, lock, connecting, stale>>
           \/ GiveUp(p)
        /\ UNCHANGED <<profiles, keychain, strays, orphaned, runs, kills>>

\* The second: what it prints is the password, also when it is the hexadecimal
\* form of one that was not there before.
ReadPlain(p) ==
    LET s == keychain[job[p].a]
    IN  /\ pc[p] = "plain"
        /\ \/ /\ s # None
              /\ Use(p, found[p], IF s \in Binary THEN Garbled(s) ELSE s)
              /\ UNCHANGED stale
           \/ GiveUp(p)
        /\ UNCHANGED <<profiles, keychain, strays, orphaned, runs, kills>>

-----------------------------------------------------------------------------
\* A process is killed.  The lock goes with it; the child it waited for does not.
Kill(p) ==
    /\ pc[p] # "idle" /\ kills < MaxKills
    /\ kills' = kills + 1
    /\ End(p)
    /\ found' = [found EXCEPT ![p] = None]
    /\ \/ UNCHANGED <<strays, orphaned>>
       \/ /\ pc[p] \in {"store", "delete"}
          /\ strays' = strays \cup
                {[a |-> job[p].a,
                  secret |-> IF pc[p] = "store" THEN SecretOf[job[p].u] ELSE None]}
          /\ orphaned' = TRUE
    /\ UNCHANGED <<profiles, keychain, stale, used, runs>>

StrayLands(o) ==
    /\ o \in strays
    /\ strays' = strays \ {o}
    /\ keychain' = [keychain EXCEPT ![o.a] = o.secret]
    /\ Touch(o.a)
    /\ UNCHANGED <<profiles, lock, pc, job, staged, connecting, orphaned, runs, kills>>

Next ==
    \/ \E p \in Proc :
        \/ \E a \in Account : \/ \E u \in Uri : StartAdd(p, a, u)
                              \/ StartRemove(p, a)
                              \/ ReadProfile(p, a)
        \/ TakeLock(p) \/ LoadAdd(p) \/ LoadRemove(p)
        \/ StorePassword(p) \/ Publish(p) \/ DeletePassword(p)
        \/ ReadDetail(p) \/ ReadPlain(p)
        \/ Kill(p)
    \/ \E o \in strays : StrayLands(o)

Spec == Init /\ [][Next]_vars

-----------------------------------------------------------------------------
(* Properties.                                                             *)

\* On macOS a published profile that expects a password has it in the Keychain,
\* and it is the one given with this endpoint: a new password is never bound to
\* an old endpoint (store_profile's docstring), whatever addition or removal
\* failed or was killed before.  Exempt: after a child outlived its parent.
BoundIsOwn ==
    (Darwin /\ ~orphaned) =>
        \A a \in Account :
            (profiles[a] # None /\ Expects(profiles[a]) = "yes") =>
                keychain[a] = SecretOf[profiles[a].uri]

\* A mutation publishes its own profile's change and no other: an addition or a
\* removal of another process is never undone by a file staged before it.
OnlyOwnAccount ==
    [][\A a \in Account :
          (profiles'[a] # profiles[a]) =>
              \E p \in Proc : /\ pc[p] = "publish" /\ job[p].a = a
                              /\ \/ job[p].do = "add" /\ profiles[a] = None
                                 \/ job[p].do = "remove" /\ profiles'[a] = None]_vars

\* A connection is made with the password given with its endpoint, and without
\* one only if the profile has none, unless the profile or its password changed
\* between the three reads, or a child outlived its parent.
ConnectIsRight ==
    ~orphaned => \A p \in Proc :
        (used[p].uri # None /\ ~stale[p]) => used[p].secret = SecretOf[used[p].uri]

\* What the exemption of ConnectIsRight leaves out: the reads take no lock, so a
\* profile removed and added again between them lends its new password to the
\* old endpoint.
ConnectPairs ==
    ~orphaned => \A p \in Proc :
        (used[p].uri # None) => used[p].secret = SecretOf[used[p].uri]

-----------------------------------------------------------------------------
(* The inductive invariant of PsqlProfilesProofs.                          *)

Requested(p) ==
    /\ job[p] \in Job
    /\ \/ job[p].do = "add" /\ job[p].u \in Supported
       \/ job[p].do = "remove"

\* The file a mutation has staged is the present one but for its own profile.
Adding(p) ==
    /\ job[p].do = "add" /\ profiles[job[p].a] = None
    /\ staged[p] = [profiles EXCEPT ![job[p].a] = Parsed(job[p].u)]
Removing(p) ==
    /\ job[p].do = "remove" /\ profiles[job[p].a] # None
    /\ staged[p] = [profiles EXCEPT ![job[p].a] = None]
Stored(p) ==
    (Darwin /\ ~orphaned /\ SecretOf[job[p].u] # None) =>
        keychain[job[p].a] = SecretOf[job[p].u]

\* A mutation that found its way holds the lock, so the file and the password
\* are still what it left them to be.
Mutates(p) ==
    /\ pc[p] \in {"lock", "load", "store", "publish", "delete"} => Requested(p)
    /\ pc[p] \in Holding => lock = p
    /\ pc[p] = "store" => Adding(p)
    /\ pc[p] = "publish" => (Adding(p) /\ Stored(p)) \/ Removing(p)
    /\ pc[p] = "delete" => profiles[job[p].a] = None
Mutating == \A p \in Proc : Mutates(p)

\* A connect that is not behind holds the endpoint that is published.
Connected(p) ==
    /\ pc[p] \notin {"detail", "plain"} => found[p] = None
    /\ pc[p] \in {"detail", "plain"} =>
          /\ job[p] \in Job /\ found[p] \in Uri
          /\ ~stale[p] => /\ profiles[job[p].a] # None
                          /\ profiles[job[p].a].uri = found[p]
                          /\ Expects(profiles[job[p].a]) = "yes"
    /\ pc[p] = "plain" =>
          Darwin /\ (~stale[p] => keychain[job[p].a] \notin Binary)
Connecting == \A p \in Proc : Connected(p)

StraysAreOrphans == strays # {} => orphaned

\* A record that says it has no password is of a string without one.
NoneMeansNone == \A a \in Account :
    (profiles[a] # None /\ profiles[a].password = "none") =>
        SecretOf[profiles[a].uri] = None

ProfilesInv ==
    /\ TypeOK /\ Mutating /\ Connecting /\ StraysAreOrphans /\ NoneMeansNone
    /\ BoundIsOwn /\ ConnectIsRight
=============================================================================
