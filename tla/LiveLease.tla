------------------------------ MODULE LiveLease ------------------------------
(***************************************************************************)
(* Leases of live control (src/lib/live/lease.py, policy.py): a command    *)
(* that drives the desktop or a browser runs with the approval its caller  *)
(* gave with a modifier, or with a lease an earlier approval left in       *)
(* leases.json.  The file is read, changed and written back by processes   *)
(* that take no lock; write_text empties it before it fills it.            *)
(***************************************************************************)
EXTENDS Integers

CONSTANTS
    Proc,       \* the processes
    App,        \* the applications
    NoApp,      \* a lease or a request that names none
    TTL,        \* the times to live a modifier may give, 0 for none
    Torn,       \* a file that was emptied and is not filled yet
    None,
    Horizon     \* bound: the last moment

Scope == {"any", "desktop", "browser"}
Lease == Scope \X (App \cup {NoApp})

ASSUME LeaseAssumption ==
    /\ TTL \subseteq Nat /\ 0 \in TTL /\ Horizon \in Nat
    /\ NoApp \notin App /\ None \notin Lease /\ Torn \notin [Lease -> Nat]

VARIABLES
    now,        \* the clock
    leases,     \* leases.json: [Lease -> when it expires, 0 without], or Torn
    at,         \* where each process is in require_live_control
    ask,        \* its request: scope and app, modifier and time to live
    mem,        \* the leases it has read, the expired ones pruned
    until,      \* when the lease it asks for would expire, and when it read
    granted,    \* history: the last expiry each lease was given in the file
    longest,    \* history: the latest expiry it was ever given
    crossed     \* history: two processes were in the file at a time, or one died

leaseVars == <<leases, at, ask, mem, until, granted, longest, crossed>>

Request == [scope : Scope, app : App \cup {NoApp}, modifier : Lease \cup {None},
            ttl : TTL]
Times == [Lease -> Nat]
NoLeases == [k \in Lease |-> 0]
InFile == {"prune", "pruned", "save", "saved"}

LeaseTypeOK ==
    /\ now \in Nat
    /\ leases = Torn \/ leases \in Times
    /\ at \in [Proc -> InFile \cup {"out", "ask", "approved", "refused"}]
    /\ ask \in [Proc -> Request \cup {None}]
    /\ mem \in [Proc -> Times]
    /\ until \in [Proc -> [lease : Nat, read : Nat]]
    /\ granted \in Times /\ longest \in Times /\ crossed \in BOOLEAN

LeaseInit ==
    /\ now = 1
    /\ leases = NoLeases
    /\ at = [p \in Proc |-> "out"]
    /\ ask = [p \in Proc |-> None]
    /\ mem = [p \in Proc |-> NoLeases]
    /\ until = [p \in Proc |-> [lease |-> 0, read |-> 0]]
    /\ granted = NoLeases /\ longest = NoLeases /\ crossed = FALSE

-----------------------------------------------------------------------------
\* _scope_allows and _app_allows.
Covers(k, scope, app) ==
    /\ k[1] \in {"any", scope} \/ (k[1] = "desktop" /\ scope = "browser")
    /\ app = NoApp \/ k[2] \in {NoApp, app}

\* Mutant: a lease holds at the moment it expires.
LiveStill(file) == IF file = Torn THEN NoLeases
                   ELSE [k \in Lease |-> IF file[k] >= now THEN file[k] ELSE 0]

\* prune_expired_leases on what the file holds; an unreadable file has none.
Live(file) == IF file = Torn THEN NoLeases
              ELSE [k \in Lease |-> IF file[k] > now THEN file[k] ELSE 0]

Move(p, l) == at' = [at EXCEPT ![p] = l]

\* require_live_control: a modifier without a time to live leaves no lease.
Ask(p, r) ==
    /\ at[p] = "out"
    /\ ask' = [ask EXCEPT ![p] = r]
    /\ Move(p, IF r.modifier # None /\ r.ttl = 0 THEN "approved" ELSE "ask")
    /\ UNCHANGED <<leases, mem, until, granted, longest, crossed>>

\* The lease a modifier asks for: it takes the app of the request unless it
\* names one.
Wanted(r) == <<r.modifier[1], IF r.modifier[2] = NoApp THEN r.app ELSE r.modifier[2]>>

\* With the leases m in hand: activate_lease renews the lease of that scope and
\* app, or adds it; find_matching_lease looks for one that covers the request.
Decide(p, m, expiry) ==
    LET r == ask[p]
    IN  IF r.modifier # None
        THEN /\ mem' = [mem EXCEPT ![p] = [m EXCEPT ![Wanted(r)] = expiry]]
             /\ Move(p, "save")
        ELSE /\ mem' = [mem EXCEPT ![p] = m]
             /\ Move(p, IF \E k \in Lease : m[k] > 0 /\ Covers(k, r.scope, r.app)
                        THEN "approved" ELSE "refused")

\* The leases are read; if some have expired the others are written back first.
ReadLeases(p) ==
    /\ at[p] = "ask"
    /\ until' = [until EXCEPT ![p] = [lease |-> now + ask[p].ttl, read |-> now]]
    /\ IF leases # Torn /\ Live(leases) # leases
       THEN mem' = [mem EXCEPT ![p] = Live(leases)] /\ Move(p, "prune")
       ELSE Decide(p, Live(leases), now + ask[p].ttl)
    /\ crossed' = (crossed \/ \E q \in Proc \ {p} : at[q] \in InFile)
    /\ UNCHANGED <<leases, ask, granted, longest>>

\* write_text, in two steps: the file is opened, and emptied, and then filled.
Open(p) ==
    /\ at[p] \in {"prune", "save"}
    /\ leases' = Torn
    /\ Move(p, IF at[p] = "prune" THEN "pruned" ELSE "saved")
    /\ UNCHANGED <<ask, mem, until, granted, longest, crossed>>

FillPruned(p) ==
    /\ at[p] = "pruned"
    /\ leases' = mem[p]
    /\ Decide(p, mem[p], until[p].lease)
    /\ UNCHANGED <<ask, until, granted, longest, crossed>>

FillSaved(p) ==
    LET k == Wanted(ask[p])
        e == until[p].lease
    IN  /\ at[p] = "saved"
        /\ leases' = mem[p]
        /\ granted' = [granted EXCEPT ![k] = e]
        /\ longest' = [longest EXCEPT ![k] = IF @ > e THEN @ ELSE e]
        /\ Move(p, "approved")
        /\ UNCHANGED <<ask, mem, until, crossed>>

\* The caller has its answer, or the process is gone.
LeaveLeases(p) ==
    /\ Move(p, "out")
    /\ ask' = [ask EXCEPT ![p] = None]
    /\ mem' = [mem EXCEPT ![p] = NoLeases]
    /\ until' = [until EXCEPT ![p] = [lease |-> 0, read |-> 0]]
    /\ crossed' = (crossed \/ at[p] \in InFile)
    /\ UNCHANGED <<leases, granted, longest>>

LeaseStep(p) == ReadLeases(p) \/ Open(p) \/ FillPruned(p) \/ FillSaved(p)

-----------------------------------------------------------------------------
\* require_live_control without a modifier: a request is approved only under a
\* lease that covers it, was once given, and had not expired when it was looked
\* for; and, unless processes met in the file, refused only when there is none.
LeaseDecides == [][\A p \in Proc : ask[p] # None /\ ask[p].modifier = None =>
    LET covered(times) == \E k \in Lease : /\ times[k] > until'[p].read
                                           /\ Covers(k, ask[p].scope, ask[p].app)
    IN  /\ (at[p] # "approved" /\ at'[p] = "approved" => covered(longest))
        /\ (at[p] # "refused" /\ at'[p] = "refused" /\ ~crossed' => ~covered(granted))
    ]_leaseVars
=============================================================================
