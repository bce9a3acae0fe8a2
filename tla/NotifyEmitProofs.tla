--------------------------- MODULE NotifyEmitProofs ---------------------------
(***************************************************************************)
(* Theorems about NotifyEmit and the live leases it asks for, for any       *)
(* number of processes, rules, recipients and leases: the types, that no    *)
(* alert is swallowed by its cooldown, and what a lease decides.            *)
(***************************************************************************)
EXTENDS NotifyEmit, SequenceTheorems, WellFoundedInduction, TLAPS

---------------------------------------------------------------------------
(* Leases: their types.                                                    *)

\* The ways a process may move in require_live_control, and time pass by.
LeaseMoves ==
    \/ \E p \in Proc : \/ \E r \in Request : Ask(p, r)
                       \/ LeaseStep(p) \/ LeaveLeases(p)
    \/ UNCHANGED leaseVars

\* One that has asked has a request, and one that saves was given a modifier.
Asked == \A p \in Proc :
    /\ at[p] = "out" => ask[p] = None
    /\ at[p] # "out" => ask[p] \in Request
    /\ at[p] \in {"save", "saved"} => ask[p].modifier # None

LEMMA WantedIsLease ==
    ASSUME NEW r \in Request, r.modifier # None
    PROVE  Wanted(r) \in Lease
BY LeaseAssumption DEF Request, Wanted, Lease, Scope

LEMMA LiveTypes ==
    ASSUME LeaseTypeOK
    PROVE  /\ Live(leases) \in Times
           /\ \A k \in Lease : /\ Live(leases)[k] > 0 =>
                                    leases # Torn /\ Live(leases)[k] = leases[k] /\ leases[k] > now
                               /\ leases # Torn /\ leases[k] > now => Live(leases)[k] = leases[k]
BY DEF LeaseTypeOK, Live, Times, NoLeases

LEMMA DecideTypes ==
    ASSUME LeaseTypeOK, NEW p \in Proc, ask[p] \in Request, NEW m \in Times, NEW e \in Nat,
           Decide(p, m, e)
    PROVE  /\ mem' \in [Proc -> Times]
           /\ at' \in [Proc -> InFile \cup {"out", "ask", "approved", "refused"}]
           /\ \A q \in Proc \ {p} : at'[q] = at[q] /\ mem'[q] = mem[q]
           /\ IF ask[p].modifier # None
              THEN at'[p] = "save" /\ mem'[p] = [m EXCEPT ![Wanted(ask[p])] = e]
              ELSE /\ mem'[p] = m
                   /\ at'[p] = IF \E k \in Lease : m[k] > 0 /\ Covers(k, ask[p].scope, ask[p].app)
                               THEN "approved" ELSE "refused"
<1>1. CASE ask[p].modifier # None
  <2>1. [m EXCEPT ![Wanted(ask[p])] = e] \in Times
        BY DEF Times
  <2> QED BY <1>1, <2>1 DEF Decide, Move, LeaseTypeOK, InFile
<1>2. CASE ask[p].modifier = None
      BY <1>2 DEF Decide, Move, LeaseTypeOK, InFile
<1> QED BY <1>1, <1>2

LEMMA LeaseTypes ==
    ASSUME LeaseTypeOK, Asked, LeaseMoves, now' \in Nat
    PROVE  LeaseTypeOK' /\ Asked'
<1>1. ASSUME NEW p \in Proc, NEW r \in Request, Ask(p, r) PROVE LeaseTypeOK' /\ Asked'
      BY <1>1 DEF Ask, Move, LeaseTypeOK, Asked, InFile
<1>2. ASSUME NEW p \in Proc, ReadLeases(p) PROVE LeaseTypeOK' /\ Asked'
  <2>1. /\ ask[p] \in Request /\ now + ask[p].ttl \in Nat /\ Live(leases) \in Times
        /\ at[p] = "ask"
    <3>1. ask[p] \in Request /\ at[p] = "ask"
          BY <1>2 DEF ReadLeases, Asked
    <3>2. ask[p].ttl \in Nat
          BY <3>1, LeaseAssumption DEF Request
    <3> QED BY <3>1, <3>2, LiveTypes DEF LeaseTypeOK
  <2>2. until' \in [Proc -> [lease : Nat, read : Nat]]
        BY <1>2, <2>1 DEF ReadLeases, LeaseTypeOK
  <2>3. crossed' \in BOOLEAN
        BY <1>2 DEF ReadLeases, LeaseTypeOK
  <2>4. CASE mem' = [mem EXCEPT ![p] = Live(leases)] /\ Move(p, "prune")
        BY <1>2, <2>1, <2>2, <2>3, <2>4 DEF ReadLeases, LeaseTypeOK, Asked, Move, InFile
  <2>5. CASE Decide(p, Live(leases), now + ask[p].ttl)
    <3>1. UNCHANGED <<leases, ask, granted, longest>>
          BY <1>2 DEF ReadLeases
    <3> QED BY <2>1, <2>2, <2>3, <2>5, <3>1, DecideTypes DEF LeaseTypeOK, Asked
  <2> QED BY <1>2, <2>4, <2>5 DEF ReadLeases
<1>3. ASSUME NEW p \in Proc, Open(p) PROVE LeaseTypeOK' /\ Asked'
      BY <1>3 DEF Open, Move, LeaseTypeOK, Asked, InFile
<1>4. ASSUME NEW p \in Proc, FillPruned(p) PROVE LeaseTypeOK' /\ Asked'
  <2>1. /\ ask[p] \in Request /\ mem[p] \in Times /\ until[p].lease \in Nat
        /\ Decide(p, mem[p], until[p].lease)
        /\ leases' = mem[p] /\ UNCHANGED <<ask, until, granted, longest, crossed>>
        BY <1>4 DEF FillPruned, Asked, LeaseTypeOK
  <2> QED BY <2>1, DecideTypes DEF LeaseTypeOK, Asked
<1>5. ASSUME NEW p \in Proc, FillSaved(p) PROVE LeaseTypeOK' /\ Asked'
  <2>1. Wanted(ask[p]) \in Lease /\ until[p].lease \in Nat
        BY <1>5, WantedIsLease DEF FillSaved, Asked, LeaseTypeOK
  <2>2. granted' \in Times /\ longest' \in Times
        BY <1>5, <2>1 DEF FillSaved, LeaseTypeOK, Times
  <2> QED BY <1>5, <2>2 DEF FillSaved, Move, LeaseTypeOK, Asked, InFile
<1>6. ASSUME NEW p \in Proc, LeaveLeases(p) PROVE LeaseTypeOK' /\ Asked'
      BY <1>6 DEF LeaveLeases, Move, LeaseTypeOK, Asked, NoLeases, Times
<1>7. CASE UNCHANGED leaseVars
      BY <1>7 DEF leaseVars, LeaseTypeOK, Asked
<1> QED BY <1>1, <1>2, <1>3, <1>4, <1>5, <1>6, <1>7 DEF LeaseMoves, LeaseStep

---------------------------------------------------------------------------
(* Leases: what the file and the copies of it hold.                        *)

\* No lease outlasts the longest time it was given.
NoneIsStretched ==
    /\ leases # Torn => \A k \in Lease : leases[k] <= longest[k]
    /\ \A p \in Proc : \A k \in Lease :
          /\ at[p] \in {"prune", "pruned"} => mem[p][k] <= longest[k]
          /\ at[p] \in {"prune", "pruned"} /\ mem[p][k] > 0 => mem[p][k] > until[p].read
          /\ at[p] \in {"save", "saved"} =>
                \/ mem[p][k] <= longest[k]
                \/ k = Wanted(ask[p]) /\ mem[p][k] = until[p].lease

\* While processes never met in the file, what was granted and has not expired is there.
NoneIsDropped == ~crossed =>
    /\ \A p, q \in Proc : at[p] \in InFile /\ at[q] \in InFile => p = q
    /\ (\A p \in Proc : at[p] \notin InFile) =>
          leases # Torn /\ \A k \in Lease : granted[k] > now => leases[k] = granted[k]
    /\ \A p \in Proc : at[p] \in InFile => \A k \in Lease :
          granted[k] > until[p].read =>
              \/ mem[p][k] = granted[k]
              \/ at[p] \in {"save", "saved"} /\ k = Wanted(ask[p])
    /\ \A p \in Proc : at[p] \in {"save", "saved"} =>
          mem[p][Wanted(ask[p])] = until[p].lease
    /\ \A p \in Proc : at[p] \in InFile => until[p].read <= now

LeaseInv == NoneIsStretched /\ NoneIsDropped

LEMMA LeaseKeeps ==
    ASSUME LeaseTypeOK, Asked, LeaseInv, LeaseMoves, now' \in Nat, now <= now',
           now' = now \/ UNCHANGED leaseVars
    PROVE  LeaseInv'
<1> USE DEF LeaseInv
<1>7. CASE UNCHANGED leaseVars
      BY <1>7 DEF leaseVars, NoneIsStretched, NoneIsDropped, LeaseTypeOK, Times
<1> SUFFICES ASSUME ~ UNCHANGED leaseVars, now' = now PROVE LeaseInv'
    BY <1>7
<1>1. ASSUME NEW p \in Proc, NEW r \in Request, Ask(p, r) PROVE LeaseInv'
  <2>1. /\ at[p] = "out" /\ at'[p] \in {"ask", "approved"}
        /\ \A q \in Proc \ {p} : at'[q] = at[q] /\ ask'[q] = ask[q]
        /\ UNCHANGED <<leases, mem, until, granted, longest, crossed, now>>
        BY <1>1 DEF Ask, Move, LeaseTypeOK, leaseVars, Asked
  <2>2. NoneIsStretched'
        BY <2>1 DEF NoneIsStretched
  <2>3. NoneIsDropped'
        BY <2>1 DEF NoneIsDropped, InFile
  <2> QED BY <2>2, <2>3
<1>2. ASSUME NEW p \in Proc, ReadLeases(p) PROVE LeaseInv'
  <2> PICK m \in Times : m = Live(leases)
      BY LiveTypes
  <2>1. /\ ask[p] \in Request /\ at[p] = "ask" /\ until[p]' = [lease |-> now + ask[p].ttl, read |-> now]
        /\ \A q \in Proc \ {p} : until'[q] = until[q]
        /\ crossed' = (crossed \/ \E q \in Proc \ {p} : at[q] \in InFile)
        /\ UNCHANGED <<leases, ask, granted, longest, now>> /\ now + ask[p].ttl \in Nat
    <3>1. ask[p] \in Request /\ at[p] = "ask"
          BY <1>2 DEF ReadLeases, Asked
    <3>2. ask[p].ttl \in Nat
          BY <3>1, LeaseAssumption DEF Request
    <3> QED BY <1>2, <3>1, <3>2 DEF ReadLeases, LeaseTypeOK
  <2>2. /\ \A q \in Proc \ {p} : at'[q] = at[q] /\ mem'[q] = mem[q]
        /\ \/ at'[p] = "prune" /\ mem'[p] = m
           \/ /\ at'[p] = "save" /\ ask[p].modifier # None
              /\ mem'[p] = [m EXCEPT ![Wanted(ask[p])] = now + ask[p].ttl]
           \/ at'[p] \in {"approved", "refused"}
    <3>1. CASE mem' = [mem EXCEPT ![p] = m] /\ Move(p, "prune")
          BY <3>1 DEF Move, LeaseTypeOK
    <3>2. CASE Decide(p, m, now + ask[p].ttl)
          BY <2>1, <3>2, DecideTypes
    <3> QED BY <1>2, <3>1, <3>2 DEF ReadLeases
  <2>3. \A k \in Lease : /\ m[k] > 0 => leases # Torn /\ m[k] = leases[k] /\ m[k] > now
                         /\ leases # Torn /\ leases[k] > now => m[k] = leases[k]
        BY LiveTypes
  <2>4. \A k \in Lease : m[k] <= longest[k] /\ m[k] \in Nat
        BY <2>3 DEF NoneIsStretched, LeaseTypeOK, Times
  <2>5. NoneIsStretched'
    <3>1. ask[p].modifier # None => Wanted(ask[p]) \in Lease
          BY <2>1, WantedIsLease
    <3>2. ASSUME NEW k \in Lease
          PROVE  /\ at'[p] \in {"prune", "pruned"} => mem'[p][k] <= longest[k]
                 /\ at'[p] \in {"prune", "pruned"} /\ mem'[p][k] > 0 => mem'[p][k] > now
                 /\ at'[p] \in {"save", "saved"} =>
                      \/ mem'[p][k] <= longest[k]
                      \/ k = Wanted(ask[p]) /\ mem'[p][k] = now + ask[p].ttl
          BY <2>2, <2>3, <2>4, <3>1 DEF Times
    <3> QED BY <2>1, <2>2, <3>2 DEF NoneIsStretched
  <2>6. NoneIsDropped'
    <3> SUFFICES ASSUME ~crossed' PROVE NoneIsDropped'
        BY DEF NoneIsDropped
    <3>1. ~crossed /\ \A q \in Proc : at[q] \notin InFile
          BY <2>1 DEF InFile
    <3>2. leases # Torn /\ \A k \in Lease : granted[k] > now => leases[k] = granted[k]
          BY <3>1 DEF NoneIsDropped
    <3>3. \A k \in Lease : granted[k] > now => m[k] = granted[k]
          BY <2>3, <3>2
    <3>4. \A q \in Proc \ {p} : at'[q] \notin InFile
          BY <2>2, <3>1
    <3>5. ask[p].modifier # None => Wanted(ask[p]) \in Lease
          BY <2>1, WantedIsLease
    <3>6. now \in Nat
          BY DEF LeaseTypeOK
    <3>7. at'[p] \in {"save", "saved"} => mem'[p][Wanted(ask[p])] = now + ask[p].ttl
          BY <2>2, <3>5 DEF Times
    <3>8. \A k \in Lease : granted[k] > now /\ at'[p] \in InFile =>
              mem'[p][k] = granted[k] \/ (at'[p] \in {"save", "saved"} /\ k = Wanted(ask[p]))
      <4>1. CASE at'[p] = "prune" /\ mem'[p] = m
            BY <3>3, <4>1
      <4>2. CASE /\ at'[p] = "save" /\ ask[p].modifier # None
                 /\ mem'[p] = [m EXCEPT ![Wanted(ask[p])] = now + ask[p].ttl]
            BY <3>3, <3>5, <4>2 DEF Times
      <4>3. CASE at'[p] \in {"approved", "refused"}
            BY <4>3 DEF InFile
      <4> QED BY <2>2, <4>1, <4>2, <4>3
    <3> QED BY <2>1, <3>2, <3>4, <3>6, <3>7, <3>8 DEF NoneIsDropped, InFile
  <2> QED BY <2>5, <2>6
<1>3. ASSUME NEW p \in Proc, Open(p) PROVE LeaseInv'
  <2>1. /\ at[p] \in {"prune", "save"} /\ at'[p] = IF at[p] = "prune" THEN "pruned" ELSE "saved"
        /\ \A q \in Proc \ {p} : at'[q] = at[q]
        /\ leases' = Torn /\ UNCHANGED <<ask, mem, until, granted, longest, crossed, now>>
        BY <1>3 DEF Open, Move, LeaseTypeOK, leaseVars
  <2>2. NoneIsStretched'
        BY <2>1 DEF NoneIsStretched
  <2>3. NoneIsDropped'
        BY <2>1 DEF NoneIsDropped, InFile
  <2> QED BY <2>2, <2>3
<1>4. ASSUME NEW p \in Proc, FillPruned(p) PROVE LeaseInv'
  <2>1. /\ ask[p] \in Request /\ mem[p] \in Times /\ until[p].lease \in Nat
        /\ until[p].read \in Nat /\ at[p] = "pruned"
        /\ Decide(p, mem[p], until[p].lease)
        /\ leases' = mem[p] /\ UNCHANGED <<ask, until, granted, longest, crossed, now>>
    <3> QED BY <1>4 DEF FillPruned, Asked, LeaseTypeOK
  <2>2. /\ \A q \in Proc \ {p} : at'[q] = at[q] /\ mem'[q] = mem[q]
        /\ \/ /\ at'[p] = "save" /\ ask[p].modifier # None
              /\ mem'[p] = [mem[p] EXCEPT ![Wanted(ask[p])] = until[p].lease]
           \/ at'[p] \in {"approved", "refused"}
        BY <2>1, DecideTypes
  <2>3. NoneIsStretched'
        BY <2>1, <2>2 DEF NoneIsStretched, Times
  <2>4. NoneIsDropped'
    <3> SUFFICES ASSUME ~crossed' PROVE NoneIsDropped'
        BY DEF NoneIsDropped
    <3>1. \A q \in Proc \ {p} : at'[q] \notin InFile
          BY <2>1, <2>2 DEF NoneIsDropped, InFile
    <3>2. \A k \in Lease : granted[k] > until[p].read => mem[p][k] = granted[k]
          BY <2>1 DEF NoneIsDropped, InFile
    <3>3. until[p].read <= now
          BY <2>1 DEF NoneIsDropped, InFile
    <3>4. leases' # Torn
          BY <2>1, LeaseAssumption DEF Times
    <3>5. ask[p].modifier # None => Wanted(ask[p]) \in Lease
          BY <2>1, WantedIsLease
    <3>6. now \in Nat /\ granted \in Times
          BY DEF LeaseTypeOK
    <3>7. \A k \in Lease : granted[k] > now => mem[p][k] = granted[k]
          BY <2>1, <3>2, <3>3, <3>6 DEF Times
    <3> QED BY <2>1, <2>2, <3>1, <3>2, <3>3, <3>4, <3>5, <3>6, <3>7 DEF NoneIsDropped, InFile, Times
  <2> QED BY <2>3, <2>4
<1>5. ASSUME NEW p \in Proc, FillSaved(p) PROVE LeaseInv'
  <2> PICK w \in Lease : w = Wanted(ask[p]) /\ ask[p].modifier # None
      BY <1>5, WantedIsLease DEF FillSaved, Asked
  <2> PICK e \in Nat : e = until[p].lease
      BY DEF LeaseTypeOK
  <2>1. /\ at[p] = "saved" /\ at'[p] = "approved" /\ leases' = mem[p] /\ mem[p] \in Times
        /\ granted' = [granted EXCEPT ![w] = e]
        /\ longest' = [longest EXCEPT ![w] = IF longest[w] > e THEN longest[w] ELSE e]
        /\ \A q \in Proc \ {p} : at'[q] = at[q]
        /\ UNCHANGED <<ask, mem, until, crossed, now>>
        /\ granted \in Times /\ longest \in Times /\ now \in Nat /\ until[p].read \in Nat
        BY <1>5 DEF FillSaved, Move, LeaseTypeOK, leaseVars
  <2>2. NoneIsStretched'
    <3>1. \A k \in Lease : longest[k] <= longest'[k] /\ longest'[w] >= e
          BY <2>1 DEF Times
    <3>2. \A k \in Lease : mem[p][k] <= longest'[k]
          BY <2>1, <3>1 DEF NoneIsStretched, Times
    <3>3. longest' \in Times
          BY <2>1 DEF Times
    <3>4. mem \in [Proc -> Times]
          BY DEF LeaseTypeOK
    <3> QED BY <2>1, <3>1, <3>2, <3>3, <3>4 DEF NoneIsStretched, Times
  <2>3. NoneIsDropped'
    <3> SUFFICES ASSUME ~crossed' PROVE NoneIsDropped'
        BY DEF NoneIsDropped
    <3>1. \A q \in Proc : at'[q] \notin InFile
          BY <2>1 DEF NoneIsDropped, InFile
    <3>2. mem[p][w] = e /\ until[p].read <= now
          BY <2>1 DEF NoneIsDropped, InFile
    <3>3. \A k \in Lease : granted'[k] > now => mem[p][k] = granted'[k]
          BY <2>1, <3>2 DEF NoneIsDropped, InFile, Times
    <3>4. leases' # Torn
          BY <2>1, LeaseAssumption DEF Times
    <3> QED BY <2>1, <3>1, <3>3, <3>4 DEF NoneIsDropped, InFile
  <2> QED BY <2>2, <2>3
<1>6. ASSUME NEW p \in Proc, LeaveLeases(p) PROVE LeaseInv'
  <2>1. /\ at'[p] = "out" /\ crossed' = (crossed \/ at[p] \in InFile)
        /\ \A q \in Proc \ {p} : /\ at'[q] = at[q] /\ ask'[q] = ask[q] /\ mem'[q] = mem[q]
                                 /\ until'[q] = until[q]
        /\ UNCHANGED <<leases, granted, longest, now>>
        BY <1>6 DEF LeaveLeases, Move, LeaseTypeOK
  <2>2. NoneIsStretched'
        BY <2>1 DEF NoneIsStretched
  <2>3. NoneIsDropped'
    <3> SUFFICES ASSUME ~crossed' PROVE NoneIsDropped'
        BY DEF NoneIsDropped
    <3>1. at[p] \notin InFile /\ at'[p] \notin InFile /\ ~crossed
          BY <2>1 DEF InFile
    <3> QED BY <2>1, <3>1 DEF NoneIsDropped, InFile
  <2> QED BY <2>2, <2>3
<1> QED BY <1>1, <1>2, <1>3, <1>4, <1>5, <1>6, <1>7 DEF LeaseMoves, LeaseStep

\* What one move of a process answers, by the leases that were ever given and by
\* those that still stand.
LEMMA LeaseAnswers ==
    ASSUME LeaseTypeOK, Asked, LeaseInv, LeaseMoves, now' \in Nat, now <= now',
           now' = now \/ UNCHANGED leaseVars,
           NEW p \in Proc, ask[p] # None, ask[p].modifier = None
    PROVE  LET covered(times) == \E k \in Lease : /\ times[k] > until'[p].read
                                                  /\ Covers(k, ask[p].scope, ask[p].app)
           IN  /\ (at[p] # "approved" /\ at'[p] = "approved" => covered(longest))
               /\ (at[p] # "refused" /\ at'[p] = "refused" /\ ~crossed' => ~covered(granted))
<1> DEFINE covered(times) == \E k \in Lease : /\ times[k] > until'[p].read
                                              /\ Covers(k, ask[p].scope, ask[p].app)
           Goal == /\ (at[p] # "approved" /\ at'[p] = "approved" => covered(longest))
                   /\ (at[p] # "refused" /\ at'[p] = "refused" /\ ~crossed' => ~covered(granted))
<1>1. CASE ReadLeases(p)
  <2> PICK m \in Times : m = Live(leases)
      BY LiveTypes
  <2>1. /\ ask[p] \in Request /\ until'[p].read = now /\ now + ask[p].ttl \in Nat
        /\ ~crossed' => ~crossed /\ \A q \in Proc : at[q] \notin InFile
    <3>1. ask[p] \in Request /\ at[p] = "ask"
          BY <1>1 DEF ReadLeases, Asked
    <3>2. ask[p].ttl \in Nat
          BY <3>1, LeaseAssumption DEF Request
    <3>3. until'[p].read = now
          BY <1>1 DEF ReadLeases, LeaseTypeOK
    <3>4. crossed' = (crossed \/ \E q \in Proc \ {p} : at[q] \in InFile)
          BY <1>1 DEF ReadLeases
    <3>5. at[p] \notin InFile
          BY <3>1 DEF InFile
    <3>6. ~crossed' => ~crossed /\ \A q \in Proc : at[q] \notin InFile
          BY <3>4, <3>5
    <3>7. now + ask[p].ttl \in Nat
          BY <3>2 DEF LeaseTypeOK
    <3> QED BY <3>1, <3>3, <3>6, <3>7
  <2>2. at'[p] = "prune" \/
        at'[p] = IF \E k \in Lease : m[k] > 0 /\ Covers(k, ask[p].scope, ask[p].app)
                 THEN "approved" ELSE "refused"
    <3>1. CASE Move(p, "prune")
          BY <3>1 DEF Move, LeaseTypeOK
    <3>2. CASE Decide(p, m, now + ask[p].ttl)
          BY <2>1, <3>2, DecideTypes
    <3> QED BY <1>1, <3>1, <3>2 DEF ReadLeases
  <2>3. \A k \in Lease : /\ m[k] > 0 => leases # Torn /\ m[k] = leases[k] /\ m[k] > now
                         /\ leases # Torn /\ leases[k] > now => m[k] = leases[k]
        BY LiveTypes
  <2>4. at'[p] = "approved" => covered(longest)
    <3>1. \A k \in Lease : m[k] > 0 => longest[k] > now
          BY <2>3 DEF NoneIsStretched, LeaseInv, LeaseTypeOK, Times
    <3> QED BY <2>1, <2>2, <3>1
  <2>5. at'[p] = "refused" /\ ~crossed' => ~covered(granted)
    <3>1. ~crossed' => \A k \in Lease : granted[k] > now => m[k] = granted[k]
          BY <2>1, <2>3 DEF NoneIsDropped, LeaseInv
    <3>2. now \in Nat /\ granted \in Times
          BY DEF LeaseTypeOK
    <3>3. \A k \in Lease : granted[k] > now => granted[k] > 0
          BY <3>2 DEF Times
    <3>4. SUFFICES ASSUME at'[p] = "refused", ~crossed', covered(granted) PROVE FALSE
          OBVIOUS
    <3>5. PICK k \in Lease : granted[k] > now /\ Covers(k, ask[p].scope, ask[p].app)
          BY <2>1, <3>4
    <3>6. m[k] > 0
          BY <3>1, <3>3, <3>4, <3>5
    <3> QED BY <2>2, <3>4, <3>5, <3>6
  <2> QED BY <2>4, <2>5
<1>2. CASE FillPruned(p)
  <2>1. /\ ask[p] \in Request /\ mem[p] \in Times /\ until[p].lease \in Nat
        /\ until[p].read \in Nat /\ at[p] = "pruned"
        /\ Decide(p, mem[p], until[p].lease)
        /\ UNCHANGED <<until, crossed>>
        BY <1>2 DEF FillPruned, Asked, LeaseTypeOK
  <2>2. at'[p] = IF \E k \in Lease : mem[p][k] > 0 /\ Covers(k, ask[p].scope, ask[p].app)
                 THEN "approved" ELSE "refused"
        BY <2>1, DecideTypes
  <2>3. at'[p] = "approved" => covered(longest)
    <3>1. \A k \in Lease : mem[p][k] > 0 => longest[k] > until[p].read
          BY <2>1 DEF NoneIsStretched, LeaseInv, LeaseTypeOK, Times
    <3> QED BY <2>1, <2>2, <3>1
  <2>4. at'[p] = "refused" /\ ~crossed' => ~covered(granted)
    <3>1. ~crossed' => \A k \in Lease : granted[k] > until[p].read => mem[p][k] = granted[k]
          BY <2>1 DEF NoneIsDropped, LeaseInv, InFile
    <3>2. granted \in Times
          BY DEF LeaseTypeOK
    <3>3. \A k \in Lease : granted[k] > until[p].read => granted[k] > 0
          BY <2>1, <3>2 DEF Times
    <3>4. SUFFICES ASSUME at'[p] = "refused", ~crossed', covered(granted) PROVE FALSE
          OBVIOUS
    <3>5. PICK k \in Lease : granted[k] > until[p].read /\ Covers(k, ask[p].scope, ask[p].app)
          BY <2>1, <3>4
    <3>6. mem[p][k] > 0
          BY <3>1, <3>3, <3>4, <3>5
    <3> QED BY <2>2, <3>4, <3>5, <3>6
  <2> QED BY <2>3, <2>4
<1>3. ASSUME at'[p] \in {"approved", "refused"}, at'[p] # at[p]
      PROVE  ReadLeases(p) \/ FillPruned(p)
  <2>1. ASSUME NEW q \in Proc, NEW r \in Request, Ask(q, r) PROVE FALSE
        BY <1>3, <2>1 DEF Ask, Move, LeaseTypeOK, Asked
  <2>2. ASSUME NEW q \in Proc, Open(q) \/ LeaveLeases(q) PROVE FALSE
        BY <1>3, <2>2 DEF Open, LeaveLeases, Move, LeaseTypeOK
  <2>3. ASSUME NEW q \in Proc, FillSaved(q) PROVE FALSE
        BY <1>3, <2>3 DEF FillSaved, Move, LeaseTypeOK, Asked
  <2>4. ASSUME NEW q \in Proc, ReadLeases(q) PROVE q = p
    <3>1. ask[q] \in Request /\ Live(leases) \in Times
          BY <2>4, LiveTypes DEF ReadLeases, Asked
    <3>2. ask[q].ttl \in Nat
          BY <3>1, LeaseAssumption DEF Request
    <3>3. now + ask[q].ttl \in Nat
          BY <3>2 DEF LeaseTypeOK
    <3>4. at'[p] = at[p] \/ p = q
      <4>1. CASE Move(q, "prune")
            BY <4>1 DEF Move, LeaseTypeOK
      <4>2. CASE Decide(q, Live(leases), now + ask[q].ttl)
            BY <3>1, <3>3, <4>2, DecideTypes
      <4> QED BY <2>4, <4>1, <4>2 DEF ReadLeases
    <3> QED BY <1>3, <3>4
  <2>5. ASSUME NEW q \in Proc, FillPruned(q) PROVE q = p
    <3>1. /\ ask[q] \in Request /\ mem[q] \in Times /\ until[q].lease \in Nat
          /\ Decide(q, mem[q], until[q].lease)
          BY <2>5 DEF FillPruned, Asked, LeaseTypeOK
    <3> QED BY <1>3, <3>1, DecideTypes
  <2> QED BY <1>3, <2>1, <2>2, <2>3, <2>4, <2>5 DEF LeaseMoves, LeaseStep, leaseVars
<1>4. Goal
  <2>1. CASE at'[p] \in {"approved", "refused"} /\ at'[p] # at[p]
        BY <1>1, <1>2, <1>3, <2>1
  <2>2. CASE ~ (at'[p] \in {"approved", "refused"} /\ at'[p] # at[p])
        BY <2>2
  <2> QED BY <2>1, <2>2
<1> QED BY <1>4

---------------------------------------------------------------------------
(* The types of the notifications.                                         *)

LEMMA MinIsMember ==
    ASSUME NEW S, S \subseteq Rule, S # {}
    PROVE  Min(S) \in S
<1> DEFINE R == {ss \in Nat \X Nat : ss[1] < ss[2]}
<1>1. IsWellFoundedOn(R, Nat)
      BY NatLessThanWellFounded DEF OpToRel
<1> HIDE DEF R
<1>2. PICK x \in S : \A y \in S : <<y, x>> \notin R
      BY <1>1, RuleAssumption, WFMin
<1>3. ASSUME NEW y \in S PROVE x <= y
  <2>1. x \in Nat /\ y \in Nat
        BY RuleAssumption
  <2>2. ~ (y < x)
    <3>1. y < x => <<y, x>> \in R
          BY <2>1 DEF R
    <3> QED BY <3>1, <1>2
  <2> QED BY <2>1, <2>2
<1> QED BY <1>3 DEF Min

\* A recipient is at hand, and a provider, when a run is about to try one.
AtHand == \A p \in Proc :
    /\ pc[p] \in {"members", "attempt", "live"} => todo[p] # {}
    /\ pc[p] \in {"attempt", "live"} => queue[p] # <<>> /\ tries[p] # <<>>

LEMMA NowIsRule ==
    ASSUME TypeOK, AtHand, NEW p \in Proc, pc[p] \in {"members", "attempt", "live"}
    PROVE  Now(p) \in Rule /\ Now(p) \in todo[p]
BY MinIsMember DEF TypeOK, AtHand, Now

LEMMA Starts ==
    ASSUME TypeOK, AtHand, NEW p \in Proc,
           \/ \E m \in Modifiers, e \in Events : StartEmit(p, m, e)
           \/ \E rs \in {Rule} \cup {{r} : r \in Rule} : StartReset(p, rs)
           \/ \E r \in Requests : StartTool(p, r)
    PROVE  (LeaseTypeOK' => TypeOK') /\ AtHand'
<1>1. runs + kills < MaxRuns => runs + 1 \in 0..MaxRuns
      BY RuleAssumption DEF TypeOK
<1>2. ASSUME NEW m \in Modifiers, NEW e \in Events, StartEmit(p, m, e)
      PROVE  (LeaseTypeOK' => TypeOK') /\ AtHand'
  <2>1. e \subseteq Rule /\ now \in Nat
        BY RuleAssumption DEF TypeOK, LeaseTypeOK
  <2> QED BY <1>1, <1>2, <2>1 DEF StartEmit, TypeOK, AtHand, Goto, Phase
<1>3. ASSUME NEW rs \in {Rule} \cup {{r} : r \in Rule}, StartReset(p, rs)
      PROVE  (LeaseTypeOK' => TypeOK') /\ AtHand'
  <2>1. [r \in Rule |-> IF r \in rs THEN 0 ELSE state[r]] \in Sent
        BY <1>3 DEF StartReset, TypeOK, Sent
  <2> QED BY <1>1, <1>3, <2>1 DEF StartReset, TypeOK, AtHand, Goto, Phase
<1>4. ASSUME NEW r \in Requests, StartTool(p, r)
      PROVE  (LeaseTypeOK' => TypeOK') /\ AtHand'
      BY <1>1, <1>4 DEF StartTool, TypeOK, AtHand, Goto, Phase
<1> QED BY <1>2, <1>3, <1>4

LEMMA QuitTypes ==
    ASSUME TypeOK, AtHand, NEW p \in Proc, Quit(p), LeaseTypeOK',
           state' \in {Torn} \cup Sent, history' = history, calm' \in BOOLEAN,
           runs' = runs, kills' \in 0..MaxKills
    PROVE  TypeOK' /\ AtHand'
<1>1. /\ NeverSent \in Sent /\ <<>> \in Seq(Recipient) /\ <<>> \in Seq({"pipe", "live"})
      /\ None \in Modifiers
      BY RuleAssumption DEF NeverSent, Sent
<1> QED BY <1>1 DEF Quit, Goto, TypeOK, AtHand, Phase

\* The answer of a provider leaves what is left to try, and the history, well typed.
LEMMA AnsweredTypes ==
    ASSUME TypeOK, AtHand, NEW p \in Proc, pc[p] \in {"attempt", "live"},
           NEW good \in BOOLEAN, Answered(p, good)
    PROVE  /\ history' \subseteq Entry
           /\ pc' \in [Proc -> Phase]
           /\ queue' \in [Proc -> Seq(Recipient)]
           /\ tries' \in [Proc -> Seq({"pipe", "live"})]
           /\ reached' \in [Proc -> [one : BOOLEAN, all : BOOLEAN]]
           /\ \A q \in Proc \ {p} : /\ pc'[q] = pc[q] /\ queue'[q] = queue[q]
                                    /\ tries'[q] = tries[q] /\ reached'[q] = reached[q]
           /\ \/ pc'[p] = "members"
              \/ pc'[p] = "attempt" /\ queue'[p] # <<>> /\ tries'[p] # <<>>
<1>1. /\ queue[p] \in Seq(Recipient) /\ queue[p] # <<>>
      /\ tries[p] \in Seq({"pipe", "live"}) /\ tries[p] # <<>>
      /\ reached[p] \in [one : BOOLEAN, all : BOOLEAN]
      BY DEF TypeOK, AtHand
<1>2. /\ Head(queue[p]) \in Recipient /\ Tail(queue[p]) \in Seq(Recipient)
      /\ Tail(tries[p]) \in Seq({"pipe", "live"})
      BY <1>1, HeadTailProperties
<1>3. Now(p) \in Rule
      BY NowIsRule
<1>4. history' \subseteq Entry
  <2>1. [rule |-> Now(p), to |-> To(p), at |-> start[p]] \in Entry
        BY <1>2, <1>3 DEF Entry, To, TypeOK
  <2> QED BY <2>1 DEF Answered, TypeOK
<1>8. <<>> \in Seq({"pipe", "live"})
      OBVIOUS
<1> PICK rest \in Seq({"pipe", "live"}) : rest = IF good /\ ~SendAll THEN <<>> ELSE Tail(tries[p])
    BY <1>2, <1>8, Zenon
<1> PICK one \in BOOLEAN : one = (reached[p].one \/ good)
    BY <1>1
<1>5. tries' = [tries EXCEPT ![p] = rest]
      BY DEF Answered
<1>6. CASE rest = <<>>
  <2>1. /\ queue' = [queue EXCEPT ![p] = Tail(queue[p])]
        /\ reached' = [reached EXCEPT ![p] = [one |-> FALSE, all |-> reached[p].all /\ one]]
        /\ pc' = [pc EXCEPT ![p] = "members"]
        BY <1>6 DEF Answered, Goto
  <2>2. [one |-> FALSE, all |-> reached[p].all /\ one] \in [one : BOOLEAN, all : BOOLEAN]
        OBVIOUS
  <2> QED BY <1>2, <1>4, <1>5, <2>1, <2>2 DEF TypeOK, Phase
<1>7. CASE rest # <<>>
  <2>1. /\ queue' = queue /\ pc' = [pc EXCEPT ![p] = "attempt"]
        /\ reached' = [reached EXCEPT ![p].one = one]
        BY <1>7 DEF Answered, Goto
  <2>2. [reached[p] EXCEPT !.one = one] \in [one : BOOLEAN, all : BOOLEAN]
        BY <1>1
  <2> QED BY <1>1, <1>4, <1>5, <1>7, <2>1, <2>2 DEF TypeOK, Phase
<1> QED BY <1>6, <1>7

\* Every action asks for live control only as require_live_control lets it.
LEMMA NextMovesLeases ==
    ASSUME TypeOK, Next
    PROVE  /\ LeaseMoves /\ now' \in Nat /\ now <= now'
           /\ now' = now \/ UNCHANGED leaseVars
<1>1. now \in Nat
      BY DEF TypeOK, LeaseTypeOK
<1>2. CASE Tick
      BY <1>1, <1>2 DEF Tick, LeaseMoves
<1>3. ASSUME NEW p \in Proc, NEW r \in Requests, StartTool(p, r)
      PROVE  LeaseMoves /\ now' = now
      BY <1>3, RuleAssumption DEF StartTool, LeaseMoves
<1>4. ASSUME NEW p \in Proc, Attempt(p) PROVE LeaseMoves /\ now' = now
  <2>1. CASE UNCHANGED leaseVars
        BY <1>4, <2>1 DEF Attempt, LeaseMoves
  <2>2. CASE \E t \in IF modifier[p] = None THEN {0} ELSE TTL :
                Ask(p, [scope |-> "desktop", app |-> Messenger,
                        modifier |-> modifier[p], ttl |-> t])
    <3>1. PICK t \in TTL : Ask(p, [scope |-> "desktop", app |-> Messenger,
                                   modifier |-> modifier[p], ttl |-> t])
          BY <2>2, LeaseAssumption
    <3>2. modifier[p] \in Lease \cup {None}
          BY RuleAssumption DEF TypeOK
    <3>3. [scope |-> "desktop", app |-> Messenger, modifier |-> modifier[p], ttl |-> t] \in Request
          BY <3>2, RuleAssumption DEF Request, Scope
    <3> QED BY <1>4, <3>1, <3>3 DEF Attempt, LeaseMoves
  <2> QED BY <1>4, <2>1, <2>2 DEF Attempt
<1>5. ASSUME NEW p \in Proc, Approving(p) PROVE LeaseMoves /\ now' = now
      BY <1>5 DEF Approving, LeaseMoves
<1>6. ASSUME NEW p \in Proc, EndTool(p) \/ Drive(p) \/ Refuse(p) \/ Kill(p)
      PROVE  LeaseMoves /\ now' = now
      BY <1>6 DEF EndTool, Drive, Refuse, Kill, LeaseMoves
<1>7. ASSUME NEW p \in Proc,
             \/ \E m \in Modifiers, e \in Events : StartEmit(p, m, e)
             \/ \E rs \in {Rule} \cup {{r} : r \in Rule} : StartReset(p, rs)
             \/ NextRule(p) \/ NextMember(p) \/ Unconfigured(p) \/ RuleDone(p)
             \/ RulesDone(p) \/ OpenState(p) \/ FillState(p)
      PROVE  LeaseMoves /\ now' = now
      BY <1>7 DEF StartEmit, StartReset, NextRule, NextMember, Unconfigured, RuleDone,
                  RulesDone, OpenState, FillState, LeaseMoves
<1> QED BY <1>1, <1>2, <1>3, <1>4, <1>5, <1>6, <1>7 DEF Next

LEMMA NotifyTypes ==
    ASSUME TypeOK, AtHand, LeaseTypeOK', [Next]_vars
    PROVE  TypeOK' /\ AtHand'
<1>1. CASE Tick
      BY <1>1 DEF Tick, emitVars, TypeOK, AtHand
<1>2. ASSUME NEW p \in Proc,
             \/ \E m \in Modifiers, e \in Events : StartEmit(p, m, e)
             \/ \E rs \in {Rule} \cup {{r} : r \in Rule} : StartReset(p, rs)
             \/ \E r \in Requests : StartTool(p, r)
      PROVE  TypeOK' /\ AtHand'
      BY <1>2, Starts
<1>3. ASSUME NEW p \in Proc, EndTool(p) PROVE TypeOK' /\ AtHand'
      BY <1>3, QuitTypes DEF EndTool, TypeOK
<1>4. ASSUME NEW p \in Proc, NextRule(p) PROVE TypeOK' /\ AtHand'
  <2>1. Now(p) \in Rule /\ pc[p] = "rules" /\ todo[p] # {}
        BY <1>4, MinIsMember DEF NextRule, TypeOK, Now
  <2>2. MembersOf[Now(p)] \in Seq(Recipient)
        BY <2>1, RuleAssumption
  <2>3. CASE CoolingDown(p, Now(p))
        BY <1>4, <2>1, <2>3 DEF NextRule, TypeOK, AtHand
  <2>4. CASE ~ CoolingDown(p, Now(p))
    <3>1. /\ queue' = [queue EXCEPT ![p] = MembersOf[Now(p)]]
          /\ reached' = [reached EXCEPT ![p] = [one |-> FALSE, all |-> TRUE]]
          /\ pc' = [pc EXCEPT ![p] = "members"] /\ todo' = todo
          BY <1>4, <2>4 DEF NextRule, Goto
    <3> QED BY <1>4, <2>1, <2>2, <3>1 DEF NextRule, TypeOK, AtHand, Phase
  <2> QED BY <2>3, <2>4
<1>5. ASSUME NEW p \in Proc, NextMember(p) PROVE TypeOK' /\ AtHand'
  <2>1. queue[p] \in Seq(Recipient) /\ queue[p] # <<>>
        BY <1>5 DEF NextMember, TypeOK
  <2>2. To(p) \in Recipient /\ Tail(queue[p]) \in Seq(Recipient)
        BY <2>1, HeadTailProperties DEF To
  <2> PICK tried \in Seq({"pipe", "live"}) : tried = Attempts[To(p)]
      BY <1>5, <2>2, RuleAssumption DEF NextMember
  <2>3. CASE tried = <<>>
    <3>1. /\ queue' = [queue EXCEPT ![p] = Tail(queue[p])]
          /\ reached' = [reached EXCEPT ![p].all = FALSE] /\ UNCHANGED <<pc, tries>>
          BY <1>5, <2>3 DEF NextMember
    <3>2. reached' \in [Proc -> [one : BOOLEAN, all : BOOLEAN]]
          BY <3>1 DEF TypeOK
    <3>3. pc[p] = "members"
          BY <1>5 DEF NextMember
    <3> QED BY <1>5, <2>2, <3>1, <3>2, <3>3 DEF NextMember, TypeOK, AtHand
  <2>4. CASE tried # <<>>
    <3>1. /\ tries' = [tries EXCEPT ![p] = tried] /\ queue' = queue
          /\ reached' = [reached EXCEPT ![p].one = FALSE]
          /\ pc' = [pc EXCEPT ![p] = "attempt"]
          BY <1>5, <2>4 DEF NextMember, Goto
    <3>2. reached' \in [Proc -> [one : BOOLEAN, all : BOOLEAN]]
          BY <3>1 DEF TypeOK
    <3>3. pc[p] = "members"
          BY <1>5 DEF NextMember
    <3> QED BY <1>5, <2>1, <2>4, <3>1, <3>2, <3>3 DEF NextMember, TypeOK, AtHand, Phase
  <2> QED BY <2>3, <2>4
<1>6. ASSUME NEW p \in Proc, Unconfigured(p) PROVE TypeOK' /\ AtHand'
      BY <1>6, QuitTypes DEF Unconfigured, TypeOK
<1>7. ASSUME NEW p \in Proc, RuleDone(p) PROVE TypeOK' /\ AtHand'
  <2>1. Now(p) \in Rule
        BY <1>7, NowIsRule DEF RuleDone
  <2>2. snap' \in [Proc -> Sent]
    <3>1. [snap[p] EXCEPT ![Now(p)] = start[p]] \in Sent
          BY <2>1 DEF TypeOK, Sent
    <3>2. snap' = snap \/ snap' = [snap EXCEPT ![p] = [snap[p] EXCEPT ![Now(p)] = start[p]]]
          BY <1>7 DEF RuleDone
    <3> QED BY <3>1, <3>2 DEF TypeOK
  <2>3. dirty' \in [Proc -> BOOLEAN] /\ calm' \in BOOLEAN
        BY <1>7 DEF RuleDone, TypeOK
  <2> QED BY <1>7, <2>2, <2>3 DEF RuleDone, TypeOK, AtHand, Goto, Phase
<1>8. ASSUME NEW p \in Proc, Attempt(p) PROVE TypeOK' /\ AtHand'
  <2>1. CASE Goto(p, "live") /\ UNCHANGED <<history, queue, tries, reached>>
        BY <1>8, <2>1 DEF Attempt, TypeOK, AtHand, Goto, Phase
  <2>2. ASSUME NEW good \in BOOLEAN, Answered(p, good) PROVE TypeOK' /\ AtHand'
    <3>1. pc[p] = "attempt"
          BY <1>8 DEF Attempt
    <3>2. UNCHANGED <<state, snap, start, todo, dirty, modifier, calm, runs, kills>>
          BY <1>8 DEF Attempt
    <3> QED BY <2>2, <3>1, <3>2, AnsweredTypes DEF TypeOK, AtHand
  <2> QED BY <1>8, <2>1, <2>2 DEF Attempt
<1>9. ASSUME NEW p \in Proc, Approving(p) PROVE TypeOK' /\ AtHand'
      BY <1>9 DEF Approving, emitVars, TypeOK, AtHand
<1>10. ASSUME NEW p \in Proc, Drive(p) PROVE TypeOK' /\ AtHand'
  <2>1. PICK good \in BOOLEAN : Answered(p, good)
        BY <1>10 DEF Drive
  <2>2. /\ pc[p] = "live"
        /\ UNCHANGED <<state, snap, start, todo, dirty, modifier, calm, runs, kills>>
        BY <1>10 DEF Drive
  <2> QED BY <2>1, <2>2, AnsweredTypes DEF TypeOK, AtHand
<1>11. ASSUME NEW p \in Proc, Refuse(p) PROVE TypeOK' /\ AtHand'
      BY <1>11, QuitTypes DEF Refuse, TypeOK
<1>12. ASSUME NEW p \in Proc, RulesDone(p) PROVE TypeOK' /\ AtHand'
  <2>1. CASE Quit(p)
        BY <1>12, <2>1, QuitTypes DEF RulesDone, TypeOK
  <2>2. CASE ~ Quit(p)
        BY <1>12, <2>2 DEF RulesDone, TypeOK, AtHand, Goto, Phase
  <2> QED BY <2>1, <2>2
<1>13. ASSUME NEW p \in Proc, OpenState(p) PROVE TypeOK' /\ AtHand'
      BY <1>13 DEF OpenState, TypeOK, AtHand, Goto, Phase
<1>14. ASSUME NEW p \in Proc, FillState(p) PROVE TypeOK' /\ AtHand'
      BY <1>14, QuitTypes DEF FillState, TypeOK
<1>15. ASSUME NEW p \in Proc, Kill(p) PROVE TypeOK' /\ AtHand'
  <2>1. kills + 1 \in 0..MaxKills
        BY <1>15, RuleAssumption DEF Kill, TypeOK
  <2> QED BY <1>15, <2>1, QuitTypes DEF Kill, TypeOK
<1>16. CASE UNCHANGED vars
      BY <1>16 DEF vars, emitVars, TypeOK, AtHand
<1> QED BY <1>1, <1>2, <1>3, <1>4, <1>5, <1>6, <1>7, <1>8, <1>9, <1>10, <1>11, <1>12,
           <1>13, <1>14, <1>15, <1>16 DEF Next

\* The types, and what the leases and the runs keep with them.
Typed == TypeOK /\ AtHand /\ Asked /\ LeaseInv

LEMMA TypedInit == Init => Typed
<1> SUFFICES ASSUME Init PROVE Typed
    OBVIOUS
<1>1. NoLeases \in Times /\ \A k \in Lease : NoLeases[k] = 0
      BY DEF NoLeases, Times
<1>2. LeaseTypeOK /\ Asked
      BY <1>1 DEF Init, LeaseInit, LeaseTypeOK, Asked, InFile
<1>3. NoLeases # Torn
      BY <1>1, LeaseAssumption DEF Times
<1>4. LeaseInv
      BY <1>1, <1>3 DEF Init, LeaseInit, LeaseInv, NoneIsStretched, NoneIsDropped, InFile
<1>5. AtHand
      BY DEF Init, AtHand
<1>6. TypeOK
  <2>1. /\ NeverSent \in Sent /\ <<>> \in Seq(Recipient) /\ <<>> \in Seq({"pipe", "live"})
        /\ None \in Modifiers /\ 0 \in 0..MaxRuns /\ 0 \in 0..MaxKills
        BY RuleAssumption DEF NeverSent, Sent
  <2> QED BY <1>2, <2>1 DEF Init, TypeOK, Phase
<1> QED BY <1>2, <1>4, <1>5, <1>6 DEF Typed

LEMMA TypedStep ==
    ASSUME Typed, [Next]_vars
    PROVE  Typed'
<1>1. /\ LeaseMoves /\ now' \in Nat /\ now <= now'
      /\ now' = now \/ UNCHANGED leaseVars
  <2>1. CASE UNCHANGED vars
        BY <2>1 DEF vars, LeaseMoves, Typed, TypeOK, LeaseTypeOK
  <2> QED BY <2>1, NextMovesLeases DEF Typed
<1>2. LeaseTypeOK' /\ Asked'
      BY <1>1, LeaseTypes DEF Typed, TypeOK
<1>3. LeaseInv'
      BY <1>1, LeaseKeeps DEF Typed, TypeOK
<1>4. TypeOK' /\ AtHand'
      BY <1>2, NotifyTypes DEF Typed
<1> QED BY <1>2, <1>3, <1>4 DEF Typed

\* Every file, lease, request, queue and history entry of the notifications has its type.
THEOREM TypeCorrect == Spec => []TypeOK
<1>1. Typed => TypeOK
      BY DEF Typed
<1> QED BY <1>1, TypedInit, TypedStep, PTL DEF Spec

\* require_live_control: whatever processes do to the file of leases, and however
\* many, an approval without a modifier rests on a lease that covers the request
\* and was once given for longer than the moment it was looked for; and as long as
\* no two processes met in the file, a refusal means that there was none.
THEOREM LeaseDecidesRight == Spec => LeaseDecides
<1>1. ASSUME Typed, [Next]_vars, NEW p \in Proc, ask[p] # None, ask[p].modifier = None
      PROVE  LET covered(times) == \E k \in Lease : /\ times[k] > until'[p].read
                                                    /\ Covers(k, ask[p].scope, ask[p].app)
             IN  /\ (at[p] # "approved" /\ at'[p] = "approved" => covered(longest))
                 /\ (at[p] # "refused" /\ at'[p] = "refused" /\ ~crossed' => ~covered(granted))
  <2>1. /\ LeaseMoves /\ now' \in Nat /\ now <= now'
        /\ now' = now \/ UNCHANGED leaseVars
    <3>1. CASE UNCHANGED vars
          BY <1>1, <3>1 DEF vars, LeaseMoves, Typed, TypeOK, LeaseTypeOK
    <3> QED BY <1>1, <3>1, NextMovesLeases DEF Typed
  <2> QED BY <1>1, <2>1, LeaseAnswers DEF Typed, TypeOK
<1>2. ASSUME Typed, [Next]_vars
      PROVE  [\A p \in Proc : ask[p] # None /\ ask[p].modifier = None =>
                LET covered(times) == \E k \in Lease : /\ times[k] > until'[p].read
                                                       /\ Covers(k, ask[p].scope, ask[p].app)
                IN  /\ (at[p] # "approved" /\ at'[p] = "approved" => covered(longest))
                    /\ (at[p] # "refused" /\ at'[p] = "refused" /\ ~crossed' => ~covered(granted))
             ]_leaseVars
      BY <1>1, <1>2
<1> QED BY <1>2, TypedInit, TypedStep, PTL DEF Spec, LeaseDecides

---------------------------------------------------------------------------
(* No alert is swallowed.                                                  *)

\* While all recipients so far got the message of the present rule, each of its
\* members got it or is still in the queue; the present one got it if any of its
\* providers has succeeded.
Waiting(p) == {queue[p][i] : i \in DOMAIN queue[p]}
Earning == \A p \in Proc :
    /\ pc[p] \in {"members", "attempt", "live"} /\ reached[p].all =>
          \A m \in Members(Now(p)) : m \in Waiting(p) \/ Got(Now(p), m, start[p])
    /\ pc[p] \in {"attempt", "live"} /\ reached[p].one => Got(Now(p), To(p), start[p])

LEMMA QueueSplits ==
    ASSUME NEW q \in Seq(Recipient), q # <<>>, NEW i \in DOMAIN q
    PROVE  q[i] = Head(q) \/ \E j \in DOMAIN Tail(q) : Tail(q)[j] = q[i]
<1>1. DOMAIN q = 1..Len(q) /\ Len(q) \in Nat /\ Len(q) # 0
      BY EmptySeq
<1>2. CASE i = 1
      BY <1>2
<1>3. CASE i # 1
  <2>1. i - 1 \in 1..(Len(q) - 1) /\ (i - 1) + 1 = i
        BY <1>1, <1>3
  <2>2. /\ Tail(q) \in Seq(Recipient) /\ Len(Tail(q)) = Len(q) - 1
        /\ \A j \in 1..Len(Tail(q)) : Tail(q)[j] = q[j + 1]
        BY HeadTailProperties
  <2>3. DOMAIN Tail(q) = 1..Len(Tail(q))
        BY <2>2
  <2> QED BY <2>1, <2>2, <2>3
<1> QED BY <1>2, <1>3

LEMMA GotGrows ==
    ASSUME history \subseteq history', NEW r, NEW m, NEW t, Got(r, m, t)
    PROVE  Got(r, m, t)'
BY DEF Got

\* What a run relies on stays so through a step it takes no part in, or that leaves
\* where it is, its rule, its queue and its answers alone.
LEMMA EarningStays ==
    ASSUME Earning, history \subseteq history', NEW q \in Proc,
           UNCHANGED <<pc[q], todo[q], queue[q], reached[q], start[q]>>
    PROVE  /\ pc'[q] \in {"members", "attempt", "live"} /\ reached'[q].all =>
                 \A m \in Members(Now(q)') : m \in Waiting(q)' \/ Got(Now(q), m, start[q])'
           /\ pc'[q] \in {"attempt", "live"} /\ reached'[q].one => Got(Now(q), To(q), start[q])'
<1>1. Now(q)' = Now(q) /\ To(q)' = To(q) /\ Waiting(q)' = Waiting(q)
      BY DEF Now, To, Waiting
<1>2. \A m : Got(Now(q), m, start[q]) => Got(Now(q), m, start[q])'
      BY <1>1 DEF Got
<1> QED BY <1>1, <1>2 DEF Earning

\* The answer of a provider: the recipient got it if this or an earlier one succeeded.
LEMMA AnsweredEarns ==
    ASSUME TypeOK, AtHand, Earning, NEW p \in Proc, pc[p] \in {"attempt", "live"},
           NEW good \in BOOLEAN, Answered(p, good), UNCHANGED <<start, todo>>
    PROVE  history \subseteq history' /\ Earning'
<1>1. history \subseteq history'
      BY DEF Answered
<1>2. queue[p] \in Seq(Recipient) /\ queue[p] # <<>> /\ reached[p] \in [one : BOOLEAN, all : BOOLEAN]
      BY DEF TypeOK, AtHand
<1> PICK now_ \in Rule : now_ = Now(p)
    BY NowIsRule
<1> PICK to \in Recipient : to = To(p)
    BY <1>2, HeadTailProperties DEF To
<1> PICK t \in Nat : t = start[p]
    BY DEF TypeOK
<1>3. Now(p)' = now_ /\ start'[p] = t
      BY DEF Now
<1>4. good \/ reached[p].one => Got(now_, to, t)'
  <2>1. CASE good
    <3>1. [rule |-> now_, to |-> to, at |-> t] \in history'
          BY <2>1 DEF Answered
    <3> QED BY <3>1 DEF Got
  <2>2. CASE reached[p].one
    <3>1. Got(now_, to, t)
          BY <2>2 DEF Earning
    <3> QED BY <1>1, <3>1, GotGrows
  <2> QED BY <2>1, <2>2
<1>5. \A q \in Proc \ {p} : UNCHANGED <<pc[q], todo[q], queue[q], reached[q], start[q]>>
      BY AnsweredTypes
<1>6. ASSUME NEW m \in Members(now_), reached[p].all
      PROVE  m \in Waiting(p) \/ Got(now_, m, t)'
  <2>1. m \in Waiting(p) \/ Got(now_, m, t)
        BY <1>6 DEF Earning
  <2> QED BY <1>1, <2>1, GotGrows
<1> PICK rest \in {<<>>, Tail(tries[p])} : rest = IF good /\ ~SendAll THEN <<>> ELSE Tail(tries[p])
    BY Zenon
<1>7. CASE rest = <<>>
  <2>1. /\ queue' = [queue EXCEPT ![p] = Tail(queue[p])]
        /\ reached' = [reached EXCEPT ![p] = [one |-> FALSE,
                                              all |-> reached[p].all /\ (reached[p].one \/ good)]]
        /\ pc' = [pc EXCEPT ![p] = "members"]
        BY <1>7 DEF Answered, Goto
  <2>2. /\ queue'[p] = Tail(queue[p]) /\ pc'[p] = "members"
        /\ reached'[p].all = (reached[p].all /\ (reached[p].one \/ good))
        BY <2>1 DEF TypeOK
  <2>3. ASSUME NEW m \in Members(now_), reached'[p].all
        PROVE  m \in Waiting(p)' \/ Got(now_, m, t)'
    <3>1. reached[p].all /\ (reached[p].one \/ good)
          BY <2>2, <2>3
    <3>2. CASE m \in Waiting(p)
      <4>1. PICK i \in DOMAIN queue[p] : m = queue[p][i]
            BY <3>2 DEF Waiting
      <4>2. CASE m = Head(queue[p])
            BY <1>4, <3>1, <4>2 DEF To
      <4>3. CASE \E j \in DOMAIN Tail(queue[p]) : Tail(queue[p])[j] = m
            BY <2>2, <4>3 DEF Waiting
      <4> QED BY <1>2, <4>1, <4>2, <4>3, QueueSplits
    <3> QED BY <1>6, <3>1, <3>2
  <2> QED BY <1>1, <1>3, <1>5, <2>2, <2>3, EarningStays DEF Earning
<1>8. CASE rest # <<>>
  <2>1. /\ queue' = queue /\ pc' = [pc EXCEPT ![p] = "attempt"]
        /\ reached' = [reached EXCEPT ![p].one = reached[p].one \/ good]
        BY <1>8 DEF Answered, Goto
  <2>2. /\ Waiting(p)' = Waiting(p) /\ To(p)' = to /\ pc'[p] = "attempt"
        /\ reached'[p].all = reached[p].all /\ reached'[p].one = (reached[p].one \/ good)
        BY <2>1 DEF Waiting, To, TypeOK
  <2> QED BY <1>1, <1>3, <1>4, <1>5, <1>6, <2>2, EarningStays DEF Earning
<1> QED BY <1>1, <1>7, <1>8

LEMMA QuitEarns ==
    ASSUME TypeOK, Earning, NEW p \in Proc, Quit(p), history' = history
    PROVE  Earning'
<1>1. \A q \in Proc \ {p} : UNCHANGED <<pc[q], todo[q], queue[q], reached[q], start[q]>>
      BY DEF Quit, Goto, TypeOK
<1>2. pc'[p] = "idle"
      BY DEF Quit, Goto, TypeOK
<1> QED BY <1>1, <1>2, EarningStays DEF Earning

LEMMA EarningKept ==
    ASSUME TypeOK, AtHand, Earning, [Next]_vars
    PROVE  history \subseteq history' /\ Earning'
<1>1. ASSUME UNCHANGED <<pc, todo, queue, reached, start, history>>
      PROVE  history \subseteq history' /\ Earning'
      BY <1>1, EarningStays DEF Earning
<1>2. ASSUME NEW p \in Proc, history' = history, pc'[p] \notin {"members", "attempt", "live"},
             \A q \in Proc \ {p} : UNCHANGED <<pc[q], todo[q], queue[q], reached[q], start[q]>>
      PROVE  history \subseteq history' /\ Earning'
      BY <1>2, EarningStays DEF Earning
<1>3. ASSUME NEW p \in Proc,
             \/ \E m \in Modifiers, e \in Events : StartEmit(p, m, e)
             \/ \E rs \in {Rule} \cup {{r} : r \in Rule} : StartReset(p, rs)
             \/ \E r \in Requests : StartTool(p, r)
             \/ RuleDone(p) \/ OpenState(p)
      PROVE  history \subseteq history' /\ Earning'
  <2>1. /\ history' = history /\ pc'[p] \notin {"members", "attempt", "live"}
        /\ \A q \in Proc \ {p} : UNCHANGED <<pc[q], todo[q], queue[q], reached[q], start[q]>>
        BY <1>3 DEF StartEmit, StartReset, StartTool, RuleDone, OpenState, Goto, TypeOK
  <2> QED BY <1>2, <2>1
<1>4. ASSUME NEW p \in Proc, Quit(p), history' = history
      PROVE  history \subseteq history' /\ Earning'
      BY <1>4, QuitEarns
<1>5. ASSUME NEW p \in Proc, NextRule(p) PROVE history \subseteq history' /\ Earning'
  <2>1. CASE CoolingDown(p, Now(p))
    <3>1. /\ history' = history /\ pc'[p] \notin {"members", "attempt", "live"}
          /\ \A q \in Proc \ {p} : UNCHANGED <<pc[q], todo[q], queue[q], reached[q], start[q]>>
          BY <1>5, <2>1 DEF NextRule, TypeOK
    <3> QED BY <1>2, <3>1
  <2>2. CASE ~ CoolingDown(p, Now(p))
    <3>1. /\ queue' = [queue EXCEPT ![p] = MembersOf[Now(p)]]
          /\ pc' = [pc EXCEPT ![p] = "members"]
          /\ reached' = [reached EXCEPT ![p] = [one |-> FALSE, all |-> TRUE]]
          /\ UNCHANGED <<todo, start, history>>
          BY <1>5, <2>2 DEF NextRule, Goto
    <3>2. /\ queue'[p] = MembersOf[Now(p)] /\ pc'[p] = "members" /\ Now(p)' = Now(p)
          /\ \A q \in Proc \ {p} : UNCHANGED <<pc[q], todo[q], queue[q], reached[q], start[q]>>
          BY <3>1 DEF TypeOK, Now
    <3>3. \A m \in Members(Now(p)) : m \in Waiting(p)'
          BY <3>2 DEF Members, Waiting
    <3> QED BY <3>1, <3>2, <3>3, EarningStays DEF Earning
  <2> QED BY <2>1, <2>2
<1>6. ASSUME NEW p \in Proc, NextMember(p) PROVE history \subseteq history' /\ Earning'
  <2>1. /\ history' = history /\ UNCHANGED <<todo, start>> /\ Now(p)' = Now(p)
        /\ pc[p] = "members"
        BY <1>6 DEF NextMember, Now
  <2>2. CASE Attempts[To(p)] = <<>>
    <3>1. /\ reached'[p].all = FALSE /\ pc'[p] = "members"
          /\ \A q \in Proc \ {p} : UNCHANGED <<pc[q], todo[q], queue[q], reached[q], start[q]>>
          BY <1>6, <2>2 DEF NextMember, TypeOK
    <3> QED BY <2>1, <3>1, EarningStays DEF Earning
  <2>3. CASE Attempts[To(p)] # <<>>
    <3>1. /\ queue' = queue /\ reached' = [reached EXCEPT ![p].one = FALSE]
          /\ pc' = [pc EXCEPT ![p] = "attempt"]
          BY <1>6, <2>3 DEF NextMember, Goto
    <3>2. /\ reached'[p].all = reached[p].all /\ reached'[p].one = FALSE /\ Waiting(p)' = Waiting(p)
          /\ \A q \in Proc \ {p} : UNCHANGED <<pc[q], todo[q], queue[q], reached[q], start[q]>>
          BY <2>1, <3>1 DEF TypeOK, Waiting
    <3>3. reached[p].all => \A m \in Members(Now(p)) : m \in Waiting(p) \/ Got(Now(p), m, start[p])
          BY <2>1 DEF Earning
    <3>4. \A m : Got(Now(p), m, start[p])' = Got(Now(p), m, start[p])
          BY <2>1 DEF Got
    <3> QED BY <2>1, <3>2, <3>3, <3>4, EarningStays DEF Earning
  <2> QED BY <2>2, <2>3
<1>7. ASSUME NEW p \in Proc, Attempt(p) PROVE history \subseteq history' /\ Earning'
  <2>1. CASE Goto(p, "live") /\ UNCHANGED <<history, queue, tries, reached>>
    <3>1. /\ pc[p] = "attempt" /\ pc'[p] = "live" /\ UNCHANGED <<todo, queue, reached, start, history>>
          /\ \A q \in Proc \ {p} : pc'[q] = pc[q]
          BY <1>7, <2>1 DEF Attempt, Goto, TypeOK
    <3>2. Now(p)' = Now(p) /\ To(p)' = To(p) /\ Waiting(p)' = Waiting(p)
          BY <3>1 DEF Now, To, Waiting
    <3>3. \A m : Got(Now(p), m, start[p])' = Got(Now(p), m, start[p])
          BY <3>1, <3>2 DEF Got
    <3> QED BY <3>1, <3>2, <3>3, EarningStays DEF Earning
  <2>2. ASSUME NEW good \in BOOLEAN, Answered(p, good) PROVE history \subseteq history' /\ Earning'
    <3>1. pc[p] = "attempt" /\ UNCHANGED <<start, todo>>
          BY <1>7 DEF Attempt
    <3> QED BY <2>2, <3>1, AnsweredEarns
  <2> QED BY <1>7, <2>1, <2>2 DEF Attempt
<1>8. ASSUME NEW p \in Proc, Drive(p) PROVE history \subseteq history' /\ Earning'
  <2>1. PICK good \in BOOLEAN : Answered(p, good)
        BY <1>8 DEF Drive
  <2>2. pc[p] = "live" /\ UNCHANGED <<start, todo>>
        BY <1>8 DEF Drive
  <2> QED BY <2>1, <2>2, AnsweredEarns
<1>9. ASSUME NEW p \in Proc, RulesDone(p) PROVE history \subseteq history' /\ Earning'
  <2>1. history' = history
        BY <1>9 DEF RulesDone
  <2>2. CASE Quit(p)
        BY <1>4, <2>1, <2>2
  <2>3. CASE ~ Quit(p)
    <3>1. /\ pc'[p] = "open"
          /\ \A q \in Proc \ {p} : UNCHANGED <<pc[q], todo[q], queue[q], reached[q], start[q]>>
          BY <1>9, <2>3 DEF RulesDone, Goto, TypeOK
    <3> QED BY <1>2, <2>1, <3>1
  <2> QED BY <2>2, <2>3
<1>10. ASSUME NEW p \in Proc, EndTool(p) \/ Unconfigured(p) \/ Refuse(p) \/ FillState(p) \/ Kill(p)
       PROVE  history \subseteq history' /\ Earning'
       BY <1>4, <1>10 DEF EndTool, Unconfigured, Refuse, FillState, Kill
<1>11. ASSUME Tick \/ UNCHANGED vars \/ \E p \in Proc : Approving(p)
       PROVE  history \subseteq history' /\ Earning'
       BY <1>1, <1>11 DEF Tick, Approving, vars, emitVars
<1> QED BY <1>3, <1>5, <1>6, <1>7, <1>8, <1>9, <1>10, <1>11 DEF Next

LEMMA EarnedKept ==
    ASSUME TypeOK, AtHand, Earning, CooldownIsEarned, [Next]_vars
    PROVE  CooldownIsEarned'
<1>1. history \subseteq history'
      BY EarningKept
<1>2. ASSUME NEW r \in Rule, NEW t, \A m \in Members(r) : Got(r, m, t)
      PROVE  \A m \in Members(r) : Got(r, m, t)'
      BY <1>1, <1>2, GotGrows
<1>3. ASSUME \A r \in Rule : state' # Torn /\ state'[r] # 0 =>
                 \/ state # Torn /\ state[r] = state'[r]
                 \/ \E q \in Proc : snap[q][r] = state'[r],
             \A q \in Proc, r \in Rule : snap'[q][r] # 0 =>
                 \/ snap'[q][r] = snap[q][r]
                 \/ state # Torn /\ snap'[q][r] = state[r]
                 \/ \A m \in Members(r) : Got(r, m, snap'[q][r])
      PROVE  CooldownIsEarned'
  <2>1. ASSUME NEW r \in Rule, state' # Torn, state'[r] # 0
        PROVE  \A m \in Members(r) :
                  \E e \in history' : e.rule = r /\ e.to = m /\ e.at = state'[r]
    <3>1. \A m \in Members(r) : Got(r, m, state'[r])
          BY <1>3, <2>1 DEF CooldownIsEarned
    <3> QED BY <1>1, <3>1 DEF Got
  <2>2. ASSUME NEW q \in Proc, NEW r \in Rule, snap'[q][r] # 0
        PROVE  \A m \in Members(r) :
                  \E e \in history' : e.rule = r /\ e.to = m /\ e.at = snap'[q][r]
    <3>1. \A m \in Members(r) : Got(r, m, snap'[q][r])
          BY <1>3, <2>2 DEF CooldownIsEarned
    <3> QED BY <1>1, <3>1 DEF Got
  <2> QED BY <2>1, <2>2 DEF CooldownIsEarned, Got
<1>4. ASSUME UNCHANGED <<state, snap>> PROVE CooldownIsEarned'
      BY <1>3, <1>4
<1>5. ASSUME NEW p \in Proc, Quit(p), state' = state \/ state' = snap[p]
      PROVE  CooldownIsEarned'
  <2>1. \A q \in Proc, r \in Rule : snap'[q][r] # 0 => snap'[q][r] = snap[q][r]
        BY <1>5 DEF Quit, TypeOK, NeverSent
  <2> QED BY <1>3, <1>5, <2>1
<1>6. ASSUME NEW p \in Proc, RuleDone(p) PROVE CooldownIsEarned'
  <2>1. CASE ~ reached[p].all
        BY <1>4, <1>6, <2>1 DEF RuleDone
  <2>2. CASE reached[p].all
    <3>1. \A m \in Members(Now(p)) : Got(Now(p), m, start[p])
      <4>1. Waiting(p) = {}
            BY <1>6 DEF RuleDone, Waiting
      <4> QED BY <1>6, <2>2, <4>1 DEF RuleDone, Earning
    <3>2. snap' = [snap EXCEPT ![p] = [snap[p] EXCEPT ![Now(p)] = start[p]]] /\ state' = state
          BY <1>6, <2>2 DEF RuleDone
    <3>3. \A q \in Proc, r \in Rule :
             snap'[q][r] = snap[q][r] \/ (r = Now(p) /\ snap'[q][r] = start[p])
          BY <3>2 DEF TypeOK, Sent
    <3> QED BY <1>3, <3>1, <3>2, <3>3
  <2> QED BY <2>1, <2>2
<1>7. ASSUME NEW p \in Proc, \/ \E m \in Modifiers, e \in Events : StartEmit(p, m, e)
                             \/ \E rs \in {Rule} \cup {{r} : r \in Rule} : StartReset(p, rs)
      PROVE  CooldownIsEarned'
  <2>1. state # Torn /\ state' = state
        BY <1>7 DEF StartEmit, StartReset
  <2>2. \A q \in Proc \ {p} : snap'[q] = snap[q]
        BY <1>7 DEF StartEmit, StartReset, TypeOK
  <2>3. \A r \in Rule : snap'[p][r] # 0 => snap'[p][r] = state[r]
    <3>1. CASE \E m \in Modifiers, e \in Events : StartEmit(p, m, e)
          BY <3>1 DEF StartEmit, TypeOK
    <3>2. ASSUME NEW rs \in {Rule} \cup {{r} : r \in Rule}, StartReset(p, rs)
          PROVE  \A r \in Rule : snap'[p][r] # 0 => snap'[p][r] = state[r]
      <4>1. snap'[p] = [r \in Rule |-> IF r \in rs THEN 0 ELSE state[r]]
            BY <3>2 DEF StartReset, TypeOK
      <4> QED BY <4>1
    <3> QED BY <1>7, <3>1, <3>2
  <2> QED BY <1>3, <2>1, <2>2, <2>3
<1>8. ASSUME NEW p \in Proc, OpenState(p) PROVE CooldownIsEarned'
      BY <1>3, <1>8 DEF OpenState
<1>9. ASSUME NEW p \in Proc, RulesDone(p) PROVE CooldownIsEarned'
      BY <1>4, <1>5, <1>9 DEF RulesDone
<1>10. ASSUME NEW p \in Proc, EndTool(p) \/ Unconfigured(p) \/ Refuse(p) \/ FillState(p) \/ Kill(p)
       PROVE  CooldownIsEarned'
       BY <1>5, <1>10 DEF EndTool, Unconfigured, Refuse, FillState, Kill
<1>11. ASSUME NEW p \in Proc,
              \/ \E r \in Requests : StartTool(p, r)
              \/ NextRule(p) \/ NextMember(p) \/ Attempt(p) \/ Approving(p) \/ Drive(p)
       PROVE  CooldownIsEarned'
       BY <1>4, <1>11 DEF StartTool, NextRule, NextMember, Attempt, Approving, Drive, emitVars
<1>12. ASSUME Tick \/ UNCHANGED vars PROVE CooldownIsEarned'
       BY <1>4, <1>12 DEF Tick, vars, emitVars
<1> QED BY <1>6, <1>7, <1>8, <1>9, <1>10, <1>11, <1>12 DEF Next

\* emit_event: no alert is swallowed by its cooldown.  A time state.json or the copy
\* of a run holds for a rule is that of an emit whose message every recipient of the
\* rule got, by the history, however runs overlap, overwrite each other or are killed.
THEOREM NoAlertIsSwallowed == Spec => []CooldownIsEarned
<1>1. Init => Earning /\ CooldownIsEarned
  <2>1. ASSUME Init PROVE Earning
        BY <2>1 DEF Init, Earning
  <2>2. ASSUME Init PROVE CooldownIsEarned
        BY <2>2 DEF Init, CooldownIsEarned, NeverSent
  <2> QED BY <2>1, <2>2
<1>2. Typed /\ Earning /\ CooldownIsEarned /\ [Next]_vars => (Earning /\ CooldownIsEarned)'
      BY EarningKept, EarnedKept DEF Typed
<1> QED BY <1>1, <1>2, TypedInit, TypedStep, PTL DEF Spec
===============================================================================
