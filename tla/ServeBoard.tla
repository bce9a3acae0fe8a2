------------------------------ MODULE ServeBoard ------------------------------
(***************************************************************************)
(* The daemon of "agent-do manna serve" (src/tools/agent-manna/serve/      *)
(* serve.py, board.py) on one board: the cache its threads share, one per  *)
(* request: the stream of events behind a page, and the requests for the   *)
(* state that pages, summaries, questions and handoffs make.               *)
(* The board and git files have a version, which moves under the daemon; a *)
(* reconcile runs in a thread of its own and finds the drift of the        *)
(* version it read.  Presence, federation and digests are further parts of *)
(* the signature, each one more reason to push, and are left out.          *)
(***************************************************************************)
EXTENDS Integers, FiniteSets

CONSTANTS
    Stream,     \* the thread of GET api/events
    Reader,     \* the threads of the other requests
    None,
    MaxVersion, \* bound: the last version of the board
    MaxJobs,    \* bound: reconciles running at a time
    MaxRequests, \* bound: requests of the readers
    MaxFaults   \* bound: failed derives and reconciles, lost pushes, restarts

Thread == {Stream} \cup Reader

ASSUME BoardAssumption ==
    /\ MaxVersion \in Nat \ {0} /\ MaxJobs \in Nat
    /\ MaxRequests \in Nat /\ MaxFaults \in Nat
    /\ None \notin Thread
    /\ Stream \notin Reader

VARIABLES
    files,      \* the version of the board and git files
    cached,     \* the cached state and the signature it is kept under
    drift,      \* the drift the last reconcile found: of which version, 0 none
    done,       \* drift_done: the base signature of the last finished one
    stamp,      \* drift_stamps: how many finished
    jobs,       \* the reconciles that run: number, base signature, version read
    job,        \* drift_jobs: the number of the last one started
    building,   \* who holds the build lock
    pc,         \* where each thread is
    sig, view,  \* the signature it computed, the state it built or found
    base,       \* the base signature it calls schedule_drift with
    outer,      \* the signature the stream computed before it asked for a state
    previous,   \* the signature of the stream's last push
    shown,      \* the stream's last push that arrived: its files and drift
    acting,     \* a click on the page runs a manna command
    requests, faults,
    unread      \* history: the base signatures whose reconcile failed

cache == <<cached, building>>
drifts == <<drift, done, stamp, jobs, job, unread>>
thread == <<pc, sig, view, base>>
client == <<outer, previous, shown>>
serveVars == <<files, cache, drifts, thread, client, acting, requests, faults>>

Version == 0..MaxVersion
Signed == [files : Version, drift : Nat]
View == [files : Version, drift : Version, stamp : Nat]
Unseen == [files |-> 0, drift |-> 0, stamp |-> 0]
Glance(v) == [files |-> v.files, drift |-> v.drift]
Job == [n : 1..MaxJobs, base : Version, read : Version, failed : BOOLEAN]

ServeTypeOK ==
    /\ files \in Version
    /\ cached = None \/ cached \in [sig : Signed, view : View]
    /\ drift \in Version /\ done \in Version /\ stamp \in Nat
    /\ jobs \subseteq Job /\ job \in 0..MaxJobs /\ unread \subseteq Version
    /\ building \in Thread \cup {None}
    /\ pc \in [Thread -> {"poll", "state", "lock", "derive", "overlay",
                          "schedule", "send", "idle"}]
    /\ sig \in [Thread -> Signed \cup {None}]
    /\ view \in [Thread -> View] /\ base \in [Thread -> Version]
    /\ outer = None \/ outer \in Signed
    /\ previous = None \/ previous \in Signed
    /\ shown \in [files : Version, drift : Version]
    /\ acting \in BOOLEAN
    /\ requests \in 0..MaxRequests /\ faults \in 0..MaxFaults

-----------------------------------------------------------------------------
FirstPc == [t \in Thread |-> IF t = Stream THEN "poll" ELSE "idle"]

ServeInit ==
    /\ files = 1
    /\ cached = None /\ building = None
    /\ drift = 0 /\ done = 0 /\ stamp = 0 /\ jobs = {} /\ job = 0 /\ unread = {}
    /\ pc = FirstPc
    /\ sig = [t \in Thread |-> None]
    /\ view = [t \in Thread |-> Unseen]
    /\ base = [t \in Thread |-> 0]
    /\ outer = None /\ previous = None
    /\ shown = Glance(Unseen)
    /\ acting = FALSE /\ requests = 0 /\ faults = 0

Goto(t, l) == pc' = [pc EXCEPT ![t] = l]

\* The state is ready, and is sent; what led to it is of no more use.
Send(t, v) ==
    /\ Goto(t, "send")
    /\ view' = [view EXCEPT ![t] = v]
    /\ sig' = [sig EXCEPT ![t] = None]
    /\ base' = [base EXCEPT ![t] = 0]

\* A request is over: the stream sleeps until its next poll.
Finished(t) == IF t = Stream THEN "poll" ELSE "idle"
End(t) ==
    /\ Goto(t, Finished(t))
    /\ sig' = [sig EXCEPT ![t] = None]
    /\ view' = [view EXCEPT ![t] = Unseen]
    /\ base' = [base EXCEPT ![t] = 0]

-----------------------------------------------------------------------------
(* The board, and a click on the page.                                     *)

Change(click) ==
    /\ files < MaxVersion
    /\ click => ~acting
    /\ files' = files + 1
    /\ acting' = (acting \/ click)
    /\ UNCHANGED <<cache, drifts, thread, client, faults, requests>>

\* perform: a click has run its command, and the cached state is dropped.
Acted ==
    /\ acting /\ acting' = FALSE
    /\ cached' = None
    /\ UNCHANGED <<files, building, drifts, thread, client, faults, requests>>

-----------------------------------------------------------------------------
(* BoardCache.signature and BoardCache.state.                              *)

Signature == [files |-> files, drift |-> stamp]

\* The poll of stream: nothing is pushed while the signature stays.
Sign ==
    /\ pc[Stream] = "poll"
    /\ IF Signature = previous
       THEN End(Stream) /\ UNCHANGED outer
       ELSE /\ Goto(Stream, "state")
            /\ outer' = Signature
            /\ UNCHANGED <<sig, view, base>>
    /\ UNCHANGED <<files, cache, drifts, previous, shown, acting, faults, requests>>

\* GET api/state, summary, ask, handoff.
Request(t) ==
    /\ t \in Reader /\ pc[t] = "idle"
    /\ requests < MaxRequests /\ requests' = requests + 1
    /\ Goto(t, "state")
    /\ UNCHANGED <<files, cache, drifts, sig, view, base, client, acting, faults>>

Hit(s) == cached # None /\ cached.sig = s

\* The signature of this request, and the state that is cached under it.
Look(t) ==
    /\ pc[t] = "state"
    /\ IF Hit(Signature)
       THEN Send(t, cached.view)
       ELSE /\ sig' = [sig EXCEPT ![t] = Signature]
            /\ Goto(t, "lock")
            /\ UNCHANGED <<view, base>>
    /\ UNCHANGED <<files, cache, drifts, client, acting, faults, requests>>

\* The build lock, and the same question again.
Lock(t) ==
    /\ pc[t] = "lock" /\ building = None
    /\ IF Hit(sig[t])
       THEN Send(t, cached.view) /\ UNCHANGED building
       ELSE /\ building' = t
            /\ Goto(t, "derive")
            /\ UNCHANGED <<sig, view, base>>
    /\ UNCHANGED <<files, cached, drifts, client, acting, faults, requests>>

\* derive: the core reads the files.
Derive(t) ==
    /\ pc[t] = "derive"
    /\ view' = [view EXCEPT ![t] = [files |-> files, drift |-> 0,
                                    stamp |-> 0]]
    /\ Goto(t, "overlay")
    /\ UNCHANGED <<files, cache, drifts, sig, base, client, acting, faults, requests>>

\* overlay_drift, and the base signature schedule_drift is called with.
Overlay(t) ==
    /\ pc[t] = "overlay"
    /\ view' = [view EXCEPT ![t].drift = drift, ![t].stamp = stamp]
    /\ base' = [base EXCEPT ![t] = files]
    /\ Goto(t, "schedule")
    /\ UNCHANGED <<files, cache, drifts, sig, client, acting, faults, requests>>

\* The entry of the cache: the signature is the one taken before the state was
\* derived.  Mutant: it is taken again when the state is stored.
EntryLate(t) == [sig |-> Signature, view |-> view[t]]
Entry(t) == [sig |-> sig[t], view |-> view[t]]

\* schedule_drift: one reconcile per base signature; then the state is stored.
Running(b) == \E j \in jobs : j.n = job /\ j.base = b
Schedule(t) ==
    /\ pc[t] = "schedule"
    /\ IF Running(base[t]) \/ done = base[t]
       THEN UNCHANGED <<jobs, job>>
       ELSE \E n \in 1..MaxJobs :
              /\ n \notin {j.n : j \in jobs}
              /\ \A k \in 1..(n - 1) : k \in {j.n : j \in jobs}
              /\ jobs' = jobs \cup {[n |-> n, base |-> base[t], read |-> 0,
                                    failed |-> FALSE]}
              /\ job' = n
    /\ cached' = Entry(t)
    /\ building' = None
    /\ Send(t, view[t])
    /\ UNCHANGED <<files, drift, done, stamp, unread, client, acting,
                   faults, requests>>

\* derive raises: the stream tries again, the others answer with the error.
DeriveFails(t) ==
    /\ pc[t] = "derive" /\ faults < MaxFaults
    /\ faults' = faults + 1
    /\ building' = None
    /\ End(t)
    /\ UNCHANGED <<files, cached, drifts, client, acting, requests>>

-----------------------------------------------------------------------------
(* The thread of a reconcile.                                              *)

Reconcile(j) ==
    /\ j \in jobs /\ j.read = 0
    /\ \/ /\ jobs' = (jobs \ {j}) \cup {[j EXCEPT !.read = files]}
          /\ UNCHANGED faults
       \/ /\ faults < MaxFaults /\ faults' = faults + 1
          /\ jobs' = (jobs \ {j}) \cup {[j EXCEPT !.read = files, !.failed = TRUE]}
    /\ UNCHANGED <<files, cache, drift, done, stamp, job, unread, thread, client,
                   acting, requests>>

\* The drift a reconcile found.
Found(j) == IF j.failed THEN drift ELSE j.read

\* The stamp after it; a mutant forgets it, and the signature stays.
StampKept == stamp
StampNext == stamp + 1

Land(j) ==
    /\ j \in jobs /\ j.read # 0
    /\ jobs' = jobs \ {j}
    /\ drift' = Found(j)
    /\ done' = j.base
    /\ stamp' = StampNext
    /\ unread' = IF j.failed THEN unread \cup {j.base} ELSE unread
    /\ UNCHANGED <<files, cache, job, thread, client, acting, faults, requests>>

-----------------------------------------------------------------------------
(* The answers, and the daemon's end.                                      *)

\* The signature of what is pushed, for the next poll to compare with.  Mutant:
\* the signature of the board as it is by then.
PreviousLate == Signature
Previous == outer

Push ==
    /\ pc[Stream] = "send"
    /\ shown' = Glance(view[Stream])
    /\ previous' = Previous /\ outer' = None
    /\ End(Stream)
    /\ UNCHANGED <<files, cache, drifts, acting, faults, requests>>

\* The connection is gone, and the page opens another one.
Lose ==
    /\ pc[Stream] = "send" /\ faults < MaxFaults
    /\ faults' = faults + 1
    /\ previous' = None /\ outer' = None
    /\ End(Stream)
    /\ UNCHANGED <<files, cache, drifts, shown, acting, requests>>

Answer(t) ==
    /\ t \in Reader /\ pc[t] = "send"
    /\ End(t)
    /\ UNCHANGED <<files, cache, drifts, client, acting, faults, requests>>

\* watch_source: the daemon replaces itself, and its memory is gone.
Restart ==
    /\ faults < MaxFaults /\ faults' = faults + 1
    /\ cached' = None /\ building' = None
    /\ drift' = 0 /\ done' = 0 /\ stamp' = 0 /\ jobs' = {} /\ job' = 0
    /\ unread' = {}
    /\ pc' = FirstPc
    /\ sig' = [t \in Thread |-> None]
    /\ view' = [t \in Thread |-> Unseen]
    /\ base' = [t \in Thread |-> 0]
    /\ outer' = None /\ previous' = None
    /\ acting' = FALSE
    /\ UNCHANGED <<files, shown, requests>>

Step(t) ==
    \/ Look(t) \/ Lock(t) \/ Derive(t)
    \/ Overlay(t) \/ Schedule(t) \/ Answer(t)

Serve == (\E t \in Thread : Step(t)) \/ Sign \/ Push

ServeNext ==
    \/ Serve \/ Acted
    \/ \E click \in BOOLEAN : Change(click)
    \/ \E t \in Thread : Request(t) \/ DeriveFails(t)
    \/ \E j \in jobs : Reconcile(j) \/ Land(j)
    \/ Lose \/ Restart

\* The threads of the daemon run, its subprocesses answer or time out, and
\* the stream polls as long as it lives; nobody has to ask for anything.
Fairness ==
    /\ \A t \in Thread : WF_serveVars(Step(t))
    /\ WF_serveVars(Sign) /\ WF_serveVars(Push)
    /\ WF_serveVars(Acted)
    /\ WF_serveVars(\E j \in jobs : Reconcile(j)) /\ WF_serveVars(\E j \in jobs : Land(j))

ServeSpec == ServeInit /\ [][ServeNext]_serveVars /\ Fairness

-----------------------------------------------------------------------------
(* What the signature and the drift clock promise.                         *)

\* BoardCache.state: a state is never kept under a signature newer than what it
\* was read from: the page would wait for a change that is already there.
CacheIsNotOlder == cached # None =>
    /\ cached.view.files >= cached.sig.files
    /\ cached.view.stamp >= cached.sig.drift

\* stream: what its pushes show of the board is what BoardPage allows, in order
\* and up to the last version.
Shown == INSTANCE BoardPage WITH version <- files, page <- shown.files
StreamShowsTheBoard == Shown!Spec

\* schedule_drift: the drift on the page comes to be that of the board as it is,
\* reconciles that overlap and land out of order included, unless the reconcile
\* of that very board failed.
DriftCatchesUp == <>[](shown.drift = files \/ files \in unread)

=============================================================================
