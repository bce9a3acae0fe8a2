------------------------------ MODULE EmailQuery ------------------------------
(***************************************************************************)
(* agent-email's queries (src/lib/email_query.py).  A command reads the    *)
(* Envelope Index of Apple Mail, which Mail writes all the time, or a      *)
(* fixture that it loads once.  wait, code and link query again and again  *)
(* until a message matches or their time is up; get and export complete a  *)
(* message from an IMAP server.  The index has no bodies, only summaries.  *)
(* Messages are numbered by their dates; they may arrive in any order.     *)
(***************************************************************************)
EXTENDS Naturals, FiniteSets

CONSTANTS
    Proc,
    Message,        \* natural numbers
    Inbox,          \* the messages in the inbox; the others are in another mailbox
    Remote,         \* [Message -> what the server has: "text", "no text" or "nothing"]
    Fixture,        \* [Message -> [body, source, unread]], or None
    Slow,           \* bound: how long a query takes
    Asked,          \* bound: [Proc -> the commands it may be given]
    MaxRuns,        \* bound: commands
    MaxChanges,     \* bound: what Mail does
    MaxTime,        \* bound: the clock
    None

VARIABLES
    index,      \* [Message -> its row, or None]
    another,    \* the other mailbox exists
    now,
    proc,
    changed,    \* history: [Message -> when its row changed last]
    missed,     \* history: what a wait that failed should have found
    exported,   \* history: what was exported
    runs, changes

mailVars == <<index, another, now, proc, changed, missed, exported, runs, changes>>

Idle == [at |-> "idle"]
Waits == {"wait", "code", "link"}
Single == {"get", "export"}
Row(body, source, unread) == [body |-> body, source |-> source, unread |-> unread]
Indexed(summary, unread) == Row(IF summary THEN "summary" ELSE "none", FALSE, unread)

TypeOK ==
    /\ \A m \in Message : index[m] = None \/ index[m] \in {Indexed(s, u) : s, u \in BOOLEAN}
    /\ now \in 0..MaxTime /\ missed \subseteq Message

Init ==
    /\ index = [m \in Message |-> None] /\ another \in BOOLEAN /\ now = 0
    /\ proc = [p \in Proc |-> Idle] /\ changed = [m \in Message |-> 0]
    /\ missed = {} /\ exported = {} /\ runs = 0 /\ changes = 0

-----------------------------------------------------------------------------
At(p, at) == proc[p].at = at
Cmd(p) == proc[p].cmd
Becomes(p, r) == proc' = [proc EXCEPT ![p] = r]
Finish(p) == Becomes(p, Idle)
Mail == <<index, another, changed, changes>>
AtLeastOne(n) == IF n < 1 THEN 1 ELSE n

\* current_source: the fixture is loaded now, the index is read by every query.
Start(p, c) ==
    /\ At(p, "idle") /\ runs < MaxRuns /\ runs' = runs + 1
    /\ Becomes(p, [at |-> "boxes", cmd |-> c, boxes |-> {}, timer |-> 0, start |-> now,
                   found |-> {}, row |-> None, fetched |-> FALSE])
    /\ UNCHANGED <<Mail, now, missed, exported>>

\* MacMailSource.mailboxes: read once for the life of the process; status and
\* mailboxes ask for no more.
Boxes(p) ==
    /\ At(p, "boxes")
    /\ IF Cmd(p).op \in {"status", "mailboxes"} THEN Finish(p)
       ELSE Becomes(p, [proc[p] EXCEPT !.at = "query",
                !.boxes = {"inbox"} \cup IF Cmd(p).all /\ another THEN {"another"} ELSE {}])
    /\ UNCHANGED <<Mail, now, missed, exported, runs>>

\* The rows the command sees, scope_mailboxes, and those that match.
Rows(p) == IF Cmd(p).fixture THEN Fixture ELSE index
Box(m) == IF m \in Inbox THEN "inbox" ELSE "another"
InScope(p) == {m \in Message : Rows(p)[m] # None /\ Box(m) \in proc[p].boxes}
Matches(p, m) ==
    CASE Cmd(p).filter = "unread" -> Rows(p)[m].unread
      [] Cmd(p).filter = "contains" -> Rows(p)[m].body # "none"
      [] OTHER -> TRUE
Newest(n, S) == {m \in S : Cardinality({o \in S : o > m}) < AtLeastOne(n)}

\* query_messages: a fixture cuts off at the limit before it filters, the index
\* afterwards; only the fixture leaves out the messages --exclude-id names.
Found(p) ==
    IF Cmd(p).fixture
    THEN {m \in Newest(Cmd(p).limit, InScope(p)) : Matches(p, m) /\ m \notin Cmd(p).exclude}
    ELSE Newest(Cmd(p).limit, {m \in InScope(p) : Matches(p, m)})

\* search, latest, snapshot and count: one query, which is printed.
Query(p) ==
    /\ At(p, "query") /\ Cmd(p).op \notin Single
    /\ IF Cmd(p).op \in Waits
       THEN Becomes(p, [proc[p] EXCEPT !.at = "check", !.found = Found(p), !.timer = 0])
       ELSE Finish(p)
    /\ UNCHANGED <<Mail, now, missed, exported, runs>>

\* wait_for_message: an answer, the deadline, or a pause.
Deadline(p) == proc[p].start + AtLeastOne(Cmd(p).timeout)
Fail(p) ==
    /\ Finish(p)
    /\ missed' = missed \cup {m \in InScope(p) : /\ ~Cmd(p).fixture /\ Matches(p, m)
                                                 /\ changed[m] + Slow < Deadline(p)}
Check(p) ==
    /\ At(p, "check")
    /\ IF proc[p].found # {} THEN Becomes(p, [proc[p] EXCEPT !.at = "found"]) /\ UNCHANGED missed
       ELSE IF now >= Deadline(p) THEN Fail(p)
       ELSE Becomes(p, [proc[p] EXCEPT !.at = "sleep", !.timer = 0]) /\ UNCHANGED missed
    /\ UNCHANGED <<Mail, now, exported, runs>>
WakeUnlessLate(p) ==        \* a mutant
    /\ At(p, "sleep") /\ proc[p].timer = AtLeastOne(Cmd(p).interval)
    /\ IF now >= Deadline(p) THEN Fail(p)
       ELSE Becomes(p, [proc[p] EXCEPT !.at = "query"]) /\ UNCHANGED missed
    /\ UNCHANGED <<Mail, now, exported, runs>>
Wake(p) ==
    /\ At(p, "sleep") /\ proc[p].timer = AtLeastOne(Cmd(p).interval)
    /\ Becomes(p, [proc[p] EXCEPT !.at = "query"])
    /\ UNCHANGED <<Mail, now, missed, exported, runs>>
\* wait prints the newest; code and link look for theirs in its text, and fail
\* when there is none.
Printed(p) ==
    /\ At(p, "found")
    /\ Finish(p) /\ UNCHANGED <<Mail, now, missed, exported, runs>>

\* get_message, in the mailboxes of the scope.
Get(p) ==
    /\ At(p, "query") /\ Cmd(p).op \in Single
    /\ IF Cmd(p).id \notin InScope(p) THEN Finish(p)
       ELSE Becomes(p, [proc[p] EXCEPT !.at = "hydrate", !.row = Rows(p)[Cmd(p).id]])
    /\ UNCHANGED <<Mail, now, missed, exported, runs>>

\* hydrate_remote_message: what is whole stays as it is; otherwise the message is
\* fetched, unless it has no Message-ID, no provider is configured or it fails.
\* A message without a text part keeps the text it had.
Hydrate(p) ==
    /\ At(p, "hydrate")
    /\ \/ Becomes(p, [proc[p] EXCEPT !.at = "export"])
       \/ /\ ~proc[p].row.source /\ proc[p].row.body # "full" /\ Remote[Cmd(p).id] # "nothing"
          /\ Becomes(p, [proc[p] EXCEPT !.at = "export", !.fetched = TRUE, !.row.source = TRUE,
                  !.row.body = IF Remote[Cmd(p).id] = "text" THEN "full" ELSE @])
    /\ UNCHANGED <<Mail, now, missed, exported, runs>>

\* availability_from_message
State(r) ==
    IF r.source THEN "raw_source" ELSE IF r.body = "full" THEN "full_body"
    ELSE IF r.body = "summary" THEN "summary_only" ELSE "metadata_only"
\* message_text_for_export: what is exported as text, or None.
TextOfAny(r, allow) ==      \* a mutant
    IF r.body # "none" THEN r.body ELSE IF r.source THEN "source" ELSE None
TextOf(r, allow) ==
    IF r.body # "none"
    THEN IF State(r) = "summary_only" /\ ~allow THEN None ELSE r.body
    ELSE IF r.source THEN "source" ELSE None
Content(p) ==
    CASE Cmd(p).format = "json" -> proc[p].row.body
      [] Cmd(p).format = "eml" -> IF proc[p].row.source THEN "source" ELSE None
      [] OTHER -> TextOf(proc[p].row, Cmd(p).allow)

\* handle_get, handle_export: a file is written only when there is content.
Export(p) ==
    /\ At(p, "export")
    /\ exported' = IF Cmd(p).op = "get" \/ Content(p) = None THEN exported ELSE exported \cup
            {[format |-> Cmd(p).format, allow |-> Cmd(p).allow, content |-> Content(p),
              fetched |-> proc[p].fetched, summary |-> State(proc[p].row) = "summary_only"]}
    /\ Finish(p) /\ UNCHANGED <<Mail, now, missed, runs>>

Kill(p) ==
    /\ ~At(p, "idle")
    /\ Finish(p) /\ UNCHANGED <<Mail, now, missed, exported, runs>>

\* Mail: a message arrives, with its summary or before it; it is read or deleted;
\* the other mailbox is made when its first message comes.
MailChanges ==
    /\ changes < MaxChanges /\ changes' = changes + 1
    /\ \E m \in Message :
        /\ \/ index[m] = None /\ \E s \in BOOLEAN : index' = [index EXCEPT ![m] = Indexed(s, TRUE)]
           \/ index[m] # None /\ \E r \in {None, Indexed(TRUE, index[m].unread),
                                           Indexed(index[m].body = "summary", FALSE)} :
                r # index[m] /\ index' = [index EXCEPT ![m] = r]
        /\ another' = (another \/ m \notin Inbox)
        /\ changed' = [changed EXCEPT ![m] = now]
    /\ UNCHANGED <<now, proc, missed, exported, runs>>

\* Time passes in queries and in pauses.
Tick ==
    /\ now < MaxTime
    /\ \A p \in Proc : \/ At(p, "idle")
                       \/ At(p, "check") /\ proc[p].timer < Slow
                       \/ At(p, "sleep") /\ proc[p].timer < AtLeastOne(Cmd(p).interval)
    /\ now' = now + 1
    /\ proc' = [p \in Proc |-> IF At(p, "idle") THEN Idle ELSE [proc[p] EXCEPT !.timer = @ + 1]]
    /\ UNCHANGED <<Mail, missed, exported, runs>>

Next ==
    \/ Tick \/ MailChanges
    \/ \E p \in Proc :
        \/ \E c \in Asked[p] : Start(p, c)
        \/ Boxes(p) \/ Query(p) \/ Check(p) \/ Wake(p) \/ Printed(p) \/ Get(p) \/ Hydrate(p)
        \/ Export(p) \/ Kill(p)

-----------------------------------------------------------------------------
\* A wait that gives up has missed no message that could be found, as it is now,
\* a query's time before the deadline (email_query.py:1218): one in a mailbox
\* that was there when the command read them.
NothingIsMissed == missed = {}

\* wait, code and link end within their time, one pause and one query.
WaitsEndInTime ==
    \A p \in Proc : (~At(p, "idle") /\ Cmd(p).op \in Waits) =>
        now < Deadline(p) + AtLeastOne(Cmd(p).interval) + Slow

\* Without --allow-summary no summary is exported as the text of a message, other
\* than for one whose source was fetched and has no text (email_query.py:1090);
\* and an export that holds a summary says so, with the same exception.
SummariesAreNamed ==
    \A x \in exported : x.content = "summary" /\ ~x.fetched =>
        x.summary /\ (x.format = "json" \/ x.allow)

=============================================================================
