-------------------------- MODULE CoordInterrupts --------------------------
(***************************************************************************)
(* What one agent learns from the event journal of the coord board           *)
(* (CoordStore.interrupts of tools/agent-coord).                            *)
(*                                                                         *)
(* The journal is appended to by everybody, under the lock.  A read of the    *)
(* agent's interrupts takes no lock: it reads the agent's watermark, what the  *)
(* agent is interested in, the journal for what is new and relevant, cuts the  *)
(* list off at a limit, reads the journal again for its last number, writes     *)
(* that number as the new watermark if asked to (--mark-seen), and prints.     *)
(* Hooks and people run such reads at the same time and hooks kill them after    *)
(* two seconds.                                                             *)
(*                                                                         *)
(* An event is what it is about.  Events that are never news to this agent,    *)
(* its own and the kinds focus_set and claim, are Silent.  The other interrupts  *)
(* (contention, notice, dependency) are recomputed by each read and only take   *)
(* room on the list.                                                        *)
(***************************************************************************)
EXTENDS Naturals, Sequences, FiniteSets

CONSTANTS
    Topic,      \* paths and keys
    Silent,
    Reader,     \* the processes that read this agent's interrupts
    Limit,      \* --limit
    MaxSeq,     \* bound: events appended per behaviour
    MaxKill     \* bound: reads killed per behaviour

VARIABLES
    log,        \* events.jsonl, in the order of seq
    interest,   \* the paths and keys of the agent's focus, claims and needs
    watermark,  \* last_interrupt_seq of the agent's record, 0 if it has none
    read,       \* what each read is doing
    kills,
    printed,    \* history: events shown to the agent
    consumed,   \* history: those shown by reads that had marked them
    wanted,     \* history: events that were of interest, and known to be to the reads
                \* at work, ever since appended
    lost,       \* history: events a marking read had no room for or passed over,
                \* and those on the list of a read killed after marking
    rewound     \* history: has the watermark ever gone back?

history == <<printed, consumed, wanted, lost, rewound>>
vars    == <<log, interest, watermark, read, kills, history>>

---------------------------------------------------------------------------
Seq0 == 0..MaxSeq
Last == Len(log)

\* last: the watermark it started from.  before: what had been consumed when it
\* started.  interest: what it knows of it.  length: of the journal it listed.  shown, left: the news on its list,
\* and those there was no room for.
ReadIdle  == [pc |-> "idle"]
ReadState == {ReadIdle}
    \union [pc : {"begun"}, last : Seq0, before : SUBSET Seq0]
    \union [pc : {"looked"}, last : Seq0, before : SUBSET Seq0, interest : SUBSET Topic]
    \union [pc : {"listed"}, last : Seq0, length : Seq0,
            shown : SUBSET Seq0, left : SUBSET Seq0]
    \union [pc : {"measured"}, last : Seq0, length : Seq0, max : Seq0,
            shown : SUBSET Seq0, left : SUBSET Seq0]
    \union [pc : {"marked"}, shown : SUBSET Seq0]

TypeOK ==
    /\ log \in Seq(Topic \union {Silent}) /\ Last <= MaxSeq
    /\ interest \subseteq Topic
    /\ watermark \in Seq0
    /\ read \in [Reader -> ReadState]
    /\ kills \in 0..MaxKill
    /\ \A events \in {printed, consumed, wanted, lost} :
           events \subseteq 1..Last
    /\ rewound \in BOOLEAN

Become(r, state) == read' = [read EXCEPT ![r] = state]
At(r, pc) == read[r].pc = pc

---------------------------------------------------------------------------
\* The agent is interested in the topic and reads at work know.
Known(topic) ==
    /\ topic \in interest
    /\ \A r \in Reader : At(r, "looked") => topic \in read[r].interest

\* _append_event: the next number, under the lock.
AppendEvent(topic) ==
    /\ Last < MaxSeq
    /\ log' = Append(log, topic)
    /\ wanted' = wanted \union (IF Known(topic) THEN {Last + 1} ELSE {})
    /\ UNCHANGED <<interest, watermark, read, kills, printed, consumed, lost, rewound>>

\* focus set, claim, release, need add, need clear by the agent itself; the events
\* these append are Silent and left to AppendEvent.
ChangeInterest ==
    /\ \E topic \in Topic :
           interest' \in {interest \union {topic}, interest \ {topic}}
    /\ wanted' = {s \in wanted : log[s] \in interest'}
    /\ UNCHANGED <<log, watermark, read, kills, printed, consumed, lost, rewound>>

\* The agent's record goes, by its own bye or another's prune, and the watermark
\* with it.
Forget ==
    /\ watermark' = 0
    /\ rewound' = (rewound \/ watermark > 0)
    /\ UNCHANGED <<log, interest, read, kills, printed, consumed, wanted, lost>>

---------------------------------------------------------------------------
(* One read                                                                 *)

\* _last_interrupt_seq
Begin(r) ==
    /\ At(r, "idle")
    /\ Become(r, [pc |-> "begun", last |-> watermark, before |-> consumed])
    /\ UNCHANGED <<log, interest, watermark, kills, history>>

\* focus_for, _current_paths, _current_need_keys
Look(r) ==
    /\ At(r, "begun")
    /\ Become(r, [pc |-> "looked", last |-> read[r].last, before |-> read[r].before,
                  interest |-> interest])
    /\ UNCHANGED <<log, interest, watermark, kills, history>>

\* Mutant: what the watermark stands at is listed again.
NewsFrom(r) == {s \in 1..Last : s >= read[r].last /\ log[s] \in read[r].interest}

\* Mutant: the first new event is not listed.
NewsBeyond(r) == {s \in 1..Last : s > read[r].last + 1 /\ log[s] \in read[r].interest}

\* "Relevant novelty since last seen"
News(r) == {s \in 1..Last : s > read[r].last /\ log[s] \in read[r].interest}

\* The other interrupts come first on the list; the order of the news is that of
\* their texts.
List(r) ==
    /\ At(r, "looked")
    /\ \E others \in 0..Limit, shown \in SUBSET News(r) :
        LET news == News(r)
            room == Limit - others
        IN /\ Cardinality(shown) = IF Cardinality(news) <= room THEN Cardinality(news) ELSE room
           /\ Become(r, [pc |-> "listed", last |-> read[r].last, length |-> Last,
                         shown |-> shown, left |-> news \ shown])
    /\ UNCHANGED <<log, interest, watermark, kills, history>>

\* The journal is read again for its last number.
Measure(r) ==
    /\ At(r, "listed")
    /\ Become(r, [pc |-> "measured", last |-> read[r].last, length |-> read[r].length,
                  max |-> Last, shown |-> read[r].shown, left |-> read[r].left])
    /\ UNCHANGED <<log, interest, watermark, kills, history>>

\* Mutant: the number after the last one is marked as seen.
MarkSeenNext(r) ==
    /\ At(r, "measured")
    /\ read[r].max > read[r].last
    /\ watermark' = read[r].max + 1
    /\ rewound' = (rewound \/ watermark' < watermark)
    /\ lost' = lost \union read[r].left \union (read[r].length + 1 .. read[r].max)
    /\ Become(r, [pc |-> "marked", shown |-> read[r].shown])
    /\ UNCHANGED <<log, interest, kills, printed, consumed, wanted>>

\* _mark_interrupt_seq: whatever the record says by now is overwritten.
MarkSeen(r) ==
    /\ At(r, "measured")
    /\ read[r].max > read[r].last
    /\ watermark' = read[r].max
    /\ rewound' = (rewound \/ watermark' < watermark)
    /\ lost' = lost \union read[r].left \union (read[r].length + 1 .. read[r].max)
    /\ Become(r, [pc |-> "marked", shown |-> read[r].shown])
    /\ UNCHANGED <<log, interest, kills, printed, consumed, wanted>>

\* A read without --mark-seen, or with nothing to mark, prints what it measured.
Deliver(r) ==
    /\ read[r].pc \in {"measured", "marked"}
    /\ printed' = printed \union read[r].shown
    /\ consumed' = IF At(r, "marked") THEN consumed \union read[r].shown ELSE consumed
    /\ Become(r, ReadIdle)
    /\ UNCHANGED <<log, interest, watermark, kills, wanted, lost, rewound>>

Kill(r) ==
    /\ ~At(r, "idle")
    /\ kills < MaxKill /\ kills' = kills + 1
    /\ lost' = IF At(r, "marked") THEN lost \union read[r].shown ELSE lost
    /\ Become(r, ReadIdle)
    /\ UNCHANGED <<log, interest, watermark, printed, consumed, wanted, rewound>>

---------------------------------------------------------------------------
Init ==
    /\ log = <<>> /\ interest = Topic /\ watermark = 0
    /\ read = [r \in Reader |-> ReadIdle]
    /\ kills = 0
    /\ printed = {} /\ consumed = {} /\ wanted = {}
    /\ lost = {} /\ rewound = FALSE

Next ==
    \/ \E topic \in Topic \union {Silent} : AppendEvent(topic)
    \/ ChangeInterest
    \/ Forget
    \/ \E r \in Reader :
        Begin(r) \/ Look(r) \/ List(r) \/ Measure(r) \/ MarkSeen(r) \/ Deliver(r) \/ Kill(r)

Spec == Init /\ [][Next]_vars

---------------------------------------------------------------------------
(* Properties                                                               *)

\* News that reads have marked and not yet printed.
InHand == UNION {read[r].shown : r \in {q \in Reader : At(q, "marked")}}

\* News behind the watermark that the agent wanted all the time was shown to it,
\* or there was no room for it, it came while a read was at work, or the read that
\* had it was killed: reads that overlap, watermarks that go back and forgotten
\* records swallow nothing (interrupts, _mark_interrupt_seq).
SwallowedHasCause ==
    \A s \in wanted : s <= watermark =>
        s \in printed \union InHand \union lost

\* What a finished marking read has shown is not news to a read that starts
\* later, as long as the watermark never went back (interrupts).
NewsStaysOld == \A r \in Reader :
    List(r) /\ ~rewound => read'[r].shown \intersect read[r].before = {}
NewsIsNew == [][NewsStaysOld]_vars

---------------------------------------------------------------------------
(* What the comments say, and the program does not do                       *)

\* "`interrupts --mark-seen` is the only read that consumes what it shows": it
\* consumes no news that it does not show.
ConsumesWhatItShows ==
    [][\A r \in Reader : MarkSeen(r) =>
        \A s \in wanted : read[r].last < s /\ s <= watermark' => s \in read[r].shown \union printed]_vars
===========================================================================
