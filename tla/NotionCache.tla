----------------------------- MODULE NotionCache -----------------------------
(***************************************************************************)
(* The local cache of agent-notion (src/tools/notion_lib/engine.py): sync  *)
(* searches the workspace, opens one transaction on index.db, walks the    *)
(* blocks of every page it found while it holds the write lock, rebuilds   *)
(* the index for search and commits; embed refresh reads texts from the    *)
(* index, has them embedded and stores the vectors.  The workspace changes *)
(* all the time.  A change is known by its time, and so is a text.         *)
(***************************************************************************)
EXTENDS Naturals, FiniteSets

CONSTANTS
    Proc, Page, Block,
    PageOf,     \* [Block -> the page it is on]
    Limit,      \* --limit: how many pages or texts at most
    None,
    MaxTime     \* bound: changes of the workspace

VARIABLES
    log,        \* the workspace: what became of a block, and when
    cache,      \* index.db as committed
    writer,     \* who holds its write lock
    proc        \* the commands

notionVars == <<log, cache, writer, proc>>

Now == Cardinality({c.at : c \in log})
Before(b, t) == {c \in log : c.block = b /\ c.at <= t}
Latest(cs) == CHOOSE c \in cs : \A d \in cs : d.at <= c.at
Alive(b, t) == Before(b, t) # {} /\ Latest(Before(b, t)).alive
TextAt(b, t) == Latest(Before(b, t)).at
\* last_edited_time: of the last change on the page.
Edited(g, t) == LET cs == {c \in log : PageOf[c.block] = g /\ c.at <= t} IN
                IF cs = {} THEN 0 ELSE Latest(cs).at

Idle == [at |-> "idle"]
Tables == [pages : [Page -> 0..MaxTime], blocks : [Block -> 0..MaxTime],
           fts : SUBSET (Block \X (1..MaxTime)), vectors : [Block -> 0..MaxTime]]

TypeOK ==
    /\ cache \in Tables /\ writer \in Proc \cup {None}
    /\ \A c \in log : c.block \in Block /\ c.at \in 1..MaxTime /\ c.alive \in BOOLEAN
    /\ \A p \in Proc : proc[p].at \in {"idle", "found", "writing", "texts", "embedded"}

Init ==
    /\ log = {}
    /\ cache = [pages |-> [g \in Page |-> 0], blocks |-> [b \in Block |-> 0],
                fts |-> {}, vectors |-> [b \in Block |-> 0]]
    /\ writer = None /\ proc = [p \in Proc |-> Idle]

-----------------------------------------------------------------------------
\* Somebody writes a block, or deletes it.
ChangeBlock(b) ==
    /\ Now < MaxTime
    /\ \E alive \in BOOLEAN :
        /\ alive \/ Alive(b, Now)
        /\ log' = log \cup {[block |-> b, at |-> Now + 1, alive |-> alive]}
    /\ UNCHANGED <<cache, writer, proc>>

Becomes(p, r) == proc' = [proc EXCEPT ![p] = r]
Finish(p) == Becomes(p, Idle)
At(p, at) == proc[p].at = at

\* cmd_sync: users, data sources, and the pages the search finds.
Search(p) ==
    /\ At(p, "idle")
    /\ \E found \in SUBSET Page :
        /\ Cardinality(found) <= Limit
        /\ Becomes(p, [at |-> "found", todo |-> found, view |-> None,
                       stamp |-> [g \in found |-> Edited(g, Now)]])
    /\ UNCHANGED <<log, cache, writer>>

\* The first INSERT takes the write lock and sees what is committed; after
\* busy_timeout it gives up.
OpenTransactionUnlocked(p) ==   \* a mutant
    /\ At(p, "found")
    /\ writer' = p /\ Becomes(p, [proc[p] EXCEPT !.at = "writing", !.view = cache])
    /\ UNCHANGED <<log, cache>>
OpenTransaction(p) ==
    /\ At(p, "found") /\ writer = None
    /\ writer' = p /\ Becomes(p, [proc[p] EXCEPT !.at = "writing", !.view = cache])
    /\ UNCHANGED <<log, cache>>
TransactionBusy(p) ==
    /\ At(p, "found") /\ writer # None
    /\ Finish(p) /\ UNCHANGED <<log, cache, writer>>

\* read_blocks_recursive: the blocks there are now.
ReadBlocks(g) == {b \in Block : PageOf[b] = g /\ Alive(b, Now)}

\* The row of one page as it was found, and its blocks as they are read:
\* INSERT OR REPLACE, so a block that is gone keeps its row.
SyncPage(p) ==
    /\ At(p, "writing")
    /\ \E g \in proc[p].todo :
        Becomes(p, [proc[p] EXCEPT
            !.todo = @ \ {g},
            !.view.pages[g] = proc[p].stamp[g],
            !.view.blocks = [b \in Block |-> IF b \in ReadBlocks(g) THEN TextAt(b, Now) ELSE @[b]]])
    /\ UNCHANGED <<log, cache, writer>>

\* rebuild_fts: from the tables as the transaction sees them.
Rebuilt(view) == [view EXCEPT !.fts = {<<b, view.blocks[b]>> : b \in {c \in Block : view.blocks[c] > 0}}]
CommitSync(p) ==
    /\ At(p, "writing") /\ proc[p].todo = {}
    /\ cache' = Rebuilt(proc[p].view) /\ writer' = None /\ Finish(p)
    /\ UNCHANGED log

\* A request of the Notion or the embedding API fails, or the process is
\* killed: the transaction is rolled back.
Abort(p) ==
    /\ ~At(p, "idle")
    /\ Finish(p) /\ writer' = IF writer = p THEN None ELSE writer
    /\ UNCHANGED <<log, cache>>

\* embedding_candidates: some texts of the index.
Candidates(p) ==
    /\ At(p, "idle") /\ cache.fts # {}
    /\ \E rows \in SUBSET cache.fts :
        /\ rows # {} /\ Cardinality(rows) <= Limit
        /\ Becomes(p, [at |-> "texts", rows |-> rows])
    /\ UNCHANGED <<log, cache, writer>>

\* embed_texts: a few rate limits are waited for; a short answer is cut by zip.
Embed(p) ==
    /\ At(p, "texts")
    /\ \E rows \in SUBSET proc[p].rows : Becomes(p, [at |-> "embedded", rows |-> rows])
    /\ UNCHANGED <<log, cache, writer>>

\* refresh_embeddings: under the hash of the text that was sent.
StoreVectors(p) ==
    /\ At(p, "embedded") /\ writer = None
    /\ cache' = [cache EXCEPT !.vectors = [b \in Block |->
            IF \E r \in proc[p].rows : r[1] = b
            THEN (CHOOSE r \in proc[p].rows : r[1] = b)[2] ELSE @[b]]]
    /\ Finish(p) /\ UNCHANGED <<log, writer>>

Next ==
    \/ \E b \in Block : ChangeBlock(b)
    \/ \E p \in Proc :
        \/ Search(p) \/ OpenTransaction(p) \/ TransactionBusy(p) \/ SyncPage(p)
        \/ CommitSync(p) \/ Abort(p) \/ Candidates(p) \/ Embed(p) \/ StoreVectors(p)

-----------------------------------------------------------------------------
\* The text of a block never goes back in the cache, however many syncs and
\* refreshes overlap, wait or fail: blocks are read under the write lock, after
\* whatever is committed was read (engine.py:878).
BlocksStepForward == \A b \in Block : cache'.blocks[b] >= cache.blocks[b]
BlocksMoveForward == [][BlocksStepForward]_notionVars

\* A page in the cache is never ahead of its blocks: every block that was on
\* the page at the time its row shows, and was not deleted since, is cached
\* with the text it had then or a later one (engine.py:892).
BlocksReachThePage ==
    \A b \in Block :
        LET t == cache.pages[PageOf[b]] IN
        (/\ t > 0 /\ Alive(b, t)
         /\ \A c \in log : c.block = b /\ c.at > t => c.alive)
        => cache.blocks[b] >= TextAt(b, t)
=============================================================================
