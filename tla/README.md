# Formal models of agent-do

agent-do is a command-line dispatcher for AI coding agents with about ninety
tools behind it. Most of the tools are stateless wrappers around external
programs. A few keep state that several agents and several operating-system
processes change at once, and these carry the system's own logic:

* **Manna** (`tools/agent-manna/src`, Rust): a work board shared by many agent
  sessions. Rows (issues) are claimed, finished, blocked, edited and deleted;
  on a strict board every item is paired with a handoff document.
* **Coord** (`tools/agent-coord`, Python): a presence board of the agents in a
  repository, their claims on paths, and a journal of events each agent reads.
* **Serve** (`tools/agent-manna/serve`, Python): the daemon that shows boards in
  a browser, with a cache, a background reconcile and a stream of events.
* **Obsidian** (`tools/obsidian_lib/engine.py`, Python): commands that write the
  notes of a vault under a lock file, and an SQLite index of the vault.
* **Notify** and the **live lease** (`lib/notify.py`, `lib/live`, Python):
  alerts with cooldowns, and approvals to drive the desktop.
* **Profiles** (`lib/psql_keychain_store.py`, `tools/agent-psql`): database
  connections in a file, their passwords in the Keychain.
* **Session hooks** (`hooks`, `lib/telemetry.py`, `lib/touch_ledger.py`): what
  the hooks of an agent session remember from one call to the next.
* **Tools with a session or a cache**: `agent-db`, `agent-excel`, `agent-zpc`,
  `agent-notion`, `agent-macos`, `agent-screen`, `agent-vision`,
  `agent-appleevents`, `agent-email`. Every command is a process that loads a
  file, looks at something that changes meanwhile, and rewrites the file.

The models are translated from the code. Paths below are relative to `src/`.

## Inventory

### Components that keep state

| component | state it keeps | operations | interacts with |
|---|---|---|---|
| issue model, `issue.rs` | one row: type, status, blockers, claim, claim proof | `claim`, `release`, `complete`, `close_dream`, `release_dead_claim`, `add_blocker`, `remove_blocker`, `update_blocked_status`, `validate` | called by the store under the board lock |
| board store, `store.rs` | `issues.jsonl` behind `board.lock` | locked mutation, compare-and-swap replace and delete for journaled transactions | every manna command is a process of its own |
| commands, `main.rs` | what one process read before it took the lock | create, claim, done, abandon, block, unblock, update, delete, handoff seal, order, sync | store, pair transactions |
| reconcile, `reconcile.rs`, `main.rs` | the inspected board, its findings, coord's statuses | `reconcile --fix`: release dead claims, close landed work, drop resolved blockers | git log, `coord peers`, store; run by the SessionEnd hook under a 4 s kill |
| pair transactions, `workflow.rs` | handoff document, its sealed digest in the row, a journal file per row | create, attach, detach, delete, seal, rebind; recovery at the start of every command | store (`recover_*_with`), file system |
| order and sync, `workflow.rs` | priority list, file names, index | order, sync (batch rename with a journal) | pair transactions |
| migration, `workflow.rs` | all rows and documents of a legacy board | migrate, rollback | store |
| federation, `federation.rs` | board identity, relation file | init, fork, relate, unrelate | local lint only |
| coord, `agent-coord` | `agents`, `claims`, `needs`, `drops` (JSON files), event log, `last_seen` watermarks | register, touch, stop, bye, claim, release, need, drop, interrupts | one lock per run of a command; git hooks, manna |
| serve, `serve.py`, `board.py` | the cached state with its signature, the drift and its stamp, running reconciles | stream, state, perform, reconcile in the background, restart on changed source | manna commands and git change what it shows |
| vault writes, `engine.py` | Markdown files, `.trash`, backups, the lock file | append, prop, tasks, save, create, daily, templates apply, tags rename, move, delete | Obsidian edits the same files; refreshes the index |
| vault index, `engine.py` | SQLite tables: notes, links, tags, tasks, embeddings | refresh, `--full`, record of a written note, embed refresh | every command that reads |
| live lease, `lib/live/lease.py`, `policy.py` | `leases.json` | `require_live_control` with and without an approval | notify's messenger, desktop and browser tools |
| notifications, `lib/notify.py` | `state.json` (cooldowns), `history.jsonl` | emit, reset-state | providers, live lease |
| profiles, `psql_keychain_store.py` | `profiles.json`, the Keychain, a flock | profile add, profile remove, connect | `security(1)` children |
| session hooks | nudge state, pending nudges, touch ledger, files spoken of | pre-tool, post-tool, quantity check, Stop gate | run per call, side by side, cut off by the runtime |
| route cache, `lib/cache.py`, `bin/intent-router` | SQLite rows: a route per intent and project, its hits and outcomes | lookup, near rows, store, count an outcome, migrate the earlier schema | every natural-language request is a process of its own |
| agent-db, `db_ops.py` | `session.json` (profile, database, transaction flag, history), `profiles.json` | connect, query, begin, commit, rollback, the profiles | every command connects anew |
| agent-excel, `excel_ops.py` | the state file and the workbook | open, save, the edits of a sheet and of sheets, filters, aggregates | other programs save the workbook |
| agent-zpc, `epistemics.py`, `memory.sh` | `lessons.jsonl` of a project and of the machine | learn, backfill, retract, promote, inject for a trigger | hooks bring lessons into a session |
| agent-notion, `notion_lib/engine.py` | `index.db`: pages, blocks, search, vectors | sync, embed refresh, search | the workspace changes |
| agent-macos, `macos_ops.py` | `session.json` | read the desktop, click, type, menus, dialogs | the live lease; the user acts too |
| agent-screen, `screen_ops.py` | `state.json`, the frame files | displays, snapshot, find, click on a text | displays are rearranged |
| agent-vision, `vision_ops.py` | `session.json`, learned faces | source, snapshot, watch, record | a source may stall |
| agent-appleevents, `appleevents_ops.py` | dictionary cache, two files per version | dictionary, tell, run, cache | applications are updated, start and quit |
| agent-email, `email_query.py` | none of its own; Mail's index | wait, code, link, search, get, export | Mail writes the index, a server has the texts |

### Components without a protocol

The dispatcher (`agent-do`, `lib/registry.py`), the offline matchers
(`bin/pattern-matcher`, `bin/suggest`), contracts,
quantity parsing, credential wrappers, shell helpers, and the
remaining tools route, format, parse or call external services. They keep no
state that a second process changes, so there is nothing for a state machine to
say about them. `PROJECT.json` lists each with its reason.

### What is hard here

1. **Decisions on a row that was read without the lock.** `update`, `delete`
   and `handoff seal` load the board, decide, and commit later. Another process
   can claim, finish or delete the row in between.
2. **Repairs on old evidence.** `reconcile` inspects the board, then asks git
   (seconds) and coord (up to two seconds), then repairs row by row. The claim
   it found dead may be gone and a new one in its place.
3. **Ownership.** A claim's label is public; only the token proves it.
4. **Three fields that must agree.** status, claim and blockers are changed by
   eight different methods.
5. **Crash between two writes.** A handoff document and its row are two files,
   with a journal in between.
6. **Journals replayed by anybody.** Every command first recovers what it finds.
7. **Watermarks.** `coord interrupts` decides what an agent has seen, after it
   computed and truncated what it shows.
8. **A lock anybody unlinks.** The vault's lock file is unlinked by whoever
   leaves `write_lock`, also by a process that was refused it.
9. **Rollbacks beside other writers.** A tag rename or a move that fails copies
   its backups over what the notes are by then.
10. **Signatures and stamps taken before or after what they sign.** The board's
    cache signs before it derives; `parse_note` reads before it takes the stamp.
11. **Two stores without a transaction.** Profile and password; message sent and
    cooldown saved; row and embedding.
12. **Read, change and write back without a lock.** Leases, cooldowns, nudge
    counts, pending nudges, the touch ledger, the outcomes of routes.
13. **A migration in several commits.** The route cache renames its table, makes
    a new one and moves the rows, while other runs come and any may be cut off.
14. **What was looked at is gone when it is used.** An element, a window, a
    display, an application's version, a row of Mail's index, a page.
15. **Deadlines looked at once a round**, while a capture or a query takes as long
    as it likes.
16. **A rewrite from an earlier reading.** `session.json`, `state.json` and the
    stores of lessons are replaced whole, without a lock.

### What makes each component correct

* issue model: status, claim and blockers agree; dreams are never claimed;
  finished rows stay finished; nothing is completed around a dependency.
* store and commands: a claimed row is changed by its proven owner only.
* reconcile: what coord said during an earlier claim never releases a newer one,
  and nothing is closed that was blocked since it was inspected.
* pair transactions: document and row change together or not at all, whatever
  crashes; recovery never undoes a later change.
* coord: a path has at most one holder; an agent that is there keeps its claims
  and is not shown dead; no claim is left without an owner and no news without
  a reader, unless for a cause that can be named.
* serve: the page never waits for a change it has been shown as old, and comes
  to show the board and its drift.
* vault: a text reported as written is kept; a command that fails undoes itself.
* index: what a refresh skips it may skip; after an undisturbed refresh the index
  is the vault.
* notify: a cooldown is earned by a message everybody got, and holds.
* live lease: control is given only under an approval that covers it and lives.
* profiles: a password is never bound or sent to an endpoint it was not given for.
* session hooks: nudges get fewer, edits reach the Stop gate.
* route cache: an outcome is counted once and for the route it is of; rows of the
  earlier schema are moved.
* agent-db: nothing is committed before commit; the session names an entry there was.
* agent-excel: a sort loses no value and brings a column in order; rows without
  blanks stay whole.
* agent-zpc: a row keeps the id it is known by; a retraction reaches both stores,
  until the same is learned once more; a session is told of a lesson once.
* agent-notion: the cache moves forward, and a page's row is not ahead of its blocks.
* agent-macos: only an approved command acts, and what cancels only cancels.
* agent-screen: an element is where its text was seen.
* agent-vision, agent-email: what waits ends in time and has missed nothing.
* agent-appleevents: an answer is no older than the question; nothing is launched unasked.

## Modules

| module | models | kind |
|---|---|---|
| `MannaIssue` | `issue.rs` | pure operators on a row |
| `MannaBoard` | `store.rs`, the lifecycle commands and reconcile of `main.rs`, `reconcile.rs` | state machine and its properties |
| `MannaBoardProofs` | | theorems about `MannaBoard` |
| `MCMannaBoard` | | instances of `MannaBoard` for TLC |
| `MannaPair` | the pair transactions of `workflow.rs`, `recover_*_with` of `store.rs` | state machine and its properties |
| `MCMannaPair` | | instances of `MannaPair` for TLC |
| `CoordPresence` | registration, `stop`, `bye`, `claim`, `release` and presence of `agent-coord` | state machine and its properties |
| `MCCoordPresence` | | instances of `CoordPresence` for TLC |
| `CoordInterrupts` | the event journal and `interrupts` of `agent-coord` | state machine and its properties |
| `CoordProofs` | | theorems about `CoordPresence` and `Hooks` |
| `VaultWrites` | the write commands and `write_lock` of `obsidian_lib/engine.py` | state machine and its properties |
| `VaultWritesProofs` | | theorems about `VaultWrites` |
| `LiveLease` | `lib/live/lease.py`, `policy.py` | state machine, part of `NotifyEmit` |
| `NotifyEmit` | `emit`, `reset-state` and the live messenger of `lib/notify.py` | state machine that composes `LiveLease`, and its properties |
| `NotifyEmitProofs` | | theorems about `NotifyEmit` and `LiveLease` |
| `BoardPage` | what a page is promised | abstract specification |
| `ServeBoard` | `serve.py` and what it calls of `board.py` | state machine, shown to implement `BoardPage` |
| `PairAndServeProofs` | | theorems about `MannaPair` and `ServeBoard` |
| `SessionHooks` | the hooks' session state, `telemetry.py`, `touch_ledger.py` | state machine and its properties |
| `ZpcTrigger` | the hook that brings lessons, `agent-do-zpc-trigger.py` | state machine and its properties |
| `Hooks` | | `SessionHooks`, `CoordInterrupts` or `ZpcTrigger`, one of them at a time, and what they promise |
| `MCSessionHooks` | | instances of `Hooks` for TLC |
| `RouteCache` | `lib/cache.py` as `bin/intent-router` uses it | state machine and its properties |
| `RouteCacheProofs` | | theorems about `RouteCache` |
| `PsqlProfiles` | `psql_keychain_store.py`, `connect` of `agent-psql` | state machine and its properties |
| `DbSession` | `agent-db` | state machine and its properties |
| `ExcelSheet` | what a command of `agent-excel` does to a sheet | pure operators |
| `ExcelSession` | `agent-excel` over its files | state machine that uses `ExcelSheet` |
| `ZpcStore` | the stores of `agent-zpc` | state machine and its properties |
| `Tools` | | `PsqlProfiles`, `DbSession`, `ExcelSession` or `ZpcStore`, one of them at a time, and what they promise |
| `VaultIndex` | refresh, the record of a note, and embed refresh of `obsidian_lib/engine.py` | state machine and its properties |
| `NotionCache` | sync, search index and embed refresh of `notion_lib/engine.py` | state machine and its properties |
| `MacosGui` | `agent-macos` | state machine and its properties |
| `ScreenState` | `agent-screen` | state machine and its properties |
| `VisionWatch` | `agent-vision` | state machine and its properties |
| `AppleEvents` | `agent-appleevents` | state machine and its properties |
| `EmailQuery` | `lib/email_query.py` | state machine and its properties |
| `Views` | | those seven, one of them at a time, and what they promise |
| `ToolsProofs` | | theorems about the tools of `Tools` |
| `ViewsProofs` | | theorems about the tools of `Views` |
| `MCVaultWrites`, `MCNotifyEmit`, `MCServeBoard`, `MCTools`, `MCViews`, `MCRouteCache` | | instances for TLC |

`MannaBoard` takes the document of a row for granted; `MannaPair` takes the
lifecycle of the row for granted. What they share is the compare-and-swap under
the board lock: `CommitUpdate` and `CommitPairedDelete` of `MannaBoard` are the
undisturbed execution of an update or delete of `MannaPair`, and `Touch` of
`MannaPair` stands for every other locked mutation of `MannaBoard`.
`CoordPresence` is what `presence` in `MannaBoard` is an environment of: the
`Presence` it computes is what `coord peers` answers reconcile. `CoordInterrupts`
takes the registrations of `CoordPresence` for granted and keeps of them that a
record, and the watermark in it, may disappear (`Forget`). `ServeBoard` sees the
board as a version that moves; what moves it is `MannaBoard` and `MannaPair`.
`VaultIndex` sees of `VaultWrites` that notes change and that a writer records
its own. `NotifyEmit` extends `LiveLease`: an emit that reaches the live
messenger goes through the lease steps, and so does any other live tool.

### MannaIssue

A row is a record of its type, status, blockers, claim label, claim proof and
`updated_at`. For every Rust method there is the guard under which it returns
`Ok` (`CanClaim`) and the row it leaves behind (`ClaimBy`). Text fields, the
handoff pointer and the track edge are abstracted to `updated_at`, since every
edit stamps it. A digest is modelled by the token it is a digest of.
`claimed_at` is set and cleared together with `claimed_by` and left out.

### MannaBoard

`rows` is `issues.jsonl`. A command that decides under the lock (`claim`,
`done`, `abandon`, `block`, `unblock`, `create`) is one action. A command that
decides before it takes the lock is a process with something in hand
(`edit[e]`, `recon[r]`) and an action for each part between which other
commands may run: `BeginUpdate`, `CommitUpdate`; `BeginDelete`,
`CommitPairedDelete`, `CommitPlainDelete`; `Inspect`, `GatherEvidence`,
`ReadPeers`, `FixDeadClaim`, `FixBlockerDesync`, `FixLandedOpen`, `RefuseFix`.
A process may be killed at any point: `GiveUpEdit`, `EndReconcile`.

`presence` (coord's status of each label) and `landed` (issues named by commit
trailers) are the environment: presence changes at any time, `landed` only
grows. A failing `git log` or `coord peers` is a choice in `GatherEvidence` and
`ReadPeers`.

`tenure` is a history variable that no guard reads. It holds the statuses coord
has had for the owner of a row's present claim since that claim was made, and
`RepairJustified` is stated with it: what coord said during an earlier claim never
releases a newer one. Of `landed` it does not say so, since a trailer names an
issue and not a claim (`reconcile.rs:194`): one that landed before the row was
abandoned still lets reconcile close it under its next claim, once that claim's
owner was seen inactive.

A board starts with rows from `InitialRow`: fresh rows, rows a session has
claimed, and claims written before claim proofs existed (`LegacyClaim`), which
have a label, no proof and therefore no owner.

Assumptions of the model:

* Each mutation gets a time stamp of its own (`Utc::now()` has nanosecond
  resolution). `clock` is that time; `MaxClock` bounds it, for TLC only.
* The integrity preconditions of `claim` and `done` on the handoff document may
  only refuse. A refusal changes nothing, so it is not an action.
* The caller of reconcile has some identity. A caller without one is treated by
  the code like one whose proof does not match, which `Session` contains.

### MannaPair

`row` is one line of `issues.jsonl`, `doc` its handoff file, `archive` the
archived handoffs of the identifier, `journal` the file
`.manna/transactions/<id>.yaml` and `lock` the board lock. `proc[p]` is what a
process is doing:

| `pc` | the process has | code |
|---|---|---|
| `prepared` | read row and document, built a transaction | `create_paired_issue`, `attach_handoff`, `rebind_handoff_metadata`, `seal_handoff`, `detach_handoff`, `delete_paired_issue` |
| `published` | installed its journal | `write_transaction` |
| `opened` | read a journal, its own or one it found | `complete_transaction_path`, `recover_pair_transactions` |
| `half` | changed the document, holds the lock | `install_transaction_document` or `archive_handoff`, called from `recover_issue_with`, `recover_replace_issue_with`, `recover_delete_issue_with` |
| `settled` | written the row, or found the transaction in conflict | end of `execute_transaction` |
| `compared` | found its journal still at its path | first half of `remove_transaction_if_unchanged` |

The steps are exactly the places where another process, a kill or a hand can
come in between. `Crash` ends a process anywhere and frees the lock, as the
operating system does; files survive. `OpenFound` may be taken by any process
for any journal, and the process may go on arbitrarily late, which is what a
command started long ago does. `EditByHand` is an editor saving the document,
`Touch` and `DeletePlain` are the locked mutations that do not use a journal.

Abstractions: a content is a number, made in increasing order; its digest is
the content itself. Frontmatter, scaffold checks, signatures and path checks
decide whether a command starts, not what it does, and are left out. Row and
document are read in one step, because a row that changes between the two
readings makes the compare-and-swap fail. A document deleted by hand and the
multi-row `rename` and `migrate` transactions are not in this module.

The history variables say what happened, and no guard reads them: `half` is the
transaction a kill cut between its halves, `settled`, `over` and `lost` follow
the transactions to their end, `byHand` and `unapproved` follow hand edits, and
`reborn` marks that a create was executed again after a delete.

### CoordPresence

`agents` is `agents.json` and `claims` is `claims.json`; each is replaced
atomically, one after the other. A command is a process (`proc[p]`) in two parts:

| `pc` | the command has | code |
|---|---|---|
| `started` | been started by its session | `main` |
| `cascading` | written `agents.json`, holds the lock, has claims to take away | `register_self` before `_cascade_prune` |
| `registered` | registered its agent and let go of the lock | end of `register_self` |
| `leaving` | removed its own record, holds the lock | `bye`, before its claims |

`Register` is the whole of `register_self` up to the first write: it renews the
record and drops its marks, tombstones the other occupants of the pane
(`Superseded`) and prunes (`Expired`). `Stop` does not register. `Finish` stands
for the commands whose second part is about other files. `Kill` is the hooks'
`SIGKILL` at any point, which frees the lock and leaves the files.

Times are ages. `Tick` ages everything by one, and an age past the last window
stays there, which changes no comparison. The four windows are parameters, in
the order of their defaults. `running` is the set of agents whose session is up,
`alive` those whose recorded process is: a session that was resumed is
running and not alive until a command of it registers. `Remote` agents are those
whose process nobody here can check.

The history variables: `contact` is the age of an agent's last registration,
`cut` and `overtaken` name the agents whose removal was killed halfway or
overlapped a command of theirs.

Abstractions: `focus.json`, `pulse.json` and the needs of an agent follow the
agents file exactly as the claims do. A process that is alive under the same
identifier but is another one (a reused pid) is told apart by its start time in
the code and does not occur.

### CoordInterrupts

`log` is `events.jsonl`, an event is the topic it is about, and its number its
place. A read (`read[r]`) goes through the steps between which other processes
run: `Begin` (the watermark), `Look` (focus, claims, needs), `List` (the
journal, cut off at the limit), `Measure` (the journal again, for its last
number), `MarkSeen` (`_mark_interrupt_seq`), `Deliver`. None of them holds the lock
from one to the next. The contention, notice and dependency interrupts are
recomputed by every read; here they only take room on the list.

The history variables: what was `printed`, and `consumed` by marking reads; which
events the agent `wanted` ever since they were appended; which were `lost` for a
cause the program has, and whether the watermark was ever `rewound`.

### VaultWrites

A note is the set of the things written in it (the texts of commands, its body,
a tag, links) and the stamp (`mtime`, size) of its last write. Every write has a
stamp of its own; a restored backup has its note's old one, as `copy2` gives it.
A command is a process:

| `pc` | the command is | code |
|---|---|---|
| `idle`, `born`, `again` | before the lock: preflight, creation of a daily note | `cmd_append`, `cmd_daily`, `note_paths_for_tags` |
| `lock`, `sign`, `probe`, `judge`, `retake`, `refused` | in `write_lock` | `O_EXCL`, payload, reading the other's pid, `kill(pid, 0)`, unlink |
| `work`, `write`, `relink` | in the `with` block | `rewrite_tags`, `cmd_move`, the single-note commands |
| `work`, `write` once more | a `save-group` that has written its hub and goes on to a child | `cmd_save_group` |
| `rollback` | in the `except` clause | backups copied back |
| `release` | leaving | index brought up to date, unlink |

`Compose` reads the note and makes the new text, `Write` writes it: in between,
the editor (`EditNote`), which takes no lock, may save. A command answers `ok`,
`failed`, `interrupted` (Ctrl-C runs the `finally` clauses and no `except
Exception`), or `unrecorded`: the note is written and the index could not take
it. `save-group` writes a hub, brings the index up to date (`HubUnrecorded` if it
fails), and writes a child, all under one lock; it has no rollback, so when it fails
at the child the hub stays (`engine.py:1942`), which `AllOrNothing` exempts. `prop
batch` would rewrite many notes without a rollback too, but no command line
reaches it: `cmd_prop` looks at `args.file` before anything else (`engine.py:2872`),
and the parser of `batch` (`engine.py:3415`) defines no `file`. `Kill` leaves lock file and a file cut off in `write_text` as they are.

History: `broken` says that somebody unlinked the lock of a live holder,
`clobbered` that a file was replaced its writer had not read. The properties
name them as exemptions: the first is what `ExclusiveUntilBroken` is about, the
second is what templates apply and a move onto a taken name do by design.

### VaultIndex

`file` is the vault, `row` the committed tables, `tx` the open transaction of a
process, `db` SQLite's writer. `Walk`, `Select`, `Visit`, `Stat`, `Upsert`,
`Prune`, `Commit` are the parts of `refresh`, `Stat` apart from the read of
the note since `parse_note` takes the stamp after it. `Record` is
`full_note_record`; `Missing`, `AskProvider` and `StoreVectors` are `embed
refresh`, whose provider answers outside any transaction. `Abort` ends a command
anywhere and rolls its transaction back.

### LiveLease and NotifyEmit

`leases` and `state` are JSON files, `Torn` while `write_text` has emptied
them and not filled them. A live request goes through `ReadLeases`, `Open`,
`FillPruned`, `Decide`, `FillSaved`. An emit reads `state.json` once
(`StartEmit`), goes through its rules (`NextRule`), their recipients
(`NextMember`) and the providers (`Attempt`, for the live one `Drive` or
`Refuse`), adds to the history after each success, and saves once (`OpenState`,
`FillState`). A process may be killed anywhere, and emits overlap. One set of
facts means one fingerprint per rule.

### BoardPage and ServeBoard

`BoardPage` is a page and the versions of a board: the page moves forward, and
comes to show the last version. `ServeBoard` is the daemon: `Sign`,
`Request`, `Look`, `Lock`, `Derive`, `Overlay` and `Schedule` are the parts of
`BoardCache.state` and the stream around it; `Reconcile` reads the board for a
background reconcile and `Land` is its end. `Push` sends, `Lose` drops the
connection, `Restart` is the daemon replacing itself. The refinement maps
`version` to `files` and `page` to the files of the last push that arrived.

Abstractions: the board and git files have one version; a signature is read in
one step; presence, federation and digests are more reasons to push and left out.

### PsqlProfiles

`profiles` is `profiles.json`, replaced whole; `keychain` the passwords. A
mutation is `TakeLock` (which gives up at once when it is taken), `LoadAdd` or
`LoadRemove`, `StorePassword`, `Publish`, `DeletePassword`. A child may fail, time
out with its work done, or outlive a killed parent (`strays`, `StrayLands`). A
connect is `ReadProfile`, `ReadDetail`, `ReadPlain` and `Use`, without the lock.
A record tells whether it needs a password, and old ones do not (`Expects`);
`security(1)` shows some secrets in hexadecimal (`Binary`).

### SessionHooks

A call of the session runs its hooks; calls run side by side. `nudges` and `tmp`
are the session's file and the temporary name all its hooks share: `handle` says
which of the two the file opened as `tmp` has become, so that two writers of one
temporary name do what they do. `pending` are the nudges not yet judged,
`ledger` the touched files the Stop gate reads (`StopRead`) and truncates
(`StopTruncate`), `spoken` the files the quantity check has spoken of. `Rest` is
a week without a hook, after which sweeps remove what is left.

The history variables `crossed`, `disputed`, `excused` and `raced` name the
overlaps the code takes no lock against. The properties exempt exactly those.

### Tools and Views

Tools that keep no state together are not composed: an initial state of `Tools` or
`Views` picks one of them (`tool`), whose module then makes every step, while the
variables of the others are `None`. So a behaviour of `ToolsSpec` or `ViewsSpec`
is a behaviour of one tool, and a property of the tool reads `tool = "db" => ...`.
The modules are instances, each with variables of its own; `Tools` and `Views`
also hold the assumptions about their constants.

In all of them a command is a process `proc[p]`, a record whose field `at` says
where it is: it is given what it was asked (`Asked`), loads its file, and does one
thing after another at the places where somebody else may come in between. A
session file that is written with `write_text` is truncated and then filled, so
another command, or a kill, may meet it empty.

* `DbSession`: a transaction is a flag in `session.json`; the driver opens one with
  the first statement, and the process that ends drops what it did not commit.
  `marked` is the writes since the begin, `entries` the profiles there ever were.
  `--explain` puts EXPLAIN before a statement, except for the databases of `Sqlite`
  (`db_ops.py:804`), where the statement runs and is committed like any other.
* `ExcelSheet` is an operator per edit and per reading of a sheet, a window of
  cells that are numbers, texts or nothing. `ws.cell(row, column, value=None)`
  leaves what the cell holds, so a null in a block clears nothing and a sort lays
  the sorted rows over the old ones (`Laid`). A snapshot is the used range, its
  headers and a few rows (`Preview`). A title that is taken is made unique (`Free`).
  That merged cells stay merged is not remembered. `ExcelSession` is a command that loads
  the workbook, works on it in memory, notes `modified`, and ends; only `save`
  writes, the workbook its own process has loaded.
* `ZpcStore`: a store is a sequence of lines; a row without an id is known by the
  one readers derive from its content and place. A rewrite is two steps, the
  reading (`LoadStore`, `ReadDest`) and the replacement (`WriteAtomic`,
  `WriteDest`); an append is one. The history numbers every line, so a lost or
  renamed one can be told.
* `ZpcTrigger`: a hook asks for the lessons that match (`Match`), loads those its
  session was shown (`LoadSeen`), marks the new ones (`OpenSeen`, `FillSeen`) and
  then prints all of them (`Speak`).
* `NotionCache`: `log` is the history of the workspace, a change known by its time.
  A sync searches (`Search`), opens its transaction (`OpenTransaction`, or
  `TransactionBusy` when the lock is not free in time), reads page by page
  (`SyncPage`) and commits; embed refresh reads (`Candidates`), asks a provider
  (`Embed`) and stores.
* `MacosGui`: `Start` is the gate for live control. What a command looks at and
  what it does are steps of their own (`DialogChoose`, `DialogTarget`,
  `DialogPress`), because the user acts in between. `acted` counts what was done
  to the desktop.
* `ScreenState`: a snapshot saves its state four times. An element keeps, as
  history, where its text was when the frame was taken.
* `VisionWatch`: `Tick` is a unit of time that passes in captures and pauses; a
  capture ends after `Limit`.
* `AppleEvents`: the dictionary of a version is that version's number, so an old
  one can be told from a new one; `sdef` and each cache file are read and written
  in steps of their own.
* `EmailQuery`: a query reads the mailboxes (`Boxes`) and, up to `Slow` units of
  time later, the messages (`Query`); `Check` and `Wake` are the round of a wait,
  `missed` is what a wait that gave up could have found.

### ZpcTrigger, SessionHooks and CoordInterrupts together

`Hooks` picks one of the three in the same way (`part`): it extends `SessionHooks`,
holds an instance of each of the other two (`News`, `Zpc`), and states what the three
promise together.

### RouteCache

`patterns` is the table of `cache.py` with its `schema`, `legacy` the table
`init_db` renames; a run of `bin/intent-router` is a process whose `pc` is the
next statement that commits by itself: `Open`, `Rename`, `Create`, `Look` and
`Migrate` are `init_db`, `Check` and `Touch` `check_cache`, `Fuzzy` `fuzzy_match`,
`Save` and `Put` `cache_result`, and `Note`, `Reread` and `Count`
`note_route_outcome`, which may call `cache_result` with a connection of its own.
`Raise` is the handler of `main`: it routes once more, by the near rows, and
executes what it finds. The score of near rows is left open, so any of them may
be the best. `told` is what the executed commands really ended with; `disturbed`,
`shared`, `swapped`, `crowded` and `stranded` name the causes for which the counts
or the credit may be wrong.

## Runs

| run | instance | what it shows |
|---|---|---|
| `edit` | 2 rows, 3 sessions (one knows another's label, not its token), 1 editor, 4 stamps | coherence, ownership and final completion with stale updates and deletes in flight |
| `reconcile` | 2 rows that the first session may have claimed at the start, 2 sessions, 1 reconcile process, statuses active and dead, 3 stamps | what coord said during an earlier claim releases no newer one, and nothing is closed that was blocked since it was inspected |
| `pair` | 2 processes, 3 stamps, 1 kill, fairness | row and document disagree only after a kill or a hand edit, no unapproved content is vouched for, a cut transaction stays on disk, no transaction takes effect twice, a published journal is settled |
| `coord` | 2 agents in one pane, one of them remote, 1 path, 2 processes, windows 0, 0, 1 and 1, 1 kill | one holder, claims kept and owned, the living not dead |
| `vault` | 3 commands, 3 notes, 1 edit, kill or Ctrl-C, a `save-group` of a hub and a child | exclusion until a lock is broken, accepted texts kept, failure leaves nothing, `save-group` excepted |
| `notify` | 2 processes, 2 rules, a group with a live provider, 3 commands, 1 kill, 4 moments | cooldowns are earned, leases decide |
| `serve` | the stream and one reader, 2 changes, 1 request, 1 fault, fairness | cache not older than its signature, the stream implements `BoardPage`, drift catches up |
| `tools` | agent-psql: 2 processes, 2 profiles, 4 strings, files of old formats, 4 commands, 1 kill. agent-db: 2 databases, one of them SQLite, 2 writes, 4 commands. agent-excel: 2 workbooks, 3 names of sheets, 4 by 2 cells, 2 commands, 1 edit elsewhere. agent-zpc: 2 lessons of one problem, 3 commands, 1 fault | `BoundIsOwn`, `ConnectIsRight`; `NothingEscapes`; `SortLosesNothing`; `MemoryStands` |
| `views` | 2 processes of one tool. Vault index: 2 notes that may link, 1 edit, 3 commands. agent-notion: a page of 2 blocks, 3 changes. agent-macos: 2 applications, 2 dialogs, 3 moves. agent-screen: 2 displays in 3 arrangements. agent-vision: 2 sources, a face and a word, 3 commands. agent-appleevents: 2 applications, 2 versions. agent-email: 2 messages, 2 mailboxes, a fixture | `IndexFollows`, `BlocksMoveForward`, `OnlyApprovedActs`, `TextIsWhereItWas`, `WatchIsInTime`, `AnswersAreCurrent`, `NothingIsMissed` |
| `hooks` | 3 calls side by side, 2 tools, 1 file, 1 cut off; or 2 reads, 1 topic, 2 events, limit 1, 1 kill; or 3 calls of the lesson hook, 2 lessons, 2 kinds | `NudgesAreEarned`: nudges degrade and are ignored only after being shown; `ToldOnce`: edits are seen, files and lessons are spoken of once; `NewsIsShownOnce`: what is behind the watermark was shown or lost for a cause, and news is news once |
| `routes` | 2 runs, 2 intents that are near, one project, an empty, a new or an earlier table, 2 routes, 1 fault | counts are earned, credit is the route's own, the earlier table is moved |
| `edits_saved` | one process of agent-excel | the finding below: an edit and then `save` |

Why these bounds are enough to be interesting: a stale decision needs a load, a
change by another process and a commit, which are two or three stamps; a
release followed by a new claim followed by an old repair needs three, if the
row is claimed at the start. One editor suffices because editors do not read one
another's state, and a second one is to the first just another command that
changes the row. `CHECK_DEADLOCK FALSE` is set because a behaviour whose stamps
are used up may stop.

In `pair`, two processes are a writer and a recoverer, each of which may be the
one that executes a journal late; the theorems cover more. Three stamps are a
transaction, a change that competes with it and one that follows it. One kill
is enough, since a second one meets the same state as the first: a journal and
perhaps half of its work.

`JournalIsSettled` assumes weak fairness of `OpenFound`, `Publish` and
`Executing` for each process: a process that is not killed runs on, and commands
keep being run, each of which starts with recovery. Nothing is assumed of
preparing, of hands or of kills. A journal is excepted while it archives a
document that is gone or under a name that is taken, which the code cannot get
out of by itself (`IntentIsCompleted`, below).

In `coord`, two agents are one that prunes and one that is pruned, or two that
want one path; two processes are enough for two commands of one agent to
overlap and for one to run between the parts of the other. The windows are the
smallest that tell a fresh, a tombstoned and a pruned record apart, and with one
agent remote both a verified and an unverified peer occur. One kill is one
removal cut in half.

In `hooks`, for `CoordInterrupts`, two events and a limit of one are enough for a list to be cut
off and for an event to arrive while a read is at work; two reads overlap, mark
in the wrong order and are killed.

In `vault`, the first process is given every command but creation, the second
those with a preflight (an append or a rename of the tag), the third a creation
or an edit of a task that runs into the lock of the others: breaking a lock takes
a holder, one who is refused and one who enters. The third note is empty at first, for creations and
moves. One event from outside, edit, kill or interrupt, meets every step of
every command.

In `views`, for `VaultIndex`, two refreshes or a refresh and a save overlap, with an
edit at any point and a link whose target comes or goes. `MaxStamp` is above the
number of writes that can happen. `LastIsAlone` is a bound too: the third command
begins while no other runs, as the one that must catch up with what two that
overlapped have left.

In the rest of `views` and in `tools`, two commands overlap, or follow one another,
and the world changes once or twice at any point. One process may be given every
command of the tool, the other the few that write what the first one reads. A time
bound of a wait is small against the time of a capture or query, so a deadline
passes in the middle of either. The sheet of agent-excel has a header and three rows
with blanks, numbers and texts in them, which is enough for a sort that moves a blank
over a value, equal keys, a column that cannot be sorted, and a snapshot that shows
one of the rows. A lesson
of agent-zpc is doubled in one of the stores it starts with, is unreadable, is of
the time before ids, or is known to the machine only.

In `notify`, a cooldown of two moments ends within the four there are; the group
has a member whose live provider needs a lease, and the second rule a recipient
who is not configured, so a delivery can be partial. Three commands are two emits
that overlap and a reset or a live tool.

In `serve`, two changes and three running reconciles are enough for one to land
after the board moved on, and for two to overlap; a fault is a failed derive or
reconcile, a lost push or a restart. The fairness is that of a daemon that runs:
each step of its threads, the stream's poll and push, a click's command, a
reconcile's read and its end. Nothing is assumed of changes, requests or faults,
and a board whose reconcile failed is excepted.

In `tools`, for `PsqlProfiles`, four commands are two mutations of one profile and a connect that
spans them, or a removal and an addition that share the file; one killed parent
leaves one stray child. In `hooks`, three calls are two that race and one that
shows what became of it, or three that count; the thresholds are the smallest
that tell full, friendly and silent apart.

No liveness is claimed for coord: a claim that is left without an owner stays
until its agent comes back. None is claimed for the board: nothing in the code
promises that a row is ever claimed or finished. `done` does not unblock dependents, only a later
`reconcile --fix` does, and blockers may form a cycle.

In `routes`, two runs overlap at every statement or follow one another; requests
inside and outside the project meet in the row outside; the one fault is a
database error, a kill or a tool that goes. The second intent is only in the
earlier table, for a near match.

Every property of a passing run has a mutant in `PROJECT.json`, a plausible bug
in one definition, under which TLC reports the property violated. The mutants are
the definitions whose comment says so, placed before the definition they replace.

## Findings

One has a run, `edits_saved`. `EditsAreSaved` (`ExcelSession`): `SPEC.md:300` says
`save` after two `set`s, and `agent-excel:17` says "Save workbook". Every command
loads the workbook from its file again and nothing but `save` writes it, so `save`
writes the file back as it was.

The following disagreements are stated as properties of their modules, which TLC
finds violated when a configuration lists them. No run repeats them:

* `AbsentJournalIsOver` (`MannaPair`): recovery looks for the row, not for the
  journal, when it executes. A recoverer that read the journal of a create and
  was slow installs the row and the document again after the create was completed
  and the item deleted. The code's comment (`workflow.rs:4065`) says an absent
  journal has no intent left to execute.
* `LandedOpenIsReportOnly` (`MannaBoard`): `ARCHITECTURE.md:499` and
  `reconcile.rs:197` call the `landed_open` check report-only, and
  `docs/INTEGRATION.md:152` lists the two repairs `--fix` makes. The code makes a
  third: it closes a claimed row in progress when a landed commit names it and
  its owner is not active.
* `DiscardIsClean` (`MannaPair`): a transaction is killed after its document half,
  and a command that had looked for journals before changes the row. Recovery
  then discards the journal "safely" (`workflow.rs:4020`) and leaves half of its
  work.
* `ChangedJournalIsLeft` (`MannaPair`): `remove_transaction_if_unchanged` compares
  and then unlinks, without the lock. A journal published in between is removed
  unexecuted.
* `IntentIsCompleted` (`MannaPair`): `SCHEMA.md:261` says the next command completes
  an interrupted intent. A delete or detach whose archive name is taken is not
  completed by any command, and all of them fail on it.
* `RetiredStaysRetired` (`CoordPresence`): `docs/INTEGRATION.md:134` says
  SessionEnd retires the identity. The pulse hook of the same SessionEnd runs its
  command in the background, and `register_self` drops the stopped mark whenever
  it comes.
* `ConsumesWhatItShows` (`CoordInterrupts`): `agent-do-session-start.sh:284` says
  `interrupts --mark-seen` consumes what it shows. It consumes everything up to
  the journal's last number, with the news its limit cut off and the events
  appended while it ran.
* `MoveIsUndone` (`VaultWrites`): the rollback of `cmd_move` first copies the
  backups to their places, the moved note among them, and renames the new file
  back only if the old name is free. It never is, so a move that fails after its
  rename leaves the note under both names.
* `RefreshResolves` (`VaultIndex`): an incremental refresh parses only notes that
  changed, so a link to a note that came or went since stays as it was resolved
  then. A full one resolves all of them (`RefreshCatchesUp`).
* `CommitKeepsWork` (`DbSession`): `agent-db:42` lists begin, commit and rollback,
  and `commit` answers "Transaction committed". The connection the writes were made
  on ended, uncommitted, with its command; nothing is in the database.
* `FiresOnce` (`ZpcTrigger`): a lesson "fires once per session per kind"
  (`agent-do-zpc-trigger.py:11`). The hook is silent only if every lesson that matches
  was shown; when one is fresh it prints the others again.
* `ConnectPairs` (`PsqlProfiles`): a profile removed and added again between the
  reads of a connect gives its new password to the old endpoint.

Of `bin/intent-router`, visible in `RouteCache` as it is: a request for an
explanation (`--how`) executes the route like any other, since `execute` is not
told; an error while an outcome is counted makes `main` route and execute the
request a second time; and `execute` annotates the route before its outcome is
counted, so a near match without a row of its own is stored with the annotations,
which `ARCHITECTURE.md:79` says are never persisted (they are computed anew before
each use). A row that is replaced by another route keeps the outcomes of the one
before: this and the other exemptions of `CreditIsOwn` are where "the router
learns which route actually works" (`ARCHITECTURE.md:77`) does not hold.

Of the tools, visible in their modules as they are:

* agent-macos: element refs live in the process that made them, so a command that is
  given a ref never finds its element.
* agent-excel: a comment says "None values last" (`excel_ops.py:858`), but the sorted
  rows are laid over the old ones with a call that ignores None (`excel_ops.py:866`): at a
  blank the value of another row stays, which is then in the sheet twice, and the last
  rows need not be blank in the column sorted by. `SortLosesNothing` says what is left:
  nothing disappears, and the values there were stand first, in order. A null in a block
  clears nothing either (`excel_ops.py:478`).
* agent-obsidian: `prop batch` fails before it does anything (see VaultWrites), and a
  `save-group` that fails at a child leaves its hub.
* agent-vision: `watch --exit` never fires, since an object is looked for only among
  what is there; `record --until` does not stop the recording; a recording whose
  source gives no frames never looks at its duration.
* agent-screen: coordinates of a display with two pixels per point are in pixels,
  the ones of a click in points (`TextIsWhereItWas` is about displays of one);
  overlapping snapshots of single displays write one frame name (`mixed`).
* agent-email: `--exclude-id` is honoured by the fixture only; a fixture is cut at its
  limit before it is filtered, and never shows new mail; a source that was fetched
  and has no text exports Mail's summary without `--allow-summary`.
* agent-appleevents: the raw dictionary may be of a file another command is just
  writing; `cache clear` fails when another command removes a file first; `run`
  launches what its script names.
* agent-zpc: a backfill loses a row appended between its reading and its
  replacement, where `epistemics.py:14` says "Nothing is ever edited or deleted"; `learn` may
  report the id of another row when commands overlap; a lesson promoted again before
  its row has an id gets another one; two promotions at once double an id, and a
  retraction then reaches one of the two; a lesson that is retracted in the machine's
  store and learned again in a project that had no row of it takes the retracted id there,
  and is alive (`LearnedSince`). The hook marks a lesson before it prints,
  so a kill in between loses it for the session.

Seen on the way, without a run of its own: `block` does not look at the type of a
row, so a dream may become blocked, which `ARCHITECTURE.md:477` and
`reconcile.rs:329` exclude and `reconcile` then reports; `update` checks the
seal when it prepares and overwrites when it executes, so it may consume an
unsealed document, which `workflow.rs:4438` says only seal does; and
`_mark_interrupt_seq` writes its number whatever the record says by then, so of
two overlapping reads the slower one moves the watermark back.

## Proofs

### MannaBoard

`MannaBoardProofs` proves, for any set of rows, sessions, processes and
statuses, and any bound on the clock:

| theorem | statement |
|---|---|
| `BoardInvariant` | `Spec => []BoardInv` |
| `TypeCorrect` | `Spec => []TypeOK` |
| `Coherent` | `Spec => []RowsCoherent` |
| `DreamsInert` | `Spec => []DreamsAreInert` |
| `OwnershipIsRespected` | `Spec => OnlyOwnerOrRepair` |
| `FinishedStaysFinished` | `Spec => DoneIsFinal` |
| `RepairInvariant` | `Spec => [](BoardInv /\ RepairInv)` |
| `RepairsAreJustified` | `Spec => RepairJustified` |
| `FinishedUnblocked` | `Spec => FinishedWorkIsUnblocked` |

The assumptions are the ones the modules declare: `None` is no label or token,
`NoRow` is no row, sessions are identities.

`RowsCoherent` alone is not inductive. A commit of a stale edit writes a row that
was computed earlier, so the invariant must say something of what editors hold:
`EditEntitled` states that the session was entitled to the row it loaded, that
the replacement differs from it in metadata only, and in type only if the row
was unclaimed. With the compare-and-swap, the row that is replaced is the row
that was loaded, and coherence carries over. The same clause gives
`OwnershipIsRespected`: whoever commits was entitled to exactly the row that is
there.

The proofs go: the operators of `MannaIssue` map rows to rows (`IssueTypes`) and
coherent rows to coherent rows (`LifecycleRows`, `DependencyRows`); a locked
section that writes a coherent row keeps the board coherent (`WriteKeepsRows`);
each family of steps keeps the invariant (`LifecycleInv`, `EditingInv`,
`ReconcilingInv`, `EnvironmentInv`), which `NextInv` puts together.

`FinishedWorkIsUnblocked` needs that a row open or in progress has no blocker, and that a
repair closes only the row it inspected, which was in progress.

A repair is justified because of what `RepairInv` adds. `StampsAreNew`: every row's
stamp, and the stamp of every edit in flight, is of the past, and an edit's is on no
other edit, on no row and on none that was inspected; so a row that equals the one a run inspected *is* that row, under the
same claim, and not one that was released and claimed again in between.
`OwnersAreSeen`: coord's present status of a claim's owner is one it had during the
claim. `EvidenceStands`: as long as the row is the one inspected, the statuses its
owner had since are among the ones that the run's finding needs. The
compare-and-swap of the repair then carries the finding over.

### MannaPair

`PairAndServeProofs` proves, for any number of processes, stamps and kills:

| theorem | statement | about |
|---|---|---|
| `TypeCorrect` | `Spec => []TypeOK` | |
| `PairInvariant` | `Spec => []PairInv` | |
| `OnlyKillsAndHandsDisagree` | `Spec => []DisagreementHasCause` | the pair is atomic but for a kill or a hand |
| `OnlySealApproves` | `Spec => []ScopeIsApproved` | no replay makes a row vouch for an edit nobody sealed |
| `TakesEffectOnce` | `Spec => AppliedOnce` | journals are idempotent, creates excepted |
| `InterruptionIsRecoverable` | `Spec => []InterruptedIsPending` | a cut transaction is not forgotten |

The assumptions are those the module declares: `MaxClock` and `MaxCrash` are
numbers, the first at least 1, and the three "no" values are not values.

There are three inductive invariants. `PairInv`: whatever transaction exists, in
a journal or in the hands of a process, is good, that is, it installs the
content its row will vouch for, and that content is not an unapproved edit; and
while the lock is held the document is the one being installed. Then the second
half ends every disagreement the first one made. `OnceInv` orders rows by their
stamp: every transaction leaves a later row than it found, and the row is never
again what a settled transaction starts from, so a replay finds a conflict or
its own result. A create has no row to start from, which is why the invariant
holds only until one is `reborn`. `PendingInv`: what a process executes is on
disk, settled or lost, and what it removes is settled.

Only model-checked: `JournalIsSettled`, since it rests on fairness.

### CoordPresence

`CoordProofs` proves, for any agents, paths, processes and kills, and
any windows in the order active, tombstone, idle, prune:

| theorem | statement | about |
|---|---|---|
| `TypeCorrect` | `Spec => []TypeOK` | |
| `CoordInvariant` | `Spec => []CoordInv` | |
| `PathsHaveOneHolder` | `Spec => []OneHolder` | claims exclude one another |
| `AbandonedClaimsHaveCause` | `Spec => []ClaimsHaveOwners` | only a kill or an overlap leaves a claim behind |
| `TheLivingAreNotDead` | `Spec => []LiveIsNotDead` | a tombstone never hits a verified process |
| `RecentAgentsKeepClaims` | `Spec => KeepsClaims` | pruning spares whoever was there |

The assumptions are that the windows and `MaxKill` are numbers, the windows in
order, and that `Never` and `NoProc` are no age and no process.

`CoordInv` adds four parts to the properties. `LockIsHeld`: the lock is held
exactly between the two writes, so nobody registers or claims in between and
the agents being removed stay removed until their claims are. `MarksAreLater`:
no mark of a record is older than the agent's last registration; with the order
of the windows an expired record is one of an agent that has been silent for
longer than the tombstone window, which `PrunedWereSilent` carries over to the
cascade, while time goes on. `Registrants`: between its two parts a command
acts for an agent that is on the board or was removed meanwhile, which is what a
claim made then needs for `ClaimsHaveOwners`.

### SessionHooks, CoordInterrupts and ZpcTrigger

`CoordProofs` proves of `Hooks`, for any tools, files, thresholds, commands, calls, readers,
topics, sessions, lessons, triggers and kills:

| theorem | statement | about |
|---|---|---|
| `HooksInvariant` | `HooksSpec => []HooksInv` | |
| `NudgesAlwaysEarned` | `HooksSpec => []NudgesAreEarned` | a nudge is held back, or counted as ignored, only for a cause |
| `ToldAlwaysOnce` | `HooksSpec => []ToldOnce` | an edit is kept until it is told, a lesson speaks once |
| `NewsAlwaysShownOnce` | `HooksSpec => NewsIsShownOnce` | no news is swallowed, or shown again |

The assumptions are that bounds are numbers, the friendly threshold not above the
silent one, a session's commands are commands, triggers are kinds, and that `None`
and `Torn` are two things, neither a number, an outcome, a session's state nor a set
of marks. `HooksInv` has a part for each of the three:

* `SessionInv`. `StateIsTrue`: until two hooks held the session's state at once, one
  was killed with it or a week went by (`crossed`), the state is in one place, the
  hook's own copy, the temporary file or the file (`HeldIsTrue`), and that place
  counts every nudge that was given and has every tool that was demonstrated; so a
  threshold is passed by nobody. `CountsAreOwn`: a call counts against a nudge once,
  and the number on record, or in the hands of a call, is never more than the calls
  that counted; an update that is lost makes it less. So a nudge found at its
  limit had that many calls of other tools after it. `EditsAreKept`: an edit is in the
  ledger, reported, or with a Stop that has yet to report, and a Stop truncates only
  what it has read, but for edits that are `excused`. `FilesAreNoted`: of a file
  nobody raced for, one call at most is about to speak, and only while it is not
  noted.
* `NewsInv`. `ReadIsSound`: what a read has behind it was told, and what it has listed
  between its watermark and the length it measured is on its list or left out with
  the rest, which it will note as lost. `WantedIsKnown`: an event that is wanted is of a topic every
  reader that has looked knows of. `ConsumedIsBehind`: while the watermark never went
  back, what was consumed is behind it, and behind every watermark a read started from.
* `LessonsInv` is about the sessions whose hooks ran one after the other
  (`SessionIsSound`). The file is empty exactly while a hook fills it, and then the
  marks are in that hook's hands. `Kept`, as `KeptMarks`, of the file or of those
  marks: a lesson that spoke is marked, and a marked one was shown, dropped by a kill,
  or is about to be shown. A lesson a hook is about to bring as new has not spoken, so
  its text is the only one.

### RouteCache

`RouteCacheProofs` proves, for any processes, requests, projects, runs and faults:

| theorem | statement | about |
|---|---|---|
| `LegacyMoved` | `Spec => []LegacyIsMoved` | a renamed table is waiting or being moved, or the cause is known |
| `TypeCorrect` | `Spec => []TypeOK` | |
| `CountsAlwaysEarned` | `Spec => []CountsAreEarned` | rows count no outcome that was not met, and lose none unless the cause is known |
| `CreditIsEarned` | `Spec => []CreditIsOwn` | a row counts only what its own route ended with |

The assumptions are those the module declares: requests are jobs, bounds are
numbers. `LegacyIsMoved` is inductive as it stands, once `pc` is known to be a
function on the processes (`MovedInv`): only `Create` makes a new table, and it
goes on to look for the old one. `CountsAddUp` is not: a row is written from
counts read earlier, so `Knows` says that what a run has read adds up too, that it
holds a route wherever one is stored or counted, and that a run that migrates has
read a table.

`CreditIsOwn` needs to know which row a run will count in. `CreditInv` says, while
none of the exempt causes has occurred: a run that migrates is alone with runs that
have yet to open the cache (`Migrating`), so nobody sees the table half moved; the
row of an intent that is nobody else's counts only its own route (`OwnRows`); and a
run whose intent is its own either has seen no row for it or executes the route of
the row it has seen (`Follows`). A count then goes to the row of the route that was
executed.

That the rows of an intent together count no more than was met, and all of it when
nothing disturbed them, is about what a run has read and not yet written, and what it
has met and not yet counted. `Total` is therefore the cardinality of a set of numbered
outcomes and not a sum over rows, so that `EarnedInv` can compare sets: `Seen` are the
outcomes that are in the table or in a reading that will be written back, `Owed` the
runs with an outcome to count, and `Tally` says that both together are at most what was
met, and exactly that once the earlier table is moved and while the intent is
undisturbed. Every step either takes from one of the two or adds one outcome to both
sides: `Execute` meets one and owes it, `Count` sees one more and owes one less. With an
undisturbed intent nobody else has read the row (`Sole`), so what is seen is what is in
the table, and the row to count in is there (`Held`). Before the rows are moved the
outcomes are the hits of the earlier table (`Kept`), and the run that moves them is
alone with runs that have yet to open the database and have met nothing (`Turns`); this
is `Migrating` again, but with faults, and a run that raised there tries once more.
`EarnedInv` was first checked by TLC on the instance of `routes`. The assumption that
was added for it is that `NoTable` is not a table.

### VaultWrites

`VaultWritesProofs` proves, for any number of commands and notes, and any edits,
kills and interrupts:

| theorem | statement | about |
|---|---|---|
| `TypeCorrect` | `Spec => []TypeOK` | |
| `LockIsExclusive` | `Spec => []ExclusiveUntilBroken` | two are in the vault only after a lock was unlinked under its holder |
| `OnlyContendersBreak` | `Spec => BrokenByContender` | whoever does that was refused, or judged the holder gone |
| `NothingAcceptedIsLost` | `Spec => []AcceptedIsKept` | a text reported as written is in the vault or its trash |
| `FailureLeavesNothing` | `Spec => []AllOrNothing` | a command that failed, other than `save-group`, has left nothing, a rename of a tag that succeeded has left no old tag |

The assumptions are those the module declares: notes are numbered and finitely many,
the texts of commands, bodies, tags and links are told apart, and `None` is none of
them. For the lock the invariant is `HolderOwns`: until a lock is broken, who is past
`write_lock` is the one the lock file names, and a contender that is about to unlink
it has read its payload or failed to.

The other two are about `Quiet` behaviours, in which no lock is broken, nobody is
killed and nothing is overwritten unread, the exemptions of the properties. `Local`
says of each command what its own plan, backups and answer are; at most one command
is at work (`Busy`), and it is the only one whose `Local` may change with the files.
`KeptInv` says of every accepted text that it is in a note or in the trash, and,
where it is in a note the running command is about to replace, also in what it
writes and in the backup it would put back. `OwnInv` says which texts of its own an unfinished
command may have put where, and `TagInv` that a renamed tag is in no note of the
plan that is done. The proof corrected the model twice. With four commands a note
that is rolled back later may be moved onto a path of another plan, and a link to
the new name of a note may have been there at first; `AllOrNothing` was stated
without either case, which three commands do not reach.

### LiveLease and NotifyEmit

`NotifyEmitProofs` proves, for any rules, groups, recipients, providers, leases and
processes:

| theorem | statement | about |
|---|---|---|
| `TypeCorrect` | `Spec => []TypeOK` | emission and leases |
| `LeaseDecidesRight` | `Spec => LeaseDecides` | an approval rests on a lease that was given for that long |
| `NoAlertIsSwallowed` | `Spec => []CooldownIsEarned` | a cooldown is that of a message everybody got |

The assumptions are that groups and rules name what there is, that leases are scopes
with an end, and that bounds are numbers. `LeaseInv` has two halves. `NoneIsStretched`: every lease in
the file or in the hands of a process was given for at least as long.
`NoneIsDropped`: unless two processes met in the file (`crossed`), a lease that was
given and still lives is in the file, or with the process that is rewriting it.
`Earning` says of an emit which recipients of its rule it has reached, has yet to
ask, or has failed, so that a rule saved as delivered has reached them all.

### ServeBoard and BoardPage

`PairAndServeProofs` proves, for any threads, versions, reconciles, faults and restarts:

| theorem | statement | about |
|---|---|---|
| `ServeTypeCorrect` | `ServeSpec => []ServeTypeOK` | |
| `CacheIsNeverOlder` | `ServeSpec => []CacheIsNotOlder` | what is cached is as new as its signature |
| `StreamStepsAsPromised` | `ServeSpec => Shown!Safety` | every step is one of `BoardPage`, or leaves it alone |

`BoardInv` follows a version on its way: a signature is of the past (`Signing`), what
is built under it is at least as new (`Building`), so is what is cached (`Keeping`),
and what the stream will push is no older than what the page shows (`Streaming`).
That is the safety half of the refinement. That the last version arrives rests on
fairness and is model-checked (`StreamShowsTheBoard`).

### Tools and Views

`ToolsProofs` and `ViewsProofs` hold the theorems about the tools. For each there is an inductive
invariant, a lemma per command or step, and a theorem
`ViewsSpec => [](tool = "..." => Inv)`, or `ToolsSpec`; since a behaviour is of one tool, the
invariant of a tool is asserted only of its behaviours. The assumptions are those
of `Tools` and `Views`: bounds and timeouts are numbers, what is asked is a command,
`None` is no value, numbers and texts of cells are ordered by integers and a given
position is one a sheet has (`XlAssumption`), a promotion names at least one moment and
the stores of agent-zpc to start with hold no id twice (`ZpcAssumption`), no button is called as an option of `dialog click`
(`GuiAssumption`), a display is listed once (`ScreenAssumption`), and no fixture has both a summary for a text and a source
(`MailAssumption`).

| tool | theorem | property |
|---|---|---|
| agent-db | `SessionsInvariant`, `TransactionsDoNotEscape` | `NothingEscapes` |
| agent-excel | `WorkbooksInvariant`, `SortsLoseNothing` | `SortLosesNothing` |
| agent-zpc | `MemoriesInvariant`, `MemoryAlwaysStands` | `MemoryStands` |
| agent-appleevents | `DictionariesInvariant`, `DictionariesAreCurrent` | `AnswersAreCurrent` |
| agent-macos | `GuiInvariant`, `ApprovedActs` | `OnlyApprovedActs` |
| agent-email | `MailInvariant`, `WaitsMissNothing` | `NothingIsMissed` |
| agent-vision | `VisionInvariant`, `WatchesEndInTime` | `WatchIsInTime` |
| agent-screen | `ScreenInvariant`, `TextAlwaysWhereItWas` | `TextIsWhereItWas` |
| agent-notion | `CacheInvariant`, `TextsMoveForward` | `BlocksMoveForward` |
| agent-obsidian | `IndexInvariant`, `IndexAlwaysFollows` | `IndexFollows` |

* agent-db (`DbInv`): while no commands overlap and none is killed, the flag of an
  open transaction is in `session.json` or with the command about to rewrite it, and
  a process that sees it leaves its writes uncommitted. Without that condition: what
  a session, or a process, says of its profile was an entry of the profiles.
* agent-excel (`XlInv`): a command has in memory what it loaded, or what the operator of
  its edit makes of that. The rest is about the operators, for a sheet of any size.
  "Before" is a strict total order of the data rows (`XlBeforeOrders`), so the number of
  rows before one is its place and every place is taken once (`Ranking`, `XlSorted`):
  a sort lays each data row over one, and no two over the same (`XlLays`). A value is
  then in its column at least as often as before, since the rows that had it are
  matched with rows that have it now (`XlLaidCount`), and just as often where there is no
  blank that could keep an old one; the rows with a value in the column sorted by come
  first and are in order (`XlSortKeeps`). From that follow the extremes, and
  what find and filter find. A sum is over a set of cells in an order that `CHOOSE`
  picks. That its recursion defines a function on all sets of cells (`XlSumExists`), that any
  cell may be taken out first (`XlSumSplits`), and that two sets of cells matched one to one have
  one sum (`XlSumsMatch`) is induction over the size of a set, by the least size at which
  it fails (`LeastElement`).
* agent-zpc (`ZpInv`): a store has several versions at once: its file, and what
  commands hold that are about to replace it (`ZpVersions`). `ZpBook` says that they
  agree: a number stands for the same claim in each, known by the same id unless a
  promotion renewed it before it had one, and a line that only some have was appended
  while the others were on their way (`raced`). That rests on what `AssignIds` does to a
  file of any length: a nonce is always found (`ZpNonceFound`, by counting the ids
  taken), no two claims get one id (`ZpDiffer`), ids filled in are derived again as
  they are (`ZpFillsOnce`), and neither a line appended nor a row renewed changes the id
  of a row but its own (`ZpAppends`, `ZpRenews`). A command that runs by itself has found
  the last line to be its own, or the retraction where it has been (`ZpLone`). A
  retraction that was filed is in every version of both stores, or one store never had
  a row of that id that was older (`ZpReached`); the machine's store gets none later,
  since the id of a live row, which alone is promoted, is not one that is retracted
  (`ZpHolds`), and ids derived after a promotion name its moments. Ids are taken to be
  content and nonce: that six digits of a hash may collide is left out, as in the model.
* agent-appleevents (`AeInv`): a cache file is no older than the version in its name,
  and what a command looks for, or has found, is no older than the version at its
  start. Without `--launch` a script was compiled only for an application the command
  has seen running.
* agent-macos (`UiInv`): a command at a place where it acts has its approval; one that
  was told `--cancel` looks for a cancelling button, or for the option itself, which
  is the name of no button.
* agent-email (`EmInv`): what a query has not found has changed since the query, or was
  in a mailbox that was not there; and in every place of a wait there is a bound for
  the clock. Rows that no source was fetched for carry no summary as a text.
* agent-vision (`VsInv`): the same bounds for the time of a watch; while commands come
  one after another the session a process holds names the source that was set last.
* agent-notion (`NtInv`): a change has a time of its own, so the last of a set of
  changes exists; the tables hold only texts that were; a sync that writes holds the
  lock and has read every block after the commit before it. The row of a page is not
  ahead of its blocks: the search that gave the row its time came before the walk, and
  a block not deleted since is read with a text not older.
* agent-obsidian (`ViInv`): `ViStamps` says that a stamp, wherever it is noted (with a
  note, in the index, in what a refresh knew at its start, in what it holds or has
  written in its transaction), is the stamp of a file with the same text, since `Fresh`
  never gives one again while somebody knows it. So an equal stamp is an equal text,
  unless a text was read before the file changed (`raced`). `ViWalks` accounts for the
  paths of a refresh that nobody disturbs: one that it has behind it is in its
  transaction, or has the row it needs; one that is left is on its list. `ViFreshly`
  says the same of the index after the commit. That `Least` is in the set it picks
  from is well-founded induction (`WFMin` of the library), with the paths numbers.
* agent-screen (`ScInv`): while no display moves under a command and no snapshots of
  single displays overlap, the file of a capture shows what is at the place the capture
  was given (`ScTrue`): another snapshot of all displays may have replaced it, but its
  name says which display it is of, and that one is where it was. That both lists have
  an entry for every display, each with its own index, is `ScSorted`: the number of
  displays before one, by place and then by index, is an injection into `0..N-1`, so
  every rank is taken. The assumption is that a display is listed once
  (`ScreenAssumption`); two may be at the same place, and places may be negative.

#### agent-psql

`ToolsProofs` proves of `PsqlProfiles`, for any processes, profiles, strings, commands and
kills, on macOS and elsewhere:

| theorem | statement | about |
|---|---|---|
| `TypeCorrect` | `Spec => []TypeOK` | |
| `ProfilesInvariant` | `Spec => []ProfilesInv` | |
| `PasswordsAreBound` | `Spec => []BoundIsOwn` | a password belongs to the endpoint it was given with |
| `ConnectionsArePaired` | `Spec => []ConnectIsRight` | a connect that is not behind uses the right one |
| `NobodyIsOverwritten` | `Spec => OnlyOwnAccount` | no lost update between mutations |

The assumptions are those the module declares: strings that parse are strings,
`None` is no process, string or record, and a record that says it has no
password (`LegacyAssumption`, for the files of earlier versions) is of a string
without one.

`BoundIsOwn` is not inductive: between the Keychain and the file a mutation holds
the two together. `Mutating` says that past the lock the staged file is the
present one but for the mutation's own profile, which needs that nobody else is
at work (`Alone`), and that what an addition is about to publish has its password
stored. `Connecting` says that a connect that is not behind holds the endpoint
that is published, so that `BoundIsOwn` tells which password it reads. Strays
exist only after a child outlived its parent, where the properties are exempt.

### Only model-checked

* `JournalIsSettled`, `DriftCatchesUp` and the liveness part of `StreamShowsTheBoard`
  rest on fairness, which the prover does not handle.

## Not modelled

* `MannaSync` (order, sync and the batch rename), migration and federation of
  manna: multi-row journals of the kind `MannaPair` models for one row.
* Of coord: needs, publishes, drops, aliases, roles, the commit guard.
* Of the vault engine: a `save-group` of more than one child or with `--overwrite`,
  `prop batch`, which cannot be reached, search and ranking, canvases and bases,
  the parsing of notes. An inline task is taken for an edit of its note; that its
  line number comes from the index and may be stale by then is not modelled.
* Of notify: configuration commands, templates, and messages sent without an event.
* Of serve: the page's own script, presence and federation, the daemon file.
* Of email, macOS, vision, Excel and Notion: what their modules leave out, the
  requests to the mail program, the accessibility tree, the model that looks at
  an image and the service of Notion, each taken as an outcome that may fail.
* CI triage and the other tools: requests to external programs and services and
  the conversion of their text, one process each, with no state another process
  changes.
* Of the route cache: the score of near rows, and listing and clearing, which no
  program calls.

## Plan

1. `MannaSync`: the batch rename of the handoff presentation.
2. Composition of reconcile with the presence of `CoordPresence` instead of the
   free environment.
3. The rest of coord: needs and publishes with their dependency interrupts, drops,
   and the commit guard against foreign claims.
4. Abstract specifications: the claim of a row as a lease (free, held, finished)
   that `MannaBoard` implements, and a pair that changes atomically as long as
   nobody is killed, that `MannaPair` implements.
