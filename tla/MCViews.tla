------------------------------- MODULE MCViews -------------------------------
\* The values TLC checks Views with.
EXTENDS Views, TLC

CONSTANTS
    r1, r2, plain, linking,
    p1, p2,
    g1, b1, b2,             \* a page and its blocks
    c1, c2, agree, cancel,     \* applications, buttons
    e1, e2,                 \* displays
    face, word, cam, still  \* what a frame shows, sources

\* Of the tools in Tools none is picked.
MCNothing == [x \in {} |-> None]
MCDbNothing == [p \in Proc |-> {}]

-----------------------------------------------------------------------------
\* The index of a vault: two notes that may link to the second one, which is
\* missing at first.
MCPath == 1..2
MCLinksOf == [t \in Text |-> IF t = linking THEN {2} ELSE {}]
MCInitial == [p \in MCPath |-> IF p = 1 THEN linking ELSE None]
Symmetry == Permutations(Indexer)
\* A bound: the last command is given while no other runs.
LastIsAlone ==
    (tool = "vault" /\ viCommands = NoteCommands) =>
        \E r \in Indexer : \A s \in Indexer \ {r} : viPc[s] = "idle"

-----------------------------------------------------------------------------
\* agent-notion: a page of two blocks.
MCPageOf == [b \in Block |-> g1]

-----------------------------------------------------------------------------
\* agent-macos: two applications and two dialogs; one process may be given any
\* command, the other a few that meet it.
MCDialogs == {<<cancel, agree>>, <<agree>>}
UiDo(ops, args) == [op : ops, arg : args]
MCUiAsked == [p \in Proc |->
    UiDo({"focus"}, {c1}) \cup IF p = p2 THEN {} ELSE
    UiDo({"dialog click"}, {"default", "cancel"}) \cup UiDo({"snapshot"}, {c1})
    \cup UiDo({"open", "quit", "maximize", "move"}, {c2}) \cup UiDo({"screenshot"}, {None, c2})
    \cup UiDo({"click", "get", "apps", "reset", "find", "wait label", "wait window", "type",
               "keys", "menu", "clipboard set"}, {None})]

-----------------------------------------------------------------------------
\* agent-screen: two displays, the first one on the right, on the left or alone,
\* and the second with two pixels per point.
MCScale == [e \in Display |-> IF e = e1 THEN 1 ELSE 2]
MCArrangement == {<<[id |-> e1, x |-> 4], [id |-> e2, x |-> 0]>>,
                  <<[id |-> e1, x |-> 0], [id |-> e2, x |-> 4]>>, <<[id |-> e1, x |-> 0]>>}
ScDo(ops, ds) == [op : ops, display : ds, text : {e1}]
MCScAsked == [p \in Proc |-> ScDo({"snapshot"}, {None}) \cup
    IF p = p2 THEN {} ELSE ScDo({"snapshot", "elements"}, {2}) \cup ScDo({"describe"}, {1})
    \cup ScDo({"displays", "cursor", "status", "click", "click text", "find"}, {None})]

-----------------------------------------------------------------------------
\* agent-vision: a webcam that may not open and a window; a face or a word is
\* there or not; a capture is cut off after one unit of time.
VsDo(ops, args) == [op : ops, arg : args, kind : {None}, timeout : {0}]
VsWatch(kinds, arg) == [op : {"watch"}, arg : {arg}, kind : kinds, timeout : {1}]
MCVsAsked == [p \in Proc |-> VsDo({"source"}, {cam}) \cup VsDo({"snapshot"}, {None}) \cup
    IF p = p2 THEN VsDo({"face learn"}, {face}) ELSE
    VsWatch({"face"}, face) \cup VsWatch({"motion", "enter", "text"}, word)
    \cup VsDo({"source"}, {still}) \cup VsDo({"disconnect", "status", "ocr"}, {None})
    \cup [op : {"record"}, arg : {word}, kind : {"until"}, timeout : {1}]]

-----------------------------------------------------------------------------
\* agent-appleevents: one application that may be updated, and another.
AeDo(ops, apps, launches, refreshes) == [op : ops, app : apps, launch : launches, refresh : refreshes]
MCAeAsked == [p \in Proc |->
    AeDo({"dictionary"}, {c1}, {FALSE}, {FALSE}) \cup IF p = p2
    THEN AeDo({"cache clear"}, {None}, {FALSE}, {FALSE})
    ELSE AeDo({"dictionary"}, {c1}, {FALSE}, {TRUE}) \cup
    AeDo({"tell"}, {c2}, BOOLEAN, {FALSE}) \cup AeDo({"permissions"}, {c2}, {FALSE}, {FALSE}) \cup AeDo({"dictionary raw"}, {c1}, {FALSE}, {FALSE})
    \cup AeDo({"run", "apps"}, {None}, {FALSE}, {FALSE}) \cup AeDo({"cache clear"}, {c1}, {FALSE}, {FALSE})]

-----------------------------------------------------------------------------
\* agent-email: two messages, the second one in another mailbox.
MCRemote == <<"no text", "text">>
MCFixture == <<[body |-> "full", source |-> FALSE, unread |-> TRUE],
               [body |-> "none", source |-> TRUE, unread |-> FALSE]>>
EmDo(ops, fixtures, filters, alls) == [op : ops, fixture : fixtures, filter : filters, all : alls,
    limit : {1}, exclude : {{}}, timeout : {2}, interval : {2}]
EmExport(formats) == [op : {"export"}, fixture : BOOLEAN, all : {TRUE}, id : 1..2,
    format : formats, allow : BOOLEAN]
MCEmAsked == [p \in Reader |->
    EmDo({"wait"}, {FALSE}, {"unread", "contains"}, BOOLEAN) \cup EmDo({"search", "status"}, {FALSE}, {None}, {TRUE})
    \cup EmDo({"code"}, {TRUE}, {"contains"}, {FALSE}) \cup EmExport({"json", "eml", "txt"})]
=============================================================================
