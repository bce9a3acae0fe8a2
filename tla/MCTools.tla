------------------------------- MODULE MCTools -------------------------------
\* The values TLC checks Tools with.
EXTENDS Tools

CONSTANTS
    p1, p2, a1, a2, text, binary, open, bad, s1, s2,
    d1, d2, w1, w2,                     \* databases, writing statements
    x1, x2, n1, n2, n3,                 \* workbooks, sheets
    c1, c2                              \* lessons

-----------------------------------------------------------------------------
\* agent-psql: two profiles, endpoints with a text password, a binary one and
\* none, and files of today and of before the credential marker.
MCUri == {text, binary, open, bad}
MCSecretOf == [u \in MCUri |-> CASE u = text -> s1 [] u = binary -> s2 [] OTHER -> None]
MCLegacy == {[uri |-> text, password |-> "masked", mark |-> "missing"],
             [uri |-> binary, password |-> "masked", mark |-> "yes"],
             [uri |-> open, password |-> "none", mark |-> "missing"],
             [uri |-> text, password |-> "plain", mark |-> "missing"]}

-----------------------------------------------------------------------------
\* agent-db: one profile is saved at first, and one statement returns rows.
MCSaved == [n \in Account |-> IF n = a1 THEN d1 ELSE None]
DbDo(op, args) == [op : {op}, arg : args]
MCDbAsked == [p \in Proc |->
    DbDo("connect", Account) \cup DbDo("add", Account \X {d2}) \cup DbDo("query", {w1})
    \cup DbDo("disconnect", {None}) \cup
    IF p = p1 THEN DbDo("remove", {a1}) \cup DbDo("export", {None})
                   \cup DbDo("explain", {w1}) \cup DbDo("query", {w2})
                   \cup UNION {DbDo(op, {None}) : op \in {"begin", "commit", "rollback",
                               "snapshot", "describe", "sample", "count", "relations", "status"}}
    ELSE {}]

-----------------------------------------------------------------------------
\* agent-excel: two workbooks of one sheet or two and a small window; one process
\* may be given any command, the other opens, sets and saves.
Of(n) == <<"number", n>>
Label == <<"text", 1>>
Book(g, h, active) == [sheets |-> [n \in Name |-> CASE n = n1 -> g [] n = n2 -> h [] OTHER -> None],
                       active |-> active]
Sheet1 == <<<<Label, Of(1)>>, <<Of(2), Label>>, <<None, Of(1)>>, <<Of(1), None>>>>
Sheet2 == <<<<Label, Label>>, <<None, Of(2)>>, <<Of(1), None>>, <<Of(2), Of(1)>>>>
MCXlGiven == {Book(Sheet1, None, n1), Book(Sheet1, Sheet2, n2)}
Edits == {[op |-> "edit", e |-> e] : e \in
    {[do |-> "set", cell |-> <<2, 1>>, v |-> Of(1)],
     [do |-> "block", cell |-> <<2, 1>>, block |-> <<<<Of(1), Of(2)>>, <<None>>>>],
     [do |-> "fill", range |-> <<<<1, 1>>, <<2, 2>>>>, v |-> Of(2)],
     [do |-> "replace", old |-> 1, new |-> 2], [do |-> "format"]}
    \cup {[do |-> d, range |-> <<<<2, 1>>, <<3, 1>>>>] : d \in {"clear", "merge"}}
    \cup {[do |-> d, index |-> i, count |-> 1] : i \in {1, 2},
            d \in {"insert rows", "insert cols", "delete rows", "delete cols"}}
    \cup {[do |-> "sort", col |-> c, desc |-> d] : c \in 1..2, d \in BOOLEAN}}
Sheets == {[op |-> "sheet", e |-> [do |-> d, name |-> n, to |-> to]] :
                d \in {"rename", "copy"}, n \in {n1, n3}, to \in {n1, n2}}
            \cup {[op |-> "sheet", e |-> [do |-> d, name |-> n, to |-> n]] :
                d \in {"new", "delete", "switch"}, n \in {n1, n2}}
Files == {[op |-> "open", path |-> x] : x \in {x1, x2}}
           \cup {[op |-> "save", path |-> x] : x \in {None, x2}}
           \cup {[op |-> "new", path |-> x2], [op |-> "read"], [op |-> "close"]}
MCXlAsked == [p \in Proc |-> IF p = p1 THEN Files \cup Edits \cup Sheets
    ELSE {c \in Files \cup Edits :
            c.op \in {"open", "save", "close"} \/ (c.op = "edit" /\ c.e.do = "set")}]

-----------------------------------------------------------------------------
\* agent-zpc: two lessons about one problem; the project may hold a line that nobody
\* can read, or nothing yet, the machine a copy from before ids and triggers.
MCProblem == [l \in {c1, c2} |-> c1]
Row(c, n) == [kind |-> "claim", id |-> None, lesson |-> c, fires |-> {}, n |-> n]
MCZpcGiven == {[project |-> <<Row(c1, 1), [kind |-> "unreadable", n |-> 2]>>, global |-> <<>>],
               [project |-> <<Row(c1, 1)>>, global |-> <<Row(c1, 2)>>],
               [project |-> <<Row(c1, 1), Row(c2, 2)>>, global |-> <<>>],
               [project |-> <<>>, global |-> <<Row(c1, 1)>>]}
=============================================================================
