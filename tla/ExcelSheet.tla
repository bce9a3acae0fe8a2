----------------------------- MODULE ExcelSheet -----------------------------
(***************************************************************************)
(* What agent-excel's commands do to one sheet in memory                   *)
(* (src/tools/agent-excel/excel_ops.py): a sheet is a window of rows and   *)
(* columns, row 1 its header, a cell a number, a text or None.  An operator*)
(* per command; a command that raises gives Fail.  Left out are formats,   *)
(* the width of columns and that merged cells stay merged; rows pushed out *)
(* of the window are gone.                                                 *)
(***************************************************************************)
EXTENDS Integers, Sequences, FiniteSets

CONSTANTS
    MaxRow,     \* bound: the rows of the window
    MaxCol,     \* bound: its columns
    Numbers,    \* the numbers cells hold
    Preview,    \* how many rows after the headers a snapshot shows
    Texts,      \* the texts they hold, told apart and ordered by a number
    Fail,       \* what a command that raises gives
    None

Row == 1..MaxRow
Col == 1..MaxCol
Value == ({"number"} \X Numbers) \cup ({"text"} \X Texts)
Cell == Value \cup {None}
Sheet == [Row -> [Col -> Cell]]
Empty == [c \in Col |-> None]
Position == Row \X Col
Range == Position \X Position

\* parse_range and the two loops: a range with its corners swapped is empty.
Cells(rg) == {p \in Position : rg[1][1] <= p[1] /\ p[1] <= rg[2][1]
                            /\ rg[1][2] <= p[2] /\ p[2] <= rg[2][2]}

CellAt(g, p) == g[p[1]][p[2]]
Where(g, Test(_)) == {p \in Position : Test(CellAt(g, p))}
\* ws.max_row of a sheet that was just loaded: the last row with a cell.
LastRow(g) == CHOOSE n \in 0..MaxRow :
    /\ n = 0 \/ g[n] # Empty
    /\ \A r \in Row : r > n => g[r] = Empty

Put(g, ps, Val(_)) ==
    [r \in Row |-> [c \in Col |-> IF <<r, c>> \in ps THEN Val(<<r, c>>) ELSE g[r][c]]]

\* cmd_set with one value (a formula too), cmd_fill, cmd_clear.
SetCell(g, p, v) == Put(g, {p}, LAMBDA q : v)
Fill(g, rg, v) == Put(g, Cells(rg), LAMBDA q : v)
Clear(g, rg) == Fill(g, rg, None)

\* ws.cell(row, column, value): a value is assigned, None leaves what is there.
Laid(v, old) == IF v = None THEN old ELSE v

\* cmd_set with a list of rows: laid down from the first cell, whatever the
\* size of the range that was named; a null in it clears nothing.
SetBlock(g, p, block) ==
    Put(g, {q \in Position : /\ q[1] - p[1] \in 0..(Len(block) - 1) /\ q[1] >= p[1]
                             /\ q[2] - p[2] \in 0..(Len(block[q[1] - p[1] + 1]) - 1)
                             /\ q[2] >= p[2]},
        LAMBDA q : Laid(block[q[1] - p[1] + 1][q[2] - p[2] + 1], CellAt(g, q)))

\* cmd_insert, cmd_delete.
InsertRows(g, at, n) ==
    [r \in Row |-> IF r < at THEN g[r] ELSE IF r < at + n THEN Empty ELSE g[r - n]]
DeleteRows(g, at, n) ==
    [r \in Row |-> IF r < at THEN g[r] ELSE IF r + n \in Row THEN g[r + n] ELSE Empty]
InsertCols(g, at, n) ==
    [r \in Row |-> [c \in Col |-> IF c < at THEN g[r][c]
                                  ELSE IF c < at + n THEN None ELSE g[r][c - n]]]
DeleteCols(g, at, n) ==
    [r \in Row |-> [c \in Col |-> IF c < at THEN g[r][c]
                                  ELSE IF c + n \in Col THEN g[r][c + n] ELSE None]]

\* cmd_replace: of one text by another, in text cells.
Replace(g, old, new) ==
    Put(g, Where(g, LAMBDA v : v = <<"text", old>>), LAMBDA q : <<"text", new>>)

\* cmd_merge: only the first cell keeps its value.
Merge(g, rg) == Put(g, Cells(rg) \ {rg[1]}, LAMBDA q : None)

-----------------------------------------------------------------------------
\* cmd_find: cells that hold the text; Col, or one column.
Find(g, text, cols) == {p \in Where(g, LAMBDA v : v = <<"text", text>>) : p[2] \in cols}

\* cmd_get: of a cell or a range.
Get(g, rg) == [p \in Cells(rg) |-> CellAt(g, p)]

\* cmd_snapshot: the range that is used, its first row as headers (one without
\* a value is shown by its column) and the few rows after it; of an empty sheet
\* the first cell.
Used(g) ==
    LET ps == Where(g, LAMBDA v : v # None)
        least(i) == CHOOSE n \in {p[i] : p \in ps} : \A p \in ps : n <= p[i]
        most(i) == CHOOSE n \in {p[i] : p \in ps} : \A p \in ps : p[i] <= n
    IN IF ps = {} THEN <<<<1, 1>>, <<1, 1>>>> ELSE <<<<least(1), least(2)>>, <<most(1), most(2)>>>>
Snapshot(g) ==
    LET rg == Used(g)
        last == IF rg[2][1] <= rg[1][1] + Preview THEN rg[2][1] ELSE rg[1][1] + Preview
    IN [range |-> rg,
        headers |-> Get(g, <<rg[1], <<rg[1][1], rg[2][2]>>>>),
        preview |-> Get(g, <<<<rg[1][1] + 1, rg[1][2]>>, <<last, rg[2][2]>>>>)]

Comparable(v, w) == v[1] = w[1]
Less(v, w) == v[2] < w[2]

\* cmd_filter: the data rows whose cell in the column passes the test; a
\* comparison of a text with a number raises.
Tests == {"=", "!=", "<", ">", "<=", ">=", "empty", "notempty"}
Passes(v, op, w) ==
    CASE op = "=" -> v = w
      [] op = "!=" -> v # w
      [] op = "<" -> v # None /\ Less(v, w)
      [] op = ">" -> v # None /\ Less(w, v)
      [] op = "<=" -> v # None /\ ~Less(w, v)
      [] op = ">=" -> v # None /\ ~Less(v, w)
      [] op = "empty" -> v = None
      [] op = "notempty" -> v # None
Data(g) == 2..LastRow(g)
Filter(g, col, op, w) ==
    IF /\ op \in {"<", ">", "<=", ">="}
       /\ \E r \in Data(g) : g[r][col] # None /\ ~Comparable(g[r][col], w)
    THEN Fail ELSE {r \in Data(g) : Passes(g[r][col], op, w)}

\* cmd_sort: the key of a row is (1, "") without a value and (0, value) with
\* one, and the order is stable both ways; a mixed column raises, and one beyond
\* the last that is used.  The sorted rows are laid over the data rows, so a
\* blank of a sorted row keeps what stood in its place.
KeyLessBlankFirst(v, w) == \/ v = None /\ w # None     \* a mutant
                           \/ v # None /\ w # None /\ Less(v, w)
KeyLess(v, w) == \/ v # None /\ w = None
                 \/ v # None /\ w # None /\ Less(v, w)
Sort(g, col, desc) ==
    LET key(r) == g[r][col]
        before(r, s) == \/ IF desc THEN KeyLess(key(s), key(r)) ELSE KeyLess(key(r), key(s))
                        \/ r < s /\ ~KeyLess(key(r), key(s)) /\ ~KeyLess(key(s), key(r))
        place(r) == 2 + Cardinality({s \in Data(g) : before(s, r)})
        sorted(k) == g[CHOOSE r \in Data(g) : place(r) = k]
        mixed == \E r, s \in Data(g) : key(r) # None /\ key(s) # None /\ ~Comparable(key(r), key(s))
        beyond == Data(g) # {} /\ \A r \in Row, c \in Col : c >= col => g[r][c] = None
    IN IF mixed \/ beyond THEN Fail
       ELSE [k \in Row |-> IF k \in Data(g) THEN [c \in Col |-> Laid(sorted(k)[c], g[k][c])]
                                            ELSE g[k]]

-----------------------------------------------------------------------------
\* cmd_sum, cmd_avg, cmd_count, cmd_max, cmd_min over a range; an average of
\* nothing is 0 and a maximum of nothing None.
NumbersIn(g, rg) == {p \in Cells(rg) : CellAt(g, p) # None /\ CellAt(g, p)[1] = "number"}
Sum(g, rg) ==
    LET sum[ps \in SUBSET Position] ==
            IF ps = {} THEN 0
            ELSE LET p == CHOOSE q \in ps : TRUE IN CellAt(g, p)[2] + sum[ps \ {p}]
    IN sum[NumbersIn(g, rg)]
Average(g, rg) == [total |-> Sum(g, rg), over |-> Cardinality(NumbersIn(g, rg))]
Count(g, rg) == Cardinality({p \in Cells(rg) : CellAt(g, p) # None})
Largest(g, rg) ==
    LET s == {CellAt(g, p)[2] : p \in NumbersIn(g, rg)}
    IN IF s = {} THEN None ELSE CHOOSE x \in s : \A y \in s : y <= x
Smallest(g, rg) ==
    LET s == {CellAt(g, p)[2] : p \in NumbersIn(g, rg)}
    IN IF s = {} THEN None ELSE CHOOSE x \in s : \A y \in s : x <= y
=============================================================================
