------------------------------- MODULE Vt100 -------------------------------
(***************************************************************************)
(* The terminal emulator of src/src/vt100: cells, rows, the grid with its  *)
(* scroll region and scrollback, and the screen that executes the control  *)
(* functions.  Everything here is a function of a screen; Terminal.tla     *)
(* holds the state.                                                        *)
(*                                                                         *)
(* The byte stream is a sequence of control functions (records with a      *)
(* field f).  A character is a string whose width is given by Wide and     *)
(* Marks; drawing attributes are a function from the attribute fields to   *)
(* their values, 0 being the default.  Rows and columns start at 0, as in  *)
(* the code, sequences at 1.                                               *)
(***************************************************************************)
EXTENDS Integers, SequencesExt

CONSTANTS
    Fields,        \* colours, intensity, italic, underline, inverse
    Wide,          \* characters of width 2
    Marks,         \* combining characters, of width 0
    Undrawable,    \* characters print() or text() ignores
    CellCapacity   \* characters a cell holds (18 bytes in the code)

\* A blank is as wide as the cell it fills.
ASSUME CellAssumption == CellCapacity \in Nat \ {0, 1} /\ " " \notin Wide \cup Marks

Width(c) == IF c \in Wide THEN 2 ELSE IF c \in Marks THEN 0 ELSE 1
NoAttrs == [f \in Fields |-> 0]
Sat(n) == IF n < 0 THEN 0 ELSE n
AtMost(a, b) == IF a <= b THEN a ELSE b
Suffix(s, n) == SubSeq(s, Len(s) - n + 1, Len(s))

-----------------------------------------------------------------------------
(* Cells.                                                                  *)

CellClear(a) == [text |-> <<>>, wide |-> FALSE, cont |-> FALSE, attrs |-> a]
CellNew == CellClear(NoAttrs)
CellSet(c, a) == [text |-> <<c>>, wide |-> Width(c) > 1, cont |-> FALSE, attrs |-> a]
CellAppend(cell, c) ==
    IF Len(cell.text) >= CellCapacity THEN cell
    ELSE [cell EXCEPT !.text = (IF @ = <<>> THEN <<" ">> ELSE @) \o <<c>>]

-----------------------------------------------------------------------------
(* Rows: cells, and whether the text goes on in the next row.              *)

RowNew(cols) == [cells |-> [i \in 1 .. cols |-> CellNew], wrapped |-> FALSE]
RowClear(r, a) == [cells |-> [i \in DOMAIN r.cells |-> CellClear(a)], wrapped |-> FALSE]
Wrap(r, w) == [r EXCEPT !.wrapped = w]

\* Mutant of ClearWide: the second half of a wide character is left behind.
ClearWideFirstOnly(r, i) ==
    IF i < Len(r.cells) /\ r.cells[i + 1].cont /\ i > 0
    THEN [r EXCEPT !.cells[i] = CellClear(@.attrs)] ELSE r

\* The other half of the wide character at column i becomes blank.
ClearWide(r, i) ==
    IF i >= Len(r.cells) THEN r
    ELSE LET cell == r.cells[i + 1]
             other == IF cell.wide THEN i + 1 ELSE IF cell.cont THEN i - 1 ELSE -1
         IN  IF other \in 0 .. Len(r.cells) - 1
             THEN [r EXCEPT !.cells[other + 1] = CellClear(@.attrs)] ELSE r

RowInsert(r, i, cell) == [cells |-> InsertAt(r.cells, i + 1, cell), wrapped |-> FALSE]
RowRemoveCell(r, i) == [cells |-> RemoveAt(ClearWide(r, i).cells, i + 1), wrapped |-> FALSE]

RowErase(r, i, a) ==
    [cells |-> [ClearWide(r, i).cells EXCEPT ![i + 1] = CellClear(a)],
     wrapped |-> /\ r.wrapped
                 /\ i # Sat(Len(r.cells) - (IF r.cells[i + 1].wide THEN 2 ELSE 1))]

RowEraseCols(r, from, to, a) ==
    LET n == Sat(to - from)
        row[k \in 0 .. n] == IF k = 0 THEN r ELSE RowErase(row[k - 1], from + k - 1, a)
    IN  row[n]

RowTruncate(r, n) ==
    LET kept == SubSeq(r.cells, 1, n)
    IN  [cells |-> IF n > 0 /\ kept[n].wide
                   THEN [kept EXCEPT ![n] = CellClear(@.attrs)] ELSE kept,
         wrapped |-> FALSE]

RowResize(r, n) ==
    IF n < Len(r.cells) THEN RowTruncate(r, n)
    ELSE [cells |-> r.cells \o [i \in 1 .. n - Len(r.cells) |-> CellNew], wrapped |-> FALSE]

-----------------------------------------------------------------------------
(* The grid.                                                               *)

Origin == [row |-> 0, col |-> 0]

GridNew(rows, cols, limit) ==
    [rows |-> rows, cols |-> cols, pos |-> Origin, saved_pos |-> Origin, lines |-> <<>>,
     scroll_top |-> 0, scroll_bottom |-> rows - 1, origin_mode |-> FALSE,
     saved_origin_mode |-> FALSE, scrollback |-> <<>>, scrollback_len |-> limit,
     scrollback_offset |-> 0]

AllocateRows(g) ==
    IF g.lines # <<>> THEN g
    ELSE [g EXCEPT !.lines = [i \in 1 .. g.rows |-> RowNew(g.cols)]]

GridClear(g) ==
    [g EXCEPT !.pos = Origin, !.saved_pos = Origin,
              !.lines = [i \in DOMAIN @ |-> RowClear(@[i], NoAttrs)],
              !.scroll_top = 0, !.scroll_bottom = g.rows - 1,
              !.origin_mode = FALSE, !.saved_origin_mode = FALSE]

SaveCursor(g) == [g EXCEPT !.saved_pos = g.pos, !.saved_origin_mode = g.origin_mode]
RestoreCursor(g) == [g EXCEPT !.pos = g.saved_pos, !.origin_mode = g.saved_origin_mode]
SetScrollback(g, n) == [g EXCEPT !.scrollback_offset = AtMost(n, Len(g.scrollback))]

VisibleRows(g) ==
    LET history == Suffix(g.scrollback, g.scrollback_offset)
    IN  SubSeq(history, 1, AtMost(Len(history), Len(g.lines)))
          \o SubSeq(g.lines, 1, Sat(Len(g.lines) - g.scrollback_offset))

CurrentRow(g) == g.lines[g.pos.row + 1]
SetCurrentRow(g, r) == [g EXCEPT !.lines[g.pos.row + 1] = r]
InScrollRegion(g) == g.pos.row >= g.scroll_top /\ g.pos.row <= g.scroll_bottom
ScrollRegionActive(g) == g.scroll_top # 0 \/ g.scroll_bottom # g.rows - 1

RowClampTop(g, region) ==
    IF region /\ g.pos.row < g.scroll_top THEN [g EXCEPT !.pos.row = g.scroll_top] ELSE g
RowClampBottom(g, region) ==
    [g EXCEPT !.pos.row = AtMost(@, IF region THEN g.scroll_bottom ELSE g.rows - 1)]
RowClamp(g) == [g EXCEPT !.pos.row = AtMost(@, g.rows - 1)]
ColClamp(g) == [g EXCEPT !.pos.col = AtMost(@, g.cols - 1)]

\* Rows that appear are blank; the scrollback keeps the width it had.
SetSize(g, rows, cols) ==
    LET follow == IF g.scroll_bottom = g.rows - 1 THEN rows - 1 ELSE g.scroll_bottom
        bottom == AtMost(follow, rows - 1)
        sized == [g EXCEPT
            !.rows = rows, !.cols = cols,
            !.lines = [i \in 1 .. rows |-> IF i <= Len(g.lines) THEN RowResize(g.lines[i], cols)
                                           ELSE RowNew(cols)],
            !.scroll_bottom = bottom,
            !.scroll_top = IF bottom < @ THEN 0 ELSE @,
            !.saved_pos = [row |-> AtMost(@.row, rows - 1), col |-> AtMost(@.col, cols - 1)]]
    IN  ColClamp(RowClampBottom(RowClampTop(sized, FALSE), FALSE))

SetPos(g, row, col) ==
    LET at == [g EXCEPT !.pos = [row |-> IF g.origin_mode THEN row + g.scroll_top ELSE row,
                                 col |-> col]]
    IN  ColClamp(RowClampBottom(RowClampTop(at, g.origin_mode), g.origin_mode))

EraseAll(g, a) == [g EXCEPT !.lines = [i \in DOMAIN @ |-> RowClear(@[i], a)]]
EraseRow(g, a) == SetCurrentRow(g, RowClear(CurrentRow(g), a))
EraseRowForward(g, a) ==
    SetCurrentRow(g, RowEraseCols(CurrentRow(g), g.pos.col, g.cols, a))
EraseRowBackward(g, a) ==
    SetCurrentRow(g, RowEraseCols(CurrentRow(g), 0, AtMost(g.pos.col, g.cols - 1) + 1, a))
EraseAllForward(g, a) ==
    EraseRowForward([g EXCEPT !.lines = [i \in DOMAIN @ |->
        IF i > g.pos.row + 1 THEN RowClear(@[i], a) ELSE @[i]]], a)
EraseAllBackward(g, a) ==
    EraseRowBackward([g EXCEPT !.lines = [i \in DOMAIN @ |->
        IF i < g.pos.row + 1 THEN RowClear(@[i], a) ELSE @[i]]], a)
EraseCells(g, n, a) ==
    SetCurrentRow(g, RowEraseCols(CurrentRow(g), g.pos.col, AtMost(g.pos.col + n, g.cols), a))

\* On a second half, the inserted cell takes over as the second half.
InsertCells(g, n) ==
    LET c == g.pos.col
        half == c < g.cols /\ CurrentRow(g).cells[c + 1].cont
        Insert(r) ==
            IF half THEN RowInsert([r EXCEPT !.cells[c + 1].cont = FALSE], c,
                                   [CellNew EXCEPT !.cont = TRUE])
            ELSE RowInsert(r, c, CellNew)
        row[k \in 0 .. n] == IF k = 0 THEN CurrentRow(g) ELSE Insert(row[k - 1])
    IN  SetCurrentRow(g, RowTruncate(row[n], g.cols))

DeleteCells(g, n) ==
    LET m == AtMost(n, g.cols - g.pos.col)
        row[k \in 0 .. m] == IF k = 0 THEN CurrentRow(g) ELSE RowRemoveCell(row[k - 1], g.pos.col)
    IN  SetCurrentRow(g, RowResize(row[m], g.cols))

\* Remove the bottom row of the region, and insert a blank one at row `at'.
ShiftDown(g, at, n) ==
    LET Once(all) ==
            LET moved == InsertAt(RemoveAt(all, g.scroll_bottom + 1), at + 1, RowNew(g.cols))
            IN  [moved EXCEPT ![g.scroll_bottom + 1] = Wrap(@, FALSE)]
        lines[k \in 0 .. n] == IF k = 0 THEN g.lines ELSE Once(lines[k - 1])
    IN  [g EXCEPT !.lines = lines[n]]

InsertLines(g, n) == ShiftDown(g, g.pos.row, n)
ScrollDown(g, n) == ShiftDown(g, g.scroll_top, n)

DeleteLines(g, n) ==
    LET m == AtMost(n, g.rows - g.pos.row)
        Once(all) == RemoveAt(InsertAt(all, g.scroll_bottom + 2, RowNew(g.cols)), g.pos.row + 1)
        lines[k \in 0 .. m] == IF k = 0 THEN g.lines ELSE Once(lines[k - 1])
    IN  [g EXCEPT !.lines = lines[m]]

\* The row that leaves at the top goes to the scrollback, unless a scroll
\* region is set; a view into the scrollback keeps showing the same rows.
ScrollUp(g, n) ==
    LET Once(h) ==
            LET rest == RemoveAt(InsertAt(h.lines, h.scroll_bottom + 2, RowNew(h.cols)),
                                 h.scroll_top + 1)
                history == Append(h.scrollback, h.lines[h.scroll_top + 1])
                kept == SubSeq(history, Sat(Len(history) - h.scrollback_len) + 1, Len(history))
            IN  IF h.scrollback_len > 0 /\ ~ScrollRegionActive(h)
                THEN [h EXCEPT !.lines = rest, !.scrollback = kept,
                               !.scrollback_offset = IF @ > 0 THEN AtMost(Len(kept), @ + 1) ELSE 0]
                ELSE [h EXCEPT !.lines = rest]
        m == AtMost(n, g.rows - g.scroll_top)
        grid[k \in 0 .. m] == IF k = 0 THEN g ELSE Once(grid[k - 1])
    IN  grid[m]

SetScrollRegion(g, top, bot) ==
    LET bottom == AtMost(bot, g.rows - 1)
        t == IF top < bottom THEN top ELSE 0
    IN  [g EXCEPT !.scroll_top = t,
                  !.scroll_bottom = IF top < bottom THEN bottom ELSE g.rows - 1,
                  !.pos = [row |-> t, col |-> 0]]

SetOriginMode(g, on) == SetPos([g EXCEPT !.origin_mode = on], 0, 0)

RowIncClamp(g, n) == RowClampBottom([g EXCEPT !.pos.row = @ + n], InScrollRegion(g))
RowDecClamp(g, n) == RowClampTop([g EXCEPT !.pos.row = Sat(@ - n)], InScrollRegion(g))

\* The rows that do not fit scroll the region; outside of it nothing scrolls.
RowIncScroll(g, n) ==
    LET down == [g EXCEPT !.pos.row = @ + n]
        held == RowClampBottom(down, InScrollRegion(g))
    IN  IF InScrollRegion(g) THEN ScrollUp(held, down.pos.row - held.pos.row) ELSE held

RowDecScroll(g, n) ==
    LET up == [g EXCEPT !.pos.row = Sat(@ - n)]
        held == RowClampTop(up, InScrollRegion(g))
    IN  ScrollDown(held, (held.pos.row - up.pos.row) + Sat(n - g.pos.row))

RowSet(g, i) == RowClamp([g EXCEPT !.pos.row = i])
ColIncClamp(g, n) == ColClamp([g EXCEPT !.pos.col = @ + n])
ColDec(g, n) == [g EXCEPT !.pos.col = Sat(@ - n)]
ColTab(g) == ColClamp([g EXCEPT !.pos.col = @ - (@ % 8) + 8])
ColSet(g, i) == ColClamp([g EXCEPT !.pos.col = i])

\* Before a character of this width is drawn: go on in the next row if it does
\* not fit.  The row is marked first, because it may scroll into the history.
ColWrap(g, width, wrap) ==
    IF g.pos.col <= Sat(g.cols - width) THEN g
    ELSE LET next == RowIncScroll([SetCurrentRow(g, Wrap(CurrentRow(g), wrap))
                                     EXCEPT !.pos.col = 0], 1)
             scrolled == InScrollRegion(g) /\ g.pos.row = g.scroll_bottom
         IN  IF ~scrolled /\ next.pos.row = g.pos.row
             THEN SetCurrentRow(next, Wrap(CurrentRow(next), FALSE)) ELSE next

-----------------------------------------------------------------------------
(* The screen: the grid and the alternate grid, attributes and modes.      *)

ScreenNew(rows, cols, limit) ==
    [grid |-> AllocateRows(GridNew(rows, cols, limit)), alternate |-> GridNew(rows, cols, 0),
     attrs |-> NoAttrs, saved_attrs |-> NoAttrs, modes |-> {},
     mouse |-> "none", encoding |-> "default"]

G(s) == IF "alternate" \in s.modes THEN s.alternate ELSE s.grid
WithG(s, g) ==
    IF "alternate" \in s.modes THEN [s EXCEPT !.alternate = g] ELSE [s EXCEPT !.grid = g]

ScreenSetSize(s, rows, cols) ==
    [s EXCEPT !.grid = SetSize(@, rows, cols), !.alternate = SetSize(@, rows, cols)]

EnterAlternate(s) ==
    LET left == WithG(s, SetScrollback(G(s), 0))
    IN  [left EXCEPT !.modes = @ \cup {"alternate"}, !.alternate = AllocateRows(@)]
ExitAlternate(s) == [s EXCEPT !.modes = @ \ {"alternate"}]
Decsc(s) == [WithG(s, SaveCursor(G(s))) EXCEPT !.saved_attrs = s.attrs]
Decrc(s) == [WithG(s, RestoreCursor(G(s))) EXCEPT !.attrs = s.saved_attrs]

\* A combining character goes to the character before the cursor, which may
\* be in the wrapped row above; a wide character holds it in its first half.
Combine(g, c) ==
    LET FirstHalf(row, col) ==
            IF g.lines[row + 1].cells[col + 1].cont THEN col - 1 ELSE col
        Into(row, col) == [g EXCEPT !.lines[row + 1].cells[FirstHalf(row, col) + 1] = CellAppend(@, c)]
    IN  IF g.pos.col > 0 THEN Into(g.pos.row, g.pos.col - 1)
        ELSE IF g.pos.row > 0 /\ g.lines[g.pos.row].wrapped THEN Into(g.pos.row - 1, g.cols - 1)
        ELSE g

\* A character replaces the cells under it; a wide character it cuts in two
\* loses its other half.
PutChar(g, c, w, a) ==
    LET p == g.pos.col + 1
        row == CurrentRow(g)
        left == IF row.cells[p].cont THEN [row.cells EXCEPT ![p - 1] = CellClear(a)] ELSE row.cells
        right == IF left[p].wide THEN [left EXCEPT ![p + 1] = CellSet(" ", a)] ELSE left
        put == [right EXCEPT ![p] = CellSet(c, a)]
        cut == w > 1 /\ put[p + 1].wide
        freed == IF cut THEN [put EXCEPT ![p + 2] = CellClear(a)] ELSE put
        cells == IF w > 1 THEN [freed EXCEPT ![p + 1] = [CellNew EXCEPT !.cont = TRUE]] ELSE freed
    IN  [SetCurrentRow(g, [cells |-> cells,
                           wrapped |-> row.wrapped /\ ~(cut /\ p + 1 = g.cols - 1)])
           EXCEPT !.pos.col = @ + w]

\* text(): a character too wide for the screen is dropped; otherwise wrap if it
\* does not fit (softly, if text or a wide character's padding ends the row).
Text(s, c) ==
    LET g == G(s)
        w == Width(c)
        last == CurrentRow(g).cells[g.cols]
        soft == g.pos.col > g.cols - w /\ (last.text # <<>> \/ last.cont \/ w > 1)
        at == ColWrap(g, w, soft)
    IN  IF c \in Undrawable \/ w > g.cols THEN s
        ELSE WithG(s, IF w = 0 THEN Combine(at, c) ELSE PutChar(at, c, w, s.attrs))

MouseMode(p) ==
    CASE p = 9 -> "press" [] p = 1000 -> "press_release"
      [] p = 1002 -> "button_motion" [] p = 1003 -> "any_motion" [] OTHER -> "none"
MouseEncoding(p) == CASE p = 1005 -> "utf8" [] p = 1006 -> "sgr" [] OTHER -> "default"

Decset(s, p) ==
    CASE p = 1 -> [s EXCEPT !.modes = @ \cup {"cursor_keys"}]
      [] p = 6 -> WithG(s, SetOriginMode(G(s), TRUE))
      [] p = 25 -> [s EXCEPT !.modes = @ \ {"hide_cursor"}]
      [] p = 47 -> EnterAlternate(s)
      [] p = 1049 -> LET saved == Decsc(s)
                     IN  EnterAlternate([saved EXCEPT !.alternate = GridClear(@)])
      [] p = 2004 -> [s EXCEPT !.modes = @ \cup {"bracketed_paste"}]
      [] MouseMode(p) # "none" -> [s EXCEPT !.mouse = MouseMode(p)]
      [] MouseEncoding(p) # "default" -> [s EXCEPT !.encoding = MouseEncoding(p)]
      [] OTHER -> s

Decrst(s, p) ==
    CASE p = 1 -> [s EXCEPT !.modes = @ \ {"cursor_keys"}]
      [] p = 6 -> WithG(s, SetOriginMode(G(s), FALSE))
      [] p = 25 -> [s EXCEPT !.modes = @ \cup {"hide_cursor"}]
      [] p = 47 -> ExitAlternate(s)
      [] p = 1049 -> Decrc(ExitAlternate(s))
      [] p = 2004 -> [s EXCEPT !.modes = @ \ {"bracketed_paste"}]
      [] MouseMode(p) # "none" /\ MouseMode(p) = s.mouse -> [s EXCEPT !.mouse = "none"]
      [] MouseEncoding(p) # "default" /\ MouseEncoding(p) = s.encoding ->
            [s EXCEPT !.encoding = "default"]
      [] OTHER -> s

\* sgr(): the fields the parameters name; a parameter out of range ends it.
Sgr(s, set) == [s EXCEPT !.attrs = set @@ s.attrs]

\* Parameters: absent or 0 is the default.
Canonical(n, default) == IF n = 0 THEN default ELSE n

\* ED and EL: an unknown mode is ignored.
Ed(g, mode, a) ==
    CASE mode = 0 -> EraseAllForward(g, a) [] mode = 1 -> EraseAllBackward(g, a)
      [] mode = 2 -> EraseAll(g, a) [] OTHER -> g
El(g, mode, a) ==
    CASE mode = 0 -> EraseRowForward(g, a) [] mode = 1 -> EraseRowBackward(g, a)
      [] mode = 2 -> EraseRow(g, a) [] OTHER -> g

\* execute() and the functions of csi_dispatch() that act on the current grid.
GridFunction(g, op, a) ==
    CASE op.f = "bs" -> ColDec(g, 1)
      [] op.f = "tab" -> ColTab(g)
      [] op.f \in {"lf", "vt", "ff"} -> RowIncScroll(g, 1)
      [] op.f = "cr" -> ColSet(g, 0)
      [] op.f = "ri" -> RowDecScroll(g, 1)
      [] op.f = "ich" -> InsertCells(g, Canonical(op.n, 1))
      [] op.f = "cuu" -> RowDecClamp(g, Canonical(op.n, 1))
      [] op.f = "cud" -> RowIncClamp(g, Canonical(op.n, 1))
      [] op.f = "cuf" -> ColIncClamp(g, Canonical(op.n, 1))
      [] op.f = "cub" -> ColDec(g, Canonical(op.n, 1))
      [] op.f = "cnl" -> RowIncClamp(ColSet(g, 0), Canonical(op.n, 1))
      [] op.f = "cpl" -> RowDecClamp(ColSet(g, 0), Canonical(op.n, 1))
      [] op.f = "cha" -> ColSet(g, Canonical(op.n, 1) - 1)
      [] op.f = "cup" -> SetPos(g, Canonical(op.n, 1) - 1, Canonical(op.m, 1) - 1)
      [] op.f = "ed" -> Ed(g, op.n, a)
      [] op.f = "el" -> El(g, op.n, a)
      [] op.f = "il" -> InsertLines(g, Canonical(op.n, 1))
      [] op.f = "dl" -> DeleteLines(g, Canonical(op.n, 1))
      [] op.f = "dch" -> DeleteCells(g, Canonical(op.n, 1))
      [] op.f = "su" -> ScrollUp(g, Canonical(op.n, 1))
      [] op.f = "sd" -> ScrollDown(g, Canonical(op.n, 1))
      [] op.f = "ech" -> EraseCells(g, Canonical(op.n, 1), a)
      [] op.f = "vpa" -> RowSet(g, Canonical(op.n, 1) - 1)
      [] op.f = "decstbm" -> SetScrollRegion(g, Canonical(op.n, 1) - 1, Canonical(op.m, g.rows) - 1)

\* print(), execute(), esc_dispatch() and csi_dispatch().
Perform(s, op) ==
    CASE op.f = "text" -> Text(s, op.c)
      [] op.f = "decsc" -> Decsc(s)
      [] op.f = "decrc" -> Decrc(s)
      [] op.f = "deckpam" -> [s EXCEPT !.modes = @ \cup {"keypad"}]
      [] op.f = "deckpnm" -> [s EXCEPT !.modes = @ \ {"keypad"}]
      [] op.f = "ris" -> ScreenNew(s.grid.rows, s.grid.cols, s.grid.scrollback_len)
      [] op.f = "sgr" -> Sgr(s, op.set)
      [] op.f = "decset" -> Decset(s, op.n)
      [] op.f = "decrst" -> Decrst(s, op.n)
      [] OTHER -> WithG(s, GridFunction(G(s), op, s.attrs))

\* Parser::process.
Process(s, ops) ==
    LET screen[k \in 0 .. Len(ops)] == IF k = 0 THEN s ELSE Perform(screen[k - 1], ops[k])
    IN  screen[Len(ops)]
=============================================================================
