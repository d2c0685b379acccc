----------------------------- MODULE ScreenDiff -----------------------------
(***************************************************************************)
(* The writers of src/src/vt100: the control functions that draw a screen  *)
(* from nothing (state_formatted) or turn the screen prev into it          *)
(* (state_diff).  A writer is a record: what it has written (out), where   *)
(* it believes the cursor to be (pos) and the attributes it last set       *)
(* (attrs).                                                                *)
(***************************************************************************)
EXTENDS Vt100

Put(w, ops) == [w EXCEPT !.out = @ \o ops]
At(row, col) == [row |-> row, col |-> col]
TextOps(text) == [i \in DOMAIN text |-> [f |-> "text", c |-> text[i]]]
Blanks(n) == [i \in 1 .. n |-> [f |-> "text", c |-> " "]]
Backspace == <<[f |-> "bs"]>>
EraseChar(n) == IF n = 0 THEN <<>> ELSE <<[f |-> "ech", n |-> n]>>
MoveTo(p) == <<[f |-> "cup", n |-> p.row + 1, m |-> p.col + 1]>>

\* A move is the shortest of CR LF, cursor right and an absolute position.
MoveFromTo(from, to) ==
    IF to.row = from.row + 1 /\ to.col = 0 THEN <<[f |-> "cr"], [f |-> "lf"]>>
    ELSE IF from.row = to.row /\ from.col < to.col
         THEN <<[f |-> "cuf", n |-> to.col - from.col]>>
    ELSE IF to # from THEN MoveTo(to) ELSE <<>>

\* One SGR sequence for all the fields given, none for no field.
WriteAttrs(set) == IF DOMAIN set = {} THEN <<>> ELSE <<[f |-> "sgr", set |-> set]>>

\* write_escape_code_diff: a reset, or the fields that differ.
AttrsDiff(a, other) ==
    LET changed == {f \in Fields : a[f] # other[f]}
    IN  IF changed # {} /\ a = NoAttrs THEN WriteAttrs(NoAttrs)
        ELSE WriteAttrs([f \in changed |-> a[f]])

SetAttrs(w, a) == [Put(w, AttrsDiff(a, w.attrs)) EXCEPT !.attrs = a]
MoveBy(w, to) == [Put(w, MoveFromTo(w.pos, to)) EXCEPT !.pos = to]

\* Go to where a run of blank cells of this row starts; from the end of a
\* wrapped row by writing blanks, so that the wrap stays.
StartErase(w, row, cols, wrapping, col) ==
    IF wrapping /\ w.pos.row + 1 = row /\ w.pos.col >= cols
    THEN [Put(w, IF col > 0 THEN Blanks(col) ELSE Blanks(1) \o Backspace)
            EXCEPT !.pos = At(row, col)]
    ELSE MoveBy(w, At(row, col))

NoErase == [col |-> -1, attrs |-> NoAttrs]

\* A blank cell starts a run that is erased when it ends.
EndErase(w, row, cols, wrapping, erase, col) ==
    Put(SetAttrs(StartErase(w, row, cols, wrapping, erase.col), erase.attrs),
        EraseChar(col - erase.col))

\* A cell with text: no move is needed where the previous row wraps into it.
DrawCell(w, row, cols, wrapping, cell, col) ==
    LET flows == /\ wrapping
                 /\ w.pos.row + 1 = row
                 /\ w.pos.col >= cols - (IF cell.wide THEN 1 ELSE 0)
                 /\ col = 0
        at == IF w.pos = At(row, col) THEN w
              ELSE IF flows THEN [w EXCEPT !.pos = At(row, col)]
              ELSE MoveBy(w, At(row, col))
    IN  [Put(SetAttrs(at, cell.attrs), TextOps(cell.text))
           EXCEPT !.pos.col = @ + (IF cell.wide THEN 2 ELSE 1)]

\* The loop over the cells of a row, against the cells old of the same row:
\* the column after a wide character is skipped.
RowCells(w, cells, old, row, wrapping) ==
    LET cols == Len(cells)
        Step(st, i) ==
            LET cell == cells[i]
                ends == /\ st.erase # NoErase
                        /\ cell.text # <<>> \/ cell.attrs # st.erase.attrs
                wr == IF ends THEN EndErase(st.w, row, cols, wrapping, st.erase, i - 1) ELSE st.w
                er == IF ends THEN NoErase ELSE st.erase
                next == [w |-> wr, erase |-> er, skip |-> cell.wide]
            IN  IF st.skip THEN [st EXCEPT !.skip = FALSE]
                ELSE IF cell = old[i] THEN next
                ELSE IF cell.text # <<>>
                     THEN [next EXCEPT !.w = DrawCell(wr, row, cols, wrapping, cell, i - 1)]
                ELSE IF er = NoErase
                     THEN [next EXCEPT !.erase = [col |-> i - 1, attrs |-> cell.attrs]]
                ELSE next
        end == FoldLeft(Step, [w |-> w, erase |-> NoErase, skip |-> FALSE], [i \in 1 .. cols |-> i])
    IN  IF end.erase = NoErase THEN end.w
        ELSE Put(SetAttrs(StartErase(end.w, row, cols, wrapping, end.erase.col), end.erase.attrs),
                 <<[f |-> "el", n |-> 0]>>)

\* Row::write_contents_formatted: a wrap into a blank cell is drawn by writing
\* a blank and erasing it again.
RowFormatted(w, r, row, wrapping) ==
    LET first == IF wrapping /\ r.cells[1] = CellNew
                 THEN [Put(SetAttrs(w, NoAttrs), Blanks(1) \o Backspace \o EraseChar(1))
                         EXCEPT !.pos = At(row, 0)]
                 ELSE w
    IN  RowCells(first, r.cells, [i \in DOMAIN r.cells |-> CellNew], row, wrapping)

\* Row::write_contents_diff.  A row that starts or stops being wrapped has its
\* last character drawn again, so that the terminal sees (or forgets) the wrap.
RowDiff(w, r, prev, row, wrapping, prev_wrapping) ==
    LET cols == Len(r.cells)
        old == prev.cells[1]
        again == /\ wrapping /\ ~prev_wrapping /\ r.cells[1] = old
                 /\ w.pos.row + 1 = row
                 /\ w.pos.col >= cols - (IF old.wide THEN 1 ELSE 0)
        first == IF again
                 THEN [Put(SetAttrs(w, old.attrs),
                           (IF old.text = <<>> THEN Blanks(1) ELSE TextOps(old.text))
                             \o Backspace \o (IF old.wide THEN Backspace ELSE <<>>)
                             \o (IF old.text = <<>> THEN EraseChar(1) ELSE <<>>))
                         EXCEPT !.pos = At(row, 0)]
                 ELSE w
        drawn == RowCells(first, r.cells, prev.cells, row, wrapping)
        last == IF r.cells[cols].cont THEN cols - 2 ELSE cols - 1
        cell == r.cells[last + 1]
        moved == Put(MoveBy(drawn, At(row, last)), IF r.wrapped THEN <<>> ELSE EraseChar(1))
    IN  IF r.wrapped = prev.wrapped THEN drawn
        ELSE IF cell.text = <<>> THEN moved
        ELSE [Put(SetAttrs(moved, cell.attrs), TextOps(cell.text))
                EXCEPT !.pos.col = @ + (IF cell.wide THEN 2 ELSE 1)]

-----------------------------------------------------------------------------
(* The cursor after the last column: it can only get there by drawing the  *)
(* last character of a row again.                                          *)

LastCol(g, row) ==
    IF g.lines[row + 1].cells[g.cols].cont THEN At(row, g.cols - 2) ELSE At(row, g.cols - 1)
CellAt(g, p) == g.lines[p.row + 1].cells[p.col + 1]

\* Draw the cell at p again in its attributes, and go back to the writer's.
Redraw(w, g, p) ==
    Put(w, MoveFromTo(w.pos, p) \o AttrsDiff(CellAt(g, p).attrs, w.attrs)
             \o TextOps(CellAt(g, p).text) \o AttrsDiff(w.attrs, CellAt(g, p).attrs))

\* Draw a blank, step back over it and erase it, in the attributes it has.
BlankRedraw(w, g) ==
    LET p == At(g.pos.row, g.cols - 1)
        a == CellAt(g, p).attrs
    IN  Put(w, MoveFromTo(w.pos, p) \o Blanks(1) \o AttrsDiff(a, w.attrs)
                 \o <<[f |-> "decsc"]>> \o Backspace \o EraseChar(1) \o <<[f |-> "decrc"]>>
                 \o AttrsDiff(w.attrs, a))

\* Mutant of CursorPosition: the column past the last is moved to as any other.
CursorPositionPlain(w, g) == Put(w, MoveFromTo(w.pos, g.pos))

\* write_cursor_position_formatted.
CursorPosition(w, g) ==
    LET here == LastCol(g, g.pos.row)
        above == {i \in 0 .. g.pos.row - 1 : CellAt(g, LastCol(g, i)).text # <<>>}
        i == Max(above)
        drawn == IF w.pos.row # i \/ w.pos.col < g.cols THEN Redraw(w, g, LastCol(g, i)) ELSE w
    IN  IF w.pos = g.pos \/ g.pos.col < g.cols THEN Put(w, MoveFromTo(w.pos, g.pos))
        ELSE IF CellAt(g, here).text # <<>> THEN Redraw(w, g, here)
        ELSE IF above # {} THEN Put(drawn, [k \in 1 .. g.pos.row - i |-> [f |-> "lf"]])
        ELSE BlankRedraw(w, g)

-----------------------------------------------------------------------------
(* The grid and the screen.                                                *)

Writer(pos, a) == [out |-> <<>>, pos |-> pos, attrs |-> a]

GridFormatted(g) ==
    LET rows == VisibleRows(g)
        clear == <<[f |-> "sgr", set |-> NoAttrs], [f |-> "cup", n |-> 0, m |-> 0],
                   [f |-> "ed", n |-> 0]>>
        Step(w, i) == RowFormatted(w, rows[i], i - 1, i > 1 /\ rows[i - 1].wrapped)
        drawn == FoldLeft(Step, Put(Writer(Origin, NoAttrs), clear), [i \in DOMAIN rows |-> i])
    IN  CursorPosition(drawn, g)

GridDiff(g, prev, attrs) ==
    LET rows == VisibleRows(g)
        old == VisibleRows(prev)
        Step(w, i) == RowDiff(w, rows[i], old[i], i - 1, i > 1 /\ rows[i - 1].wrapped,
                              i > 1 /\ old[i - 1].wrapped)
        drawn == FoldLeft(Step, Writer(prev.pos, attrs),
                          [i \in 1 .. AtMost(Len(rows), Len(old)) |-> i])
    IN  CursorPosition(drawn, g)

ModeOp(on, p) == <<[f |-> IF on THEN "decset" ELSE "decrst", n |-> p]>>
HideCursor(s) == ModeOp("hide_cursor" \notin s.modes, 25)
KeypadOp(s) == <<[f |-> IF "keypad" \in s.modes THEN "deckpam" ELSE "deckpnm"]>>

\* Turning a mouse mode or encoding off names the one that was on.
MouseOps(mode, prev) ==
    LET Code(m) == CHOOSE p \in {9, 1000, 1002, 1003} : MouseMode(p) = m
    IN  IF mode = prev THEN <<>>
        ELSE IF mode = "none" THEN ModeOp(FALSE, Code(prev)) ELSE ModeOp(TRUE, Code(mode))
EncodingOps(enc, prev) ==
    LET Code(e) == CHOOSE p \in {1005, 1006} : MouseEncoding(p) = e
    IN  IF enc = prev THEN <<>>
        ELSE IF enc = "default" THEN ModeOp(FALSE, Code(prev)) ELSE ModeOp(TRUE, Code(enc))

InputModeFormatted(s) ==
    KeypadOp(s) \o ModeOp("cursor_keys" \in s.modes, 1) \o ModeOp("bracketed_paste" \in s.modes, 2004)
      \o MouseOps(s.mouse, "none") \o EncodingOps(s.encoding, "default")

InputModeDiff(s, prev) ==
    LET Changed(m, ops) == IF (m \in s.modes) = (m \in prev.modes) THEN <<>> ELSE ops
    IN  Changed("keypad", KeypadOp(s))
          \o Changed("cursor_keys", ModeOp("cursor_keys" \in s.modes, 1))
          \o Changed("bracketed_paste", ModeOp("bracketed_paste" \in s.modes, 2004))
          \o MouseOps(s.mouse, prev.mouse) \o EncodingOps(s.encoding, prev.encoding)

StateFormatted(s) ==
    LET w == GridFormatted(G(s))
    IN  HideCursor(s) \o w.out \o AttrsDiff(s.attrs, w.attrs) \o InputModeFormatted(s)

StateDiff(s, prev) ==
    LET w == GridDiff(G(s), G(prev), prev.attrs)
        hide == IF ("hide_cursor" \in s.modes) = ("hide_cursor" \in prev.modes)
                THEN <<>> ELSE HideCursor(s)
    IN  hide \o w.out \o AttrsDiff(s.attrs, w.attrs) \o InputModeDiff(s, prev)
=============================================================================
