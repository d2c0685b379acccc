------------------------------ MODULE CopyMode ------------------------------
(***************************************************************************)
(* Copy mode (src/src/copy_mode.rs, driven by server/input_modes.rs) over  *)
(* a pane whose program keeps printing; yanks go to the named buffers      *)
(* (Buffers).                                                              *)
(*                                                                         *)
(* The cursor and the anchor of a selection are positions in the view, not *)
(* in the text: output and scrolling move the text under them.  The pane   *)
(* is not resized here.                                                    *)
(***************************************************************************)
EXTENDS Vt100, Buffers

CONSTANTS
    PaneRows, PaneCols,
    History,       \* the scrollback's limit
    Scripts,       \* what the program may print: texts of glyphs and line breaks (NL)
    WordChars,     \* the glyphs that make up words
    Sought,        \* characters of searches; not those Scrolled knows (j, k, g, G)
    MaxQuery,      \* bound: characters of a search
    MaxSets        \* bound: glyphs printed plus yanks

VARIABLES
    typed,     \* history: what the program has printed
    shown,     \* the pane's screen
    view,      \* scroll_offset: lines the view is scrolled back
    copy       \* CopyModeState, or phase "off"

copyVars == <<typed, shown, view, copy, bufferVars>>

NL == "nl"
Off == [phase |-> "off"]
CopyModeNew ==
    [phase |-> "navigate", row |-> PaneRows - 1, col |-> 0, arow |-> 0, acol |-> 0,
     query |-> <<>>, forward |-> TRUE, last |-> <<>>, lastForward |-> TRUE]

CopyInit ==
    /\ typed = <<>> /\ shown = ScreenNew(PaneRows, PaneCols, History) /\ view = 0
    /\ copy = Off
    /\ BufferInit

-----------------------------------------------------------------------------
(* What is on the screen *)

\* The rows while scrolled back (sync_scrollback).
Seen == VisibleRows(SetScrollback(G(shown), view))
ViewCell(r, c) == Seen[r + 1].cells[c + 1]

\* Positions in reading order: row * PaneCols + column.
Places == 0 .. PaneRows * PaneCols - 1
RowOf(p) == p \div PaneCols
ColOf(p) == p % PaneCols
CellIn(p) == ViewCell(RowOf(p), ColOf(p))
Cursor(s) == s.row * PaneCols + s.col
CursorTo(s, p) == [s EXCEPT !.row = RowOf(p), !.col = ColOf(p)]

CellChar(p) == IF CellIn(p).text = <<>> THEN " " ELSE Head(CellIn(p).text)
IsWord(p) == CellChar(p) \in WordChars
Least(S) == CHOOSE x \in S : \A y \in S : x <= y
Greatest(S) == CHOOSE x \in S : \A y \in S : x >= y
NonBlank(row) == {c \in 0 .. PaneCols - 1 : CellChar(row * PaneCols + c) # " "}

LineEnd(s) == IF NonBlank(s.row) = {} THEN 0 ELSE Greatest(NonBlank(s.row))
FirstNonBlank(s) == IF NonBlank(s.row) = {} THEN 0 ELSE Least(NonBlank(s.row))

\* To the next cell of another class, then over blanks; not at all if the
\* screen ends first.
MoveWordForward(s) ==
    LET p == Cursor(s)
        stops == {q \in Places : q > p /\ ~CellIn(q).cont /\ (IsWord(q) # IsWord(p) \/ CellChar(q) = " ")}
        lands == {q \in Places : stops # {} /\ q >= Least(stops) /\ CellChar(q) # " "}
    IN  IF lands = {} THEN s ELSE CursorTo(s, Least(lands))

\* Back over blanks, then to the first cell of that class in its row.
MoveWordBackward(s) ==
    LET p == Cursor(s)
        before == {q \in Places : q < p /\ CellChar(q) # " "}
        land == Greatest(before)
        Same(q) == CellIn(q).cont \/ (CellChar(q) # " " /\ IsWord(q) = IsWord(land))
        starts == {q \in RowOf(land) * PaneCols .. land : ~CellIn(q).cont /\ \A k \in q .. land : Same(k)}
    IN  IF p = 0 THEN s
        ELSE IF before = {} THEN CursorTo(s, 0)
        ELSE CursorTo(s, Least(starts))

\* execute_search: the nearest match after (or before) the cursor, or around.
\* While the query is typed a match at the cursor counts.
ExecuteSearch(s, query, forward, incremental) ==
    LET Glyph(p) == ~CellIn(p).cont
        rowCells(r) == SelectSeq([i \in 1 .. PaneCols |-> r * PaneCols + i - 1], Glyph)
        Match(r, i) ==
            LET cells == rowCells(r)
            IN  /\ i + Len(query) - 1 <= Len(cells)
                /\ \A k \in 1 .. Len(query) : CellChar(cells[i + k - 1]) = query[k]
        matches == {rowCells(r)[i] : <<r, i>> \in
                      {x \in (0 .. PaneRows - 1) \X (1 .. PaneCols) : Match(x[1], x[2])}}
        at == Cursor(s)
        after == {m \in matches : m > at \/ (incremental /\ m = at)}
        before == {m \in matches : m < at \/ (incremental /\ m = at)}
    IN  IF query = <<>> \/ matches = {} THEN s
        ELSE IF forward THEN CursorTo(s, Least(IF after = {} THEN matches ELSE after))
        ELSE CursorTo(s, Greatest(IF before = {} THEN matches ELSE before))

-----------------------------------------------------------------------------
(* Selection *)

\* CopyModeState::selection: <<first row, column, last row, column>>.
Selection(s) ==
    IF s.phase = "line"
    THEN <<AtMost(s.arow, s.row), 0, Greatest({s.arow, s.row}), PaneCols - 1>>
    ELSE IF s.arow < s.row \/ (s.arow = s.row /\ s.acol <= s.col)
    THEN <<s.arow, s.acol, s.row, s.col>> ELSE <<s.row, s.col, s.arow, s.acol>>

TrimEnd(t) ==
    LET ink == {i \in DOMAIN t : t[i] # " "}
    IN  SubSeq(t, 1, IF ink = {} THEN 0 ELSE Greatest(ink))

\* One row of extract_selection, from column `from' to `to'.  A wide
\* character is taken if either of its halves is selected.
RowText(row, from, to, soft) ==
    LET start == IF from > 0 /\ row.cells[from + 1].cont THEN from - 1 ELSE from
        cells == SelectSeq(SubSeq(row.cells, start + 1, to + 1), LAMBDA c : ~c.cont)
        text == FlattenSeq([i \in DOMAIN cells |-> IF cells[i].text = <<>> THEN <<" ">>
                                                   ELSE cells[i].text])
        filled == {i \in DOMAIN cells : cells[i].text # <<>>}
    IN  IF soft THEN SubSeq(text, 1, IF filled = {} THEN 0 ELSE Greatest(filled)) ELSE TrimEnd(text)

\* Mutant of ExtractSelection: every row ends with a line break.
ExtractSelectionHard(s) ==
    LET sel == Selection(s)
        Line(r) == RowText(Seen[r + 1], IF r = sel[1] THEN sel[2] ELSE 0,
                           IF r = sel[3] THEN sel[4] ELSE PaneCols - 1, FALSE)
    IN  FlattenSeq([k \in 1 .. sel[3] - sel[1] + 1 |->
                      Line(sel[1] + k - 1) \o (IF sel[1] + k - 1 < sel[3] THEN <<NL>> ELSE <<>>)])

\* extract_selection: rows that wrapped softly are joined.
ExtractSelection(s) ==
    LET sel == Selection(s)
        Soft(r) == r < sel[3] /\ Seen[r + 1].wrapped /\ s.phase # "line"
        Line(r) == RowText(Seen[r + 1], IF r = sel[1] THEN sel[2] ELSE 0,
                           IF r = sel[3] THEN sel[4] ELSE PaneCols - 1, Soft(r))
        Part(r) == Line(r) \o (IF r < sel[3] /\ ~Soft(r) THEN <<NL>> ELSE <<>>)
    IN  FlattenSeq([k \in 1 .. sel[3] - sel[1] + 1 |-> Part(sel[1] + k - 1)])

-----------------------------------------------------------------------------
(* Actions *)

\* Bounds on the state space: printing comes before the first yank, bindings set
\* buffers before the first glyph, and after a long text there is one yank.
PrintBound == nextSeq = 0
BindingBound == typed = <<>>
YankBound == nextSeq = 0 \/ Len(typed) + nextSeq < MaxSets

KeepStore == UNCHANGED bufferVars
KeepText == UNCHANGED <<typed, shown>>

\* The program prints: a scrolled view goes back to the end.
Type(c) ==
    /\ PrintBound /\ \E t \in Scripts : IsPrefix(Append(typed, c), t)
    /\ typed' = Append(typed, c)
    /\ shown' = Process(shown, IF c = NL THEN <<[f |-> "cr"], [f |-> "lf"]>>
                               ELSE <<[f |-> "text", c |-> c]>>)
    /\ view' = 0
    /\ UNCHANGED copy /\ KeepStore

EnterCopyMode ==
    /\ copy.phase = "off" /\ copy' = CopyModeNew
    /\ UNCHANGED view /\ KeepText /\ KeepStore

InPhase(ps) == copy.phase \in ps

\* What the main loop does before a key is handled: it scrolls the pane, by the
\* cursor's row before the key.
Scrolled(key) ==
    LET Up(n) == AtMost(view + n, Len(G(shown).scrollback))
    IN  CASE key = "k" /\ copy.row = 0            -> Up(1)
          [] key = "j" /\ copy.row = PaneRows - 1 -> Sat(view - 1)
          [] key = "g"    -> Up(History)
          [] key = "G"    -> 0
          [] key = "C-u"  -> Up(PaneRows \div 2)
          [] key = "C-d"  -> Sat(view - PaneRows \div 2)
          [] key = "PgUp" -> Up(PaneRows)
          [] key = "PgDn" -> Sat(view - PaneRows)
          [] OTHER        -> view

\* The cursor after a key; words and line ends are those of the view as the
\* scrolling has left it (no key does both).
Moved(s, key) ==
    CASE key = "h" -> [s EXCEPT !.col = Sat(@ - 1)]
      [] key = "l" -> [s EXCEPT !.col = AtMost(@ + 1, PaneCols - 1)]
      [] key = "j" -> [s EXCEPT !.row = AtMost(@ + 1, PaneRows - 1)]
      [] key = "k" -> [s EXCEPT !.row = Sat(@ - 1)]
      [] key = "w" -> MoveWordForward(s)
      [] key = "b" -> MoveWordBackward(s)
      [] key = "0" -> [s EXCEPT !.col = 0]
      [] key = "$" -> [s EXCEPT !.col = LineEnd(s)]
      [] key = "^" -> [s EXCEPT !.col = FirstNonBlank(s)]
      [] key = "g" -> [s EXCEPT !.row = 0, !.col = 0]
      [] key = "G" -> [s EXCEPT !.row = PaneRows - 1, !.col = 0]
      [] key = "H" -> [s EXCEPT !.row = 0]
      [] key = "M" -> [s EXCEPT !.row = PaneRows \div 2]
      [] key = "L" -> [s EXCEPT !.row = PaneRows - 1]
      [] OTHER     -> s

Motions == {"h", "l", "j", "k", "w", "b", "0", "$", "^", "g", "G", "H", "M", "L",
            "C-u", "C-d", "PgUp", "PgDn"}
Moving == {"navigate", "char", "line"}

CopyMove(key) ==
    /\ InPhase(Moving)
    /\ view' = Scrolled(key) /\ copy' = Moved(copy, key)
    /\ KeepText /\ KeepStore

Navigate(s) == [s EXCEPT !.phase = "navigate", !.arow = 0, !.acol = 0, !.query = <<>>, !.forward = TRUE]

\* v and V begin a selection at the cursor, change its kind, or give it up;
\* the space bar only begins one.
CopySelect(kind) ==
    /\ InPhase(Moving)
    /\ copy' = IF copy.phase = kind THEN Navigate(copy)
               ELSE [copy EXCEPT !.phase = kind, !.arow = copy.row,
                                 !.acol = IF kind = "char" THEN copy.col ELSE 0]
    /\ UNCHANGED view /\ KeepText /\ KeepStore

\* y or Enter: the text goes to the default buffer and copy mode ends; with
\* nothing selected nothing happens.
CopyYank ==
    /\ InPhase({"char", "line"}) /\ ExtractSelection(copy) # <<>>
    /\ YankBound /\ BufferSet(Default)
    /\ copy' = Off /\ view' = 0
    /\ KeepText

CopyExit == InPhase(Moving) /\ copy' = Off /\ view' = 0 /\ KeepText /\ KeepStore

\* / and ?; a selection is given up.
StartSearch(forward) ==
    /\ InPhase(Moving)
    /\ copy' = [Navigate(copy) EXCEPT !.phase = "search", !.forward = forward]
    /\ UNCHANGED view /\ KeepText /\ KeepStore

\* n and N.
RepeatSearch(same) ==
    /\ InPhase(Moving) /\ copy.last # <<>>
    /\ copy' = ExecuteSearch(copy, copy.last, copy.lastForward = same, FALSE)
    /\ UNCHANGED view /\ KeepText /\ KeepStore

\* A character of the query.
SearchChar(c) ==
    LET q == Append(copy.query, c)
    IN  /\ InPhase({"search"}) /\ Len(copy.query) < MaxQuery
        /\ copy' = ExecuteSearch([copy EXCEPT !.query = q], q, copy.forward, TRUE)
        /\ UNCHANGED view /\ KeepText /\ KeepStore

SearchBackspace ==
    LET q == IF copy.query = <<>> THEN <<>> ELSE Front(copy.query)
    IN  /\ InPhase({"search"})
        /\ copy' = ExecuteSearch([copy EXCEPT !.query = q], q, copy.forward, TRUE)
        /\ UNCHANGED view /\ KeepText /\ KeepStore

\* Enter searches for what was typed, Esc forgets it.
SearchEnd(enter) ==
    /\ InPhase({"search"})
    /\ copy' = IF ~enter THEN Navigate(copy)
               ELSE Navigate(ExecuteSearch([copy EXCEPT !.last = copy.query,
                                                        !.lastForward = copy.forward],
                                           copy.query, copy.forward, TRUE))
    /\ UNCHANGED view /\ KeepText /\ KeepStore

\* A key bound to set-buffer.
BindingSetsBuffer(name) ==
    /\ BindingBound /\ copy.phase = "off" /\ BufferSet(name)
    /\ UNCHANGED <<view, copy>> /\ KeepText

CopyNext ==
    \/ \E c \in UNION {ToSet(t) : t \in Scripts} : Type(c)
    \/ EnterCopyMode
    \/ \E key \in Motions : CopyMove(key)
    \/ \E kind \in {"char", "line"} : CopySelect(kind)
    \/ CopyYank \/ CopyExit
    \/ \E b \in BOOLEAN : StartSearch(b) \/ RepeatSearch(b) \/ SearchEnd(b)
    \/ \E c \in Sought : SearchChar(c)
    \/ SearchBackspace
    \/ \E name \in Names : BindingSetsBuffer(name)

-----------------------------------------------------------------------------
(* Properties *)

\* How printed text lies in rows: a glyph that does not fit starts a row, and
\* the row before it goes on in it.
RowWidth(glyphs) == FoldLeft(LAMBDA n, c : n + Width(c), 0, glyphs)
Laid ==
    FoldLeft(LAMBDA rows, c :
               LET end == Last(rows)
               IN  IF c = NL THEN Append(rows, [glyphs |-> <<>>, goesOn |-> FALSE])
                   ELSE IF RowWidth(end.glyphs) + Width(c) > PaneCols
                   THEN Append([rows EXCEPT ![Len(rows)].goesOn = TRUE],
                               [glyphs |-> <<c>>, goesOn |-> FALSE])
                   ELSE [rows EXCEPT ![Len(rows)].glyphs = Append(@, c)],
             <<[glyphs |-> <<>>, goesOn |-> FALSE]>>, typed)

\* The glyphs of a row of which some column lies between two columns.
Covered(glyphs, from, to) ==
    LET Start(i) == RowWidth(SubSeq(glyphs, 1, i - 1))
        in == {i \in DOMAIN glyphs : Start(i) <= to /\ Start(i) + Width(glyphs[i]) > from}
    IN  IF in = {} THEN <<>> ELSE SubSeq(glyphs, Least(in), Greatest(in))

\* What a selection should give: the printed text between two positions of
\* the view, a line break only where the program printed one (or, selecting
\* whole lines, after each row), without blanks before it.
TextBetween(s) ==
    LET sel == Selection(s)
        top == Sat(Len(Laid) - PaneRows) - view
        Row(r) == IF top + r + 1 \in DOMAIN Laid THEN Laid[top + r + 1]
                  ELSE [glyphs |-> <<>>, goesOn |-> FALSE]
        Joined(r) == r < sel[3] /\ Row(r).goesOn /\ s.phase # "line"
        Taken(r) == Covered(Row(r).glyphs, IF r = sel[1] THEN sel[2] ELSE 0,
                            IF r = sel[3] THEN sel[4] ELSE PaneCols - 1)
        Part(r) == IF Joined(r) THEN Taken(r)
                   ELSE TrimEnd(Taken(r)) \o (IF r < sel[3] THEN <<NL>> ELSE <<>>)
    IN  FlattenSeq([k \in 1 .. sel[3] - sel[1] + 1 |-> Part(sel[1] + k - 1)])

\* A yank gives back what the program printed, although the screen keeps only
\* cells: wide characters of which one half is selected, padding before a
\* wide character that did not fit, rows that went on and rows that scrolled
\* into the history included (extract_selection over vt100's wrapped flags).
YankIsTyped == copy.phase \in {"char", "line"} => ExtractSelection(copy) = TextBetween(copy)
=============================================================================
