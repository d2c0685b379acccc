------------------------------ MODULE Terminal ------------------------------
(***************************************************************************)
(* The two uses of the emulator.                                           *)
(*                                                                         *)
(* A pane feeds its program's output to a screen, resizes it and scrolls   *)
(* the view into its history (src/src/pane.rs).                            *)
(*                                                                         *)
(* The frame differ (src/src/render_diff.rs) runs every frame through a    *)
(* screen of its own and sends a client only the difference: the client's  *)
(* terminal, here another screen, must end up showing the frame.           *)
(***************************************************************************)
EXTENDS ScreenDiff

CONSTANTS
    Rows, Cols, Limit,   \* size at the start, and the scrollback's limit
    Sizes,               \* sizes <<rows, cols>> a pane is resized to
    Texts,               \* characters a program prints
    Labels,              \* what a frame draws: <<characters, style>>
    Counts,              \* parameters of control functions
    MaxSteps,            \* bound: control functions and resizes of a pane
    MaxDraws             \* bound: labels drawn, in all frames

\* Pane::resize refuses a terminal without rows or columns; a label is text.
ASSUME TermAssumption ==
    /\ Rows \in Nat \ {0} /\ Cols \in Nat \ {0} /\ Limit \in Nat
    /\ Sizes \subseteq (Nat \ {0}) \X (Nat \ {0}) /\ Counts \subseteq Nat
    /\ \A l \in Labels : l[1] \in Seq(Texts)

VARIABLES
    role,     \* "pane" or "frame"
    screen,   \* the pane's screen, or the differ's model of the client
    steps,    \* history: steps of the pane, or labels drawn
    frame,    \* the frame being drawn
    full,     \* it is a full redraw
    synced,   \* the differ has a model (parser is Some)
    client    \* the client's terminal

termVars == <<role, screen, steps, frame, full, synced, client>>
paneOnly == <<role, frame, full, synced, client>>

None == ScreenNew(Rows, Cols, 0)
Style(v) == [f \in Fields |-> v]

-----------------------------------------------------------------------------
(* Pane.                                                                   *)

\* A pane whose program has printed a line: any mix of narrow, wide and blank
\* cells, the cursor anywhere.
Printed(l1, row, col) ==
    Process(ScreenNew(Rows, Cols, Limit),
            TextOps(l1) \o <<[f |-> "cup", n |-> row, m |-> col]>>)

TermInit ==
    /\ \/ /\ role = "pane"
          /\ \E l \in SeqOf(Texts, 2), row \in 1 .. Rows, col \in 1 .. Cols :
                screen = Printed(l, row, col)
       \/ role = "frame" /\ screen = None
    /\ steps = 0 /\ frame = <<>> /\ full = FALSE
    /\ synced = FALSE /\ client = None

Output(op) ==
    /\ role = "pane" /\ steps < MaxSteps
    /\ screen' = Perform(screen, op)
    /\ steps' = steps + 1
    /\ UNCHANGED paneOnly

PrintChar == \E c \in Texts \cup Marks \cup Undrawable : Output([f |-> "text", c |-> c])
Control == \E f \in {"bs", "tab", "lf", "cr", "ri", "ris", "decsc", "decrc"} : Output([f |-> f])
MoveCursor ==
    \/ \E f \in {"cuu", "cud", "cuf", "cub", "cnl", "cpl", "cha", "vpa"}, n \in Counts :
          Output([f |-> f, n |-> n])
    \/ \E n \in 1 .. Rows, m \in 1 .. Cols : Output([f |-> "cup", n |-> n, m |-> m])
Edit ==
    \E f \in {"ich", "dch", "ech", "il", "dl", "su", "sd", "ed", "el"}, n \in Counts :
        Output([f |-> f, n |-> n])
Margins == \E n, m \in Counts : Output([f |-> "decstbm", n |-> n, m |-> m])
SetModes ==
    \/ \E f \in {"decset", "decrst"}, p \in {1, 6, 25, 47, 1002, 1006, 1049, 2004} :
          Output([f |-> f, n |-> p])
    \/ \E f \in {"deckpam", "deckpnm"} : Output([f |-> f])
    \/ Output([f |-> "sgr", set |-> Style(1)])

\* Pane::resize.
Resize ==
    /\ role = "pane" /\ steps < MaxSteps
    /\ \E size \in Sizes : screen' = ScreenSetSize(screen, size[1], size[2])
    /\ steps' = steps + 1
    /\ UNCHANGED paneOnly

\* Pane::scroll_up, scroll_down and snap_to_bottom, by an amount the screen clamps.
ScrollView ==
    /\ role = "pane" /\ steps < MaxSteps
    /\ \E n \in Counts : screen' = WithG(screen, SetScrollback(G(screen), n))
    /\ steps' = steps + 1
    /\ UNCHANGED paneOnly

-----------------------------------------------------------------------------
(* Frame differ.                                                           *)

\* A frame hides the cursor and resets the attributes; a full redraw clears the
\* screen, and so does every frame of a zoomed pane.
BeginFrame ==
    /\ role = "frame" /\ frame = <<>> /\ steps < MaxDraws
    /\ full' \in BOOLEAN
    /\ \E clear \in {full', TRUE} :
          frame' = <<[f |-> "decrst", n |-> 25], [f |-> "sgr", set |-> NoAttrs]>>
                     \o (IF clear THEN <<[f |-> "ed", n |-> 2]>> ELSE <<>>)
    /\ UNCHANGED <<role, screen, steps, synced, client>>

CursorShown == Last(frame).f = "decset"
Complete == frame # <<>> /\ Last(frame).f \in {"text", "decset"}
Fits(label, col) == col + FoldLeft(LAMBDA n, c : n + Width(c), 0, label) - 1 <= Cols

\* render.rs composes a frame of labels, each drawn at a position in some style
\* and clipped to the row.
Draw ==
    /\ role = "frame" /\ frame # <<>> /\ ~CursorShown /\ steps < MaxDraws
    /\ \E row \in 1 .. Rows, col \in 1 .. Cols, label \in Labels :
          /\ Fits(label[1], col)
          /\ frame' = frame \o <<[f |-> "cup", n |-> row, m |-> col],
                               [f |-> "sgr", set |-> Style(label[2])]>>
                            \o TextOps(label[1])
    /\ steps' = steps + 1
    /\ UNCHANGED <<role, screen, full, synced, client>>

\* draw_pane_cursor.
ShowCursor ==
    /\ role = "frame" /\ Complete /\ ~CursorShown
    /\ frame' = frame \o <<[f |-> "cup", n |-> 1, m |-> 1], [f |-> "decset", n |-> 25]>>
    /\ UNCHANGED <<role, screen, steps, full, synced, client>>

\* Mutant of Encoded: the model is updated only when the delta is sent.
EncodedStale(redraw) ==
    LET now == Process(IF redraw THEN None ELSE screen, frame)
    IN  [out |-> IF redraw \/ ~synced THEN {frame} ELSE {frame, StateDiff(now, screen)},
         model |-> IF redraw THEN now ELSE screen]

\* encode(): the bytes that may be sent (a delta that is not shorter than the
\* frame is not used), and the model afterwards.
Encoded(redraw) ==
    LET start == IF redraw THEN None ELSE screen
        now == Process(start, frame)
    IN  [out |-> IF redraw \/ ~synced THEN {frame} ELSE {frame, StateDiff(now, screen)},
         model |-> IF redraw \/ synced THEN now ELSE screen]

Encode ==
    /\ role = "frame" /\ Complete
    /\ \E sent \in Encoded(full).out : client' = Process(client, sent)
    /\ screen' = Encoded(full).model
    /\ synced' = (synced \/ full)
    /\ frame' = <<>> /\ full' = FALSE
    /\ UNCHANGED <<role, steps>>

\* A frame with controls the differ does not know, or a screen too large: the
\* frame is sent as it is and the model is dropped.
Bypass ==
    /\ role = "frame" /\ Complete /\ synced
    /\ client' = Process(client, frame)
    /\ screen' = None /\ synced' = FALSE
    /\ frame' = <<>> /\ full' = FALSE
    /\ UNCHANGED <<role, steps>>

Done == IF role = "pane" THEN steps = MaxSteps ELSE steps = MaxDraws /\ frame = <<>>
Finished == Done /\ UNCHANGED termVars

TermNext ==
    \/ PrintChar \/ Control \/ MoveCursor \/ Edit \/ Margins \/ SetModes \/ Resize \/ ScrollView
    \/ BeginFrame \/ Draw \/ ShowCursor \/ Encode \/ Bypass \/ Finished

TermSpec == TermInit /\ [][TermNext]_termVars

-----------------------------------------------------------------------------
Paired(cells) ==
    /\ \A i \in DOMAIN cells :
        /\ cells[i].wide => i < Len(cells) /\ cells[i + 1].cont
        /\ cells[i].cont => i > 1 /\ cells[i - 1].wide

\* The two halves of a wide character are never separated, on the screen and in
\* the history, whatever is inserted, deleted, erased, overwritten or cut off.
WideHalvesPaired ==
    \A g \in {screen.grid, screen.alternate} :
        \A r \in Range(g.lines) \cup Range(g.scrollback) : Paired(r.cells)

Shown(s) ==
    [cells |-> [i \in 1 .. Len(VisibleRows(G(s))) |-> VisibleRows(G(s))[i].cells],
     pos |-> G(s).pos, attrs |-> s.attrs,
     modes |-> s.modes, mouse |-> s.mouse, encoding |-> s.encoding]

\* A row that is wrapped although its last column is blank: the padding of a
\* wide character that did not fit.
Padded(r) == r.wrapped /\ Last(r.cells).text = <<>> /\ ~Last(r.cells).cont
Visual(s) == [Shown(s) EXCEPT !.modes = @ \ {"alternate"}]

\* "The result will be suitable for feeding directly to a raw terminal parser,
\* and will result in the same visual output": a fresh terminal fed with
\* state_formatted shows the pane's cells, cursor, attributes and modes, as long
\* as the view is not scrolled back and no row is padded.
ReplayShowsScreen ==
    LET g == G(screen)
    IN  /\ role = "pane" /\ g.scrollback_offset = 0
        /\ \A r \in Range(g.lines) : ~Padded(r)
        => Visual(Process(ScreenNew(g.rows, g.cols, 0), StateFormatted(screen))) = Visual(screen)

\* What the differ sends makes the client's terminal show the frame: cells,
\* cursor, attributes and modes.
ClientShowsFrame == synced /\ frame = <<>> => Shown(client) = Shown(screen)
=============================================================================
