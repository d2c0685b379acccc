----------------------------- MODULE LayoutEdit -----------------------------
(***************************************************************************)
(* The layout of one tab under everything that changes it: splits and      *)
(* closes, swaps, keyboard resizes, layout specs, a terminal that changes  *)
(* its size, and a separator dragged with the mouse, whose DragState keeps *)
(* a tree path and an area from the moment of the click.                   *)
(***************************************************************************)
EXTENDS LayoutTree

CONSTANTS Dims,      \* content areas <<w, h>> of terminals
          FirstDim,  \* the content area a behaviour starts with
          Shapes,    \* layout specs a user may select
          MaxLeaves, \* panes of a tab (100 in do_split)
          MaxEdits   \* bound on the number of edits of a behaviour

\* Terminal sizes are u16, and a border takes two cells of either; a spec has
\* rows, a row has panes, a pane has a weight.
ASSUME LayoutAssumption ==
  /\ Dims \cup {FirstDim} \subseteq (0 .. U16Max - 2) \X (0 .. U16Max - 2)
  /\ Shapes \subseteq Seq(Seq(Nat \ {0}) \ {<<>>}) \ {<<>>}

VARIABLES tree, nextId, dim, drag, edits

layoutVars == <<tree, nextId, dim, drag, edits>>

Navs == {"left", "right", "up", "down"}
ResizeStep == Scale \div 20

\* content_area of a terminal with a border, and the border's own rectangle.
Inner == Rect(1, 1, dim[1], dim[2])
Outer == Rect(0, 0, dim[1] + 2, dim[2] + 2)

\* The buttons drawn in the border above a pane: closing, and splitting when
\* there is room for all three of them.
TitleButtonHit(t, x, y) ==
  LET r == PaneRects(t, Inner)
      over(i) == r[i].w > 0 /\ r[i].h > 0 /\ y = r[i].y - 1
      off(i) == r[i].x + r[i].w - x
      hit(i) == over(i) /\ IF r[i].w >= 13 THEN off(i) \in {1, 2, 3, 5, 6, 7, 9, 10, 11}
                           ELSE r[i].w >= 4 /\ off(i) \in {1, 2}
  IN  {i \in DOMAIN r : hit(i)}

LayoutInit ==
  /\ tree = FromGrid(1, 1) /\ nextId = 1
  /\ dim = FirstDim /\ drag = None /\ edits = 0

Edit == edits < MaxEdits /\ edits' = edits + 1

EditSplit(target, d) ==
  /\ Edit /\ CountLeaves(tree) < MaxLeaves /\ RoomToSplit(PaneRects(tree, Inner)[target], d)
  /\ tree' = Split(tree, target, nextId, d)
  /\ nextId' = nextId + 1
  /\ UNCHANGED <<dim, drag>>

EditClose(target) ==
  /\ Edit /\ CountLeaves(tree) > 1
  /\ tree' = Remove(tree, target)
  /\ UNCHANGED <<nextId, dim, drag>>

EqualizeAll == Edit /\ tree' = Equalize(tree) /\ UNCHANGED <<nextId, dim, drag>>

Swap(target) ==
  /\ Edit /\ NextPane(tree, target) # target
  /\ tree' = SwapPanes(tree, target, NextPane(tree, target))
  /\ UNCHANGED <<nextId, dim, drag>>

KeyResize(target, nav) ==
  /\ Edit /\ tree' = ResizePane(tree, target, nav, ResizeStep)
  /\ UNCHANGED <<nextId, dim, drag>>

SelectLayout(spec) ==
  /\ Edit /\ tree' = Reconfigure(tree, spec)
  /\ UNCHANGED <<nextId, dim, drag>>

\* The effective size changed: the main loop gives up a drag in progress.
TerminalResize(d) ==
  /\ Edit /\ d # dim
  /\ dim' = d /\ drag' = None
  /\ UNCHANGED <<tree, nextId>>

\* Button down on a separator, where no title button is.
Grab(x, y) ==
  /\ Edit /\ drag = None
  /\ TitleButtonHit(tree, x, y) = {}
  /\ drag' = FindSepAt(tree, x, y, Clipped(Inner))
  /\ drag' # None
  /\ UNCHANGED <<tree, nextId, dim>>

\* As written by someone who forgets that the area does not start at 0.
CalcRatioScreen(ds, x, y) ==
  LET usable == Most((IF ds.dir = "h" THEN ds.area.w ELSE ds.area.h) - 1, 0)
  IN  IF usable = 0 THEN Scale \div 2
      ELSE ClampRatio(((IF ds.dir = "h" THEN x ELSE y) * Scale) \div usable)

\* DragState::calc_ratio, from the area at the time of the click.
CalcRatio(ds, x, y) ==
  LET usable == Most((IF ds.dir = "h" THEN ds.area.w ELSE ds.area.h) - 1, 0)
      at == IF ds.dir = "h" THEN x - ds.area.x ELSE y - ds.area.y
  IN  IF usable = 0 THEN Scale \div 2
      ELSE ClampRatio((2 * Most(at, 0) * Scale + usable) \div (2 * usable))

DragTo(x, y) ==
  /\ Edit /\ drag # None
  /\ tree' = SetRatioAt(tree, drag.path, CalcRatio(drag, x, y))
  /\ UNCHANGED <<nextId, dim, drag>>

Release == drag # None /\ drag' = None /\ UNCHANGED <<tree, nextId, dim, edits>>

LayoutNext ==
  \/ \E i \in Ids(tree) : \/ \E d \in {"h", "v"} : EditSplit(i, d)
                          \/ EditClose(i)
                          \/ Swap(i)
                          \/ \E nav \in Navs : KeyResize(i, nav)
  \/ EqualizeAll
  \/ \E s \in Shapes : SelectLayout(s)
  \/ \E d \in Dims : TerminalResize(d)
  \/ \E x \in 1 .. dim[1], y \in 1 .. dim[2] :
       (x \in {1, dim[1]} \/ y \in {1, dim[2]}) /\ (Grab(x, y) \/ DragTo(x, y))
  \/ Release

-----------------------------------------------------------------------------
(* Properties *)

Within(a, b) == a.x >= b.x /\ a.y >= b.y /\ a.x + a.w <= b.x + b.w /\ a.y + a.h <= b.y + b.h
Apart(a, b) == \/ a.x + a.w <= b.x \/ b.x + b.w <= a.x
               \/ a.y + a.h <= b.y \/ b.y + b.h <= a.y
               \/ 0 \in {a.w, a.h, b.w, b.h}
CellsOf(a) == (a.x .. a.x + a.w - 1) \X (a.y .. a.y + a.h - 1)

\* Whatever was split, closed, dragged or shrunk before, the panes lie inside
\* the content area, do not overlap, and the separator lines fill exactly the
\* cells between them; a click in a pane finds that pane, a click on a line
\* finds none (collect_rects, collect_seps and find_at_node walk the tree
\* separately and have to agree down to areas of no width).
PanesTile ==
  LET r == PaneRects(tree, Inner)
      lines == {c \in UNION {CellsOf(s) : s \in Separators(tree, Clipped(Inner), Outer)} :
                   Contains(Inner, c[1], c[2])}
  IN  /\ \A i \in DOMAIN r : Within(r[i], Inner)
      /\ \A i, j \in DOMAIN r : i = j \/ Apart(r[i], r[j])
      /\ lines = CellsOf(Inner) \ UNION {CellsOf(r[i]) : i \in DOMAIN r}
      /\ \A c \in lines : FindAt(tree, c[1], c[2], Inner) = None
      /\ \A i \in DOMAIN r : r[i].w > 0 /\ r[i].h > 0 =>
           /\ FindAt(tree, r[i].x, r[i].y, Inner) = i
           /\ FindAt(tree, r[i].x + r[i].w - 1, r[i].y + r[i].h - 1, Inner) = i

\* The split at a path, with its area; None when the path ends at a pane.
SplitAt(t, a, path) ==
  IF path \in Splits(t) THEN [dir |-> t[path].dir, ratio |-> t[path].ratio, area |-> Areas(t, a)[path]]
  ELSE None

\* A dragged separator stays within a cell of the pointer, up to the limits
\* of a tenth and nine tenths: calc_ratio divides by the cells between the
\* panes while split_area multiplies by the cells plus a slot.  It is claimed
\* while the split that was grabbed is still where it was; another client may
\* have split or closed panes since, and then the path names another split.
DragFollows ==
  drag # None =>
    LET here == SplitAt(tree, Clipped(Inner), drag.path)
        a == drag.area
        size == IF drag.dir = "h" THEN a.w ELSE a.h
        after(k) == SplitAt(SetRatioAt(tree, drag.path, CalcRatio(drag, a.x + k, a.y + k)),
                            Clipped(Inner), drag.path)
        sep(k) == LET p == SplitArea(a, drag.dir, after(k).ratio)
                  IN  IF drag.dir = "h" THEN p[1].w ELSE p[1].h
    IN  here # None /\ here.dir = drag.dir /\ here.area = a =>
          \A k \in {n \in 0 .. size - 1 : 10 * n >= size - 1 /\ 10 * n <= 9 * (size - 1)} :
            sep(k) - k \in -1 .. 1
=============================================================================
