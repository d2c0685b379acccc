----------------------------- MODULE LayoutTree -----------------------------
(***************************************************************************)
(* The layout tree of a tab (src/layout.rs): a binary tree of splits whose *)
(* leaves are pane ids, and the rectangles, separators, hit tests and      *)
(* moves computed from it.                                                 *)
(*                                                                         *)
(* A tree is the function from the paths that lead to its nodes to what is *)
(* there: a path is a sequence of BOOLEANs, TRUE = second, as SepHit.path  *)
(* is, a leaf is [id], a split is [dir, ratio] with dir "h" (side by side) *)
(* or "v" (one above the other).  What the code does in a walk down the    *)
(* tree is said here of all paths at once; the order of the walk, first    *)
(* before second, is Before.                                               *)
(*                                                                         *)
(* Ratios are f32 in the code; here they are integers in units of 1/Scale, *)
(* and the rounding of a product is to the nearest cell, halves up, as     *)
(* f32::round does.                                                        *)
(***************************************************************************)
EXTENDS Integers, Sequences, FiniteSets, TLC, SeqOps

SeqX == INSTANCE SequencesExt
SetX == INSTANCE FiniteSetsExt

CONSTANT None  \* no pane, no hit: a model value
ASSUME NoneAssumption == None \notin Nat

Scale == 10000
U16Max == 65535

Leaf(i) == [p \in {<<>>} |-> [id |-> i]]
IsLeaf(t) == DOMAIN t = {<<>>}
Leaves(t) == {p \in DOMAIN t : Append(p, FALSE) \notin DOMAIN t}
Splits(t) == DOMAIN t \ Leaves(t)

\* The tree of a split with subtrees a and b.
Node(d, r, a, b) ==
  [p \in {<<>>} \cup {<<FALSE>> \o q : q \in DOMAIN a} \cup {<<TRUE>> \o q : q \in DOMAIN b} |->
     IF p = <<>> THEN [dir |-> d, ratio |-> r] ELSE IF Head(p) THEN b[Tail(p)] ELSE a[Tail(p)]]

Rect(x, y, w, h) == [x |-> x, y |-> y, w |-> w, h |-> h]
Least(a, b) == IF a < b THEN a ELSE b
Most(a, b) == IF a < b THEN b ELSE a
Clamp(n, lo, hi) == Least(Most(n, lo), hi)
Clipped(a) == [a EXCEPT !.w = Least(@, U16Max - a.x), !.h = Least(@, U16Max - a.y)]
Contains(a, x, y) == x >= a.x /\ x - a.x < a.w /\ y >= a.y /\ y - a.y < a.h

-----------------------------------------------------------------------------
(* Reading the tree *)

\* Left of, or above: where the paths part, p goes to the first.
Before(p, q) ==
  \E k \in DOMAIN p \cap DOMAIN q : ~p[k] /\ q[k] /\ \A j \in 1 .. k - 1 : p[j] = q[j]
Rank(t, p) == Cardinality({q \in Leaves(t) : Before(q, p)})

Ids(t) == {t[p].id : p \in Leaves(t)}
CountLeaves(t) == Cardinality(Leaves(t))
PaneIds(t) ==
  [k \in 1 .. CountLeaves(t) |-> t[CHOOSE p \in Leaves(t) : Rank(t, p) = k - 1].id]
PathTo(t, i) == CHOOSE p \in Leaves(t) : t[p].id = i
Up(p) == SubSeq(p, 1, Len(p) - 1)

\* As SplitArea without the guard for areas too small for a separator.
SplitAreaAlways(area, d, ratio) ==
  LET a == Clipped(area)
      size == IF d = "h" THEN a.w ELSE a.h
      part == Most(((2 * (size + 1) * ratio + Scale) \div (2 * Scale)) - 1, 1)
  IN  IF d = "h"
      THEN <<[a EXCEPT !.w = part], [a EXCEPT !.x = @ + part + 1, !.w = Most(size - 1 - part, 0)]>>
      ELSE <<[a EXCEPT !.h = part], [a EXCEPT !.y = @ + part + 1, !.h = Most(size - 1 - part, 0)]>>

\* The two areas of a split: one cell goes to the separator, unless the area
\* is too small for two panes and a separator; then the second gets nothing.
SplitArea(area, d, ratio) ==
  LET a == Clipped(area)
      size == IF d = "h" THEN a.w ELSE a.h
      usable == Most(size - 1, 0)
      slots == (2 * (size + 1) * ratio + Scale) \div (2 * Scale)
      part == Clamp(Most(slots - 1, 0), 1, usable - 1)
  IN  IF usable < 2
      THEN IF d = "h" THEN <<a, [a EXCEPT !.w = 0]>> ELSE <<a, [a EXCEPT !.h = 0]>>
      ELSE IF d = "h"
      THEN <<[a EXCEPT !.w = part], [a EXCEPT !.x = @ + part + 1, !.w = usable - part]>>
      ELSE <<[a EXCEPT !.h = part], [a EXCEPT !.y = @ + part + 1, !.h = usable - part]>>

\* The areas of all nodes, from the one of the root.
Areas(t, a) ==
  LET r[p \in DOMAIN t] ==
        IF p = <<>> THEN a
        ELSE LET q == Up(p)
             IN  SplitArea(r[q], t[q].dir, t[q].ratio)[IF p[Len(p)] THEN 2 ELSE 1]
  IN  r

PaneRects(t, inner) ==
  LET r == Areas(t, Clipped(inner)) IN [i \in Ids(t) |-> r[PathTo(t, i)]]

\* The separator between the two areas of a split is drawn when the second
\* one is not empty, one cell longer at either end so that lines meet.
SepLine(d, a, p, outer) ==
  IF d = "h"
  THEN LET y0 == Most(Most(a.y - 1, 0), outer.y)
           y1 == Least(a.y + a.h, outer.y + outer.h - 1)
       IN  IF p[2].w > 0 /\ Contains(outer, p[1].x + p[1].w, a.y)
           THEN {Rect(p[1].x + p[1].w, y0, 1, Most(y1 - y0, 0) + 1)} ELSE {}
  ELSE LET x0 == Most(Most(a.x - 1, 0), outer.x)
           x1 == Least(a.x + a.w, outer.x + outer.w - 1)
       IN  IF p[2].h > 0 /\ Contains(outer, a.x, p[1].y + p[1].h)
           THEN {Rect(x0, p[1].y + p[1].h, Most(x1 - x0, 0) + 1, 1)} ELSE {}

\* The walk ends at an empty area; all areas below it are empty, too.
Separators(t, a, outer) ==
  LET r == Areas(t, a)
      drawn == {p \in Splits(t) : 0 \notin {r[p].w, r[p].h, outer.w, outer.h}}
  IN  UNION {SepLine(t[p].dir, r[p], SplitArea(r[p], t[p].dir, t[p].ratio), outer) : p \in drawn}

\* The first pane of the walk that has the cell.
FindAt(t, x, y, a) ==
  LET r == Areas(t, a)
      hits == {p \in Leaves(t) : Contains(r[p], x, y)}
  IN  IF hits = {} THEN None
      ELSE t[CHOOSE p \in hits : \A q \in hits \ {p} : Before(p, q)].id

\* One cell of tolerance on either side of a separator.
OnSeparator(d, p, x, y) ==
  IF d = "h" THEN p[2].w > 0 /\ x - (p[1].x + p[1].w) \in -1 .. 1
             ELSE p[2].h > 0 /\ y - (p[1].y + p[1].h) \in -1 .. 1

\* The walk goes where the areas contain the cell, and stops at the first
\* split, parents before children, whose separator is there.
FindSepAt(t, x, y, a) ==
  LET r == Areas(t, a)
      hits == {p \in Splits(t) :
                 /\ \A q \in Splits(t) : SeqX!IsPrefix(q, p) => Contains(r[q], x, y)
                 /\ OnSeparator(t[p].dir, SplitArea(r[p], t[p].dir, t[p].ratio), x, y)}
      hit == CHOOSE p \in hits : \A q \in hits \ {p} : SeqX!IsPrefix(p, q) \/ Before(p, q)
  IN  IF hits = {} THEN None ELSE [path |-> hit, dir |-> t[hit].dir, area |-> r[hit]]

-----------------------------------------------------------------------------
(* Moving in the tree *)

VOverlap(a, b) == a.y < b.y + b.h /\ b.y < a.y + a.h
HOverlap(a, b) == a.x < b.x + b.w /\ b.x < a.x + a.w

IsAdjacent(from, to, nav) ==
  /\ 0 \notin {from.w, from.h, to.w, to.h}
  /\ CASE nav = "left"  -> to.x + to.w <= from.x /\ VOverlap(from, to)
       [] nav = "right" -> to.x >= from.x + from.w /\ VOverlap(from, to)
       [] nav = "up"    -> to.y + to.h <= from.y /\ HOverlap(from, to)
       [] nav = "down"  -> to.y >= from.y + from.h /\ HOverlap(from, to)

NavDistance(from, to, nav) ==
  Most(0, CASE nav = "left"  -> from.x - (to.x + to.w)
            [] nav = "right" -> to.x - (from.x + from.w)
            [] nav = "up"    -> from.y - (to.y + to.h)
            [] nav = "down"  -> to.y - (from.y + from.h))

\* The nearest pane in a direction; of several the one with the least id.
Nearest(r, from, nav) ==
  LET near == {i \in DOMAIN r \ {from} : IsAdjacent(r[from], r[i], nav)}
      closest == {i \in near : \A j \in near :
                    NavDistance(r[from], r[i], nav) <= NavDistance(r[from], r[j], nav)}
  IN  IF from \notin DOMAIN r \/ near = {} THEN None ELSE SetX!Min(closest)

Navigate(t, from, nav, inner) == Nearest(PaneRects(t, inner), from, nav)

PosOf(t, i) == IF i \in Ids(t) THEN Rank(t, PathTo(t, i)) + 1 ELSE 1
NextPane(t, i) == PaneIds(t)[(PosOf(t, i) % CountLeaves(t)) + 1]
PrevPane(t, i) == PaneIds(t)[IF PosOf(t, i) = 1 THEN CountLeaves(t) ELSE PosOf(t, i) - 1]

-----------------------------------------------------------------------------
(* Changing the tree *)

CountUnder(t, p) == Cardinality({q \in Leaves(t) : SeqX!IsPrefix(p, q)})

Equalize(t) ==
  [p \in DOMAIN t |->
     IF p \in Leaves(t) THEN t[p]
     ELSE LET left == CountUnder(t, Append(p, FALSE))
              total == CountUnder(t, p)
          IN  [t[p] EXCEPT !.ratio = (2 * left * Scale + total) \div (2 * total)]]

SplitNode(t, target, new, d) ==
  LET p == PathTo(t, target)
  IN  IF target \notin Ids(t) THEN t
      ELSE [q \in DOMAIN t \cup {Append(p, FALSE), Append(p, TRUE)} |->
              CASE q = p                -> [dir |-> d, ratio |-> Scale \div 2]
                [] q = Append(p, FALSE) -> t[p]
                [] q = Append(p, TRUE)  -> [id |-> new]
                [] OTHER                -> t[q]]

\* Layout::split: every split sets all the ratios anew.
Split(t, target, new, d) == Equalize(SplitNode(t, target, new, d))

\* The sibling of the pane, with all that is below it, takes its parent's place.
RemoveNode(t, target) ==
  LET p == PathTo(t, target)
      parent == Up(p)
      sibling == Append(parent, ~p[Len(p)])
      kept == {q \in DOMAIN t : ~SeqX!IsPrefix(parent, q)}
      raised == {q \in DOMAIN t : SeqX!IsPrefix(sibling, q)}
      Place(q) == parent \o SubSeq(q, Len(sibling) + 1, Len(q))
      From(q) == sibling \o SubSeq(q, Len(parent) + 1, Len(q))
  IN  [q \in kept \cup {Place(r) : r \in raised} |-> IF q \in kept THEN t[q] ELSE t[From(q)]]

\* Layout::remove: the last pane stays in the tree.
Remove(t, target) ==
  IF CountLeaves(t) <= 1 \/ target \notin Ids(t) THEN t ELSE RemoveNode(t, target)

SwapPanes(t, a, b) ==
  [p \in DOMAIN t |->
     IF p \in Leaves(t) /\ t[p].id \in {a, b}
     THEN [id |-> IF t[p].id = a THEN b ELSE a] ELSE t[p]]

ClampRatio(r) == Clamp(r, Scale \div 10, (9 * Scale) \div 10)

\* A path that has gone stale and leads to a pane or nowhere moves nothing.
SetRatioAt(t, path, r) ==
  IF path \in Splits(t) THEN [t EXCEPT ![path].ratio = ClampRatio(r)] ELSE t

AdjustRatioAt(t, path, delta) ==
  IF path \in Splits(t) THEN [t EXCEPT ![path].ratio = ClampRatio(@ + delta)] ELSE t

\* The splits above a pane.
PathToPane(t, target) ==
  IF target \in Ids(t) THEN {p \in Splits(t) : SeqX!IsPrefix(p, PathTo(t, target))} ELSE {}

\* The splits whose separator lies on the side the pane grows to; resize_pane
\* moves the nearest of them and reports whether there is one.
Crumbs(t, target, nav) ==
  {p \in PathToPane(t, target) :
     /\ t[p].dir = IF nav \in {"left", "right"} THEN "h" ELSE "v"
     /\ PathTo(t, target)[Len(p) + 1] = (nav \in {"left", "up"})}

ResizePane(t, target, nav, delta) ==
  LET crumbs == Crumbs(t, target, nav)
      nearest == CHOOSE p \in crumbs : \A q \in crumbs : Len(q) <= Len(p)
  IN  IF crumbs = {} THEN t
      ELSE AdjustRatioAt(t, nearest, IF nav \in {"left", "up"} THEN -delta ELSE delta)

-----------------------------------------------------------------------------
(* Building a tree *)

WeightedRow(weights, id) ==
  LET total(c) == Total(SubSeq(weights, c, Len(weights)))
      row[c \in 1 .. Len(weights)] ==
        IF c = Len(weights) THEN Leaf(id + c - 1)
        ELSE Node("h", (2 * weights[c] * Scale + total(c)) \div (2 * total(c)),
                  Leaf(id + c - 1), row[c + 1])
  IN  row[1]

WeightedColumn(rows) ==
  LET column[k \in 1 .. Len(rows)] ==
        LET n == Len(rows) - k + 1
        IN  IF n = 1 THEN rows[k]
            ELSE Node("v", (2 * Scale + n) \div (2 * n), rows[k], column[k + 1])
  IN  column[1]

\* A layout spec is a sequence of rows, each a sequence of weights.  The ids
\* are numbered row by row from 0.
FromSpec(spec) ==
  LET before(k) == Total([j \in 1 .. k - 1 |-> Len(spec[j])])
  IN  WeightedColumn([k \in 1 .. Len(spec) |-> WeightedRow(spec[k], before(k))])

FromGrid(rows, cols) == FromSpec([r \in 1 .. rows |-> [c \in 1 .. cols |-> 1]])

\* Layout::singleton: what a zoomed pane is hit-tested against.
Singleton(i) == Leaf(i)

\* bootstrap's reconfigure_layout: the running panes keep their order; a spec
\* with another number of panes is refused.
Reconfigure(t, spec) ==
  LET new == FromSpec(spec)
  IN  IF CountLeaves(new) # CountLeaves(t) THEN t
      ELSE [p \in DOMAIN new |->
              IF p \in Leaves(new) THEN [id |-> PaneIds(t)[Rank(new, p) + 1]] ELSE new[p]]

\* do_split refuses to split a pane that is too small for two.
RoomToSplit(r, d) == IF d = "h" THEN r.w >= 13 /\ r.h >= 3 ELSE r.h >= 7 /\ r.w >= 6
=============================================================================
