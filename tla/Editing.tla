------------------------------ MODULE Editing ------------------------------
(***************************************************************************)
(* What the user edits: the geometry of one tab under drags and resizes    *)
(* (LayoutEdit) and the tabs, panes and modes of the main loop             *)
(* (Workbench).  The two share the layout tree and none of their state, so *)
(* a behaviour moves one of them.                                          *)
(***************************************************************************)
EXTENDS LayoutEdit, Workbench

VARIABLE part

editVars == <<layoutVars, benchVars, part>>

Init == LayoutInit /\ BenchInit /\ part \in {"layout", "bench"}

Next ==
  \/ part = "layout" /\ LayoutNext /\ UNCHANGED <<benchVars, part>>
  \/ part = "bench" /\ BenchNext /\ UNCHANGED <<layoutVars, part>>

Spec == Init /\ [][Next]_editVars
=============================================================================
