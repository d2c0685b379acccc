------------------------------ MODULE Display ------------------------------
(***************************************************************************)
(* What a pane's program writes and where it goes: past the interceptor    *)
(* (PaneControl) into the emulator and from there to the clients' screens  *)
(* (Terminal), into copy mode and the buffers (CopyMode), and to the       *)
(* user's clipboard (Clipboard).  The parts share none of their state, so  *)
(* a behaviour moves one of them.                                          *)
(***************************************************************************)
EXTENDS Terminal, CopyMode, PaneControl, Clipboard

VARIABLE part

displayVars == <<termVars, copyVars, controlVars, clipVars, part>>

\* A part that does not move is in one of its initial states.
Init ==
    /\ TermInit /\ CopyInit /\ ControlInit /\ ClipInit
    /\ part \in {"term", "copy", "control", "clip"}
    /\ part # "term" => role = "frame"
    /\ part # "clip" => policy = [set |-> "confirm", get |-> "deny"]

Screens ==
    \/ part = "term" /\ TermNext /\ UNCHANGED copyVars
    \/ part = "copy" /\ CopyNext /\ UNCHANGED termVars

Controls ==
    \/ part = "control" /\ ControlNext /\ UNCHANGED clipVars
    \/ part = "clip" /\ ClipNext /\ UNCHANGED controlVars

Next ==
    \/ Screens /\ UNCHANGED <<controlVars, clipVars, part>>
    \/ Controls /\ UNCHANGED <<termVars, copyVars, part>>

Spec == Init /\ [][Next]_displayVars
=============================================================================
