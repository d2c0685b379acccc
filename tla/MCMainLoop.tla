----------------------------- MODULE MCMainLoop -----------------------------
(* The instance of MainLoop that TLC checks. *)
EXTENDS MainLoop

\* One terminal reports no columns; neither is the smaller one in both ways.
Terminals == {<<0, 3>>, <<2, 2>>}
=============================================================================
