------------------------------ MODULE MainLoop ------------------------------
(***************************************************************************)
(* The main loop's two tables: the attached clients (Session) and the tabs *)
(* (TabManager).  A tab action needs nothing of a client but that somebody *)
(* asked for it, and Session only asks whether the loop survives it, so a  *)
(* behaviour moves one of the two; "part" says which.                      *)
(***************************************************************************)
EXTENDS Session, TabManager

VARIABLE part

loopVars == <<part, vars, tabVars>>

\* A part that does not move is in one of its initial states.
LoopInit ==
    /\ part \in {"clients", "tabs"}
    /\ Init /\ TabInit
    /\ part = "clients" => mgr = NewManager

LoopNext ==
    \/ part = "clients" /\ Next /\ UNCHANGED <<part, tabVars>>
    \/ part = "tabs" /\ TabNext /\ UNCHANGED <<part, vars>>

LoopSpec == LoopInit /\ [][LoopNext]_loopVars
=============================================================================
