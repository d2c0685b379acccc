----------------------------- MODULE PaneSetup -----------------------------
(***************************************************************************)
(* What the server loop does with new panes (src/src/server/mod.rs): it    *)
(* sets the configured scrollback budget and clipboard policy on them and  *)
(* announces them.  The panes themselves are those of module Panes, whose  *)
(* steps are extended here by what they do to two sets: the loop's         *)
(* spawned_seen, which holds bare ids, and the panes that are configured.  *)
(***************************************************************************)
EXTENDS Panes

VARIABLES
    spawned_seen,   \* ids the loop knows
    configured      \* <<tab, id>> of the panes with budget and policy set

setup == <<spawned_seen, configured>>

\* The panes of the active tab are configured at boot, and known in the first
\* round.
SetupInit ==
    /\ Init
    /\ spawned_seen = {0}
    /\ configured = {<<cur, 0>>}

\* The detector of new panes, before the output is read.
SetupWatch ==
    /\ Watch
    /\ configured' = configured \cup {<<cur, i>> : i \in Present(cur) \ spawned_seen}
    /\ spawned_seen' = Present(cur)

Restarted == {p \in Tabs \X Ids : Dead(p[1], p[2]) /\ panes'[p[1]][p[2]] = Spawned}

\* The loop configures what it restarted in the active tab.
SetupRestart ==
    /\ Restart
    /\ configured' = (configured \ Restarted) \cup {p \in Restarted : p[1] = cur}
    /\ UNCHANGED spawned_seen

OtherTabs == {p \in configured : p[1] # cur}

SetupClose ==
    /\ CloseDeadTab \/ CloseTab
    /\ configured' = OtherTabs
    /\ UNCHANGED spawned_seen

\* The new process of a replaced pane, like that of a split, is not.
SetupChange(i) ==
    /\ ClosePane(i) \/ Replace(i)
    /\ configured' = configured \ {<<cur, i>>}
    /\ UNCHANGED spawned_seen

SetupNewTab ==
    /\ NewTab
    /\ configured' = configured \cup {<<cur', 0>>}
    /\ UNCHANGED spawned_seen

SetupLoad ==
    /\ Load
    /\ configured' = {} /\ spawned_seen' = {}

SetupNext ==
    \/ SetupWatch \/ SetupRestart \/ SetupClose \/ (\E i \in Ids : SetupChange(i))
    \/ SetupNewTab \/ SetupLoad
    \/ /\ LastTabDies \/ TabLives \/ Wait(0) \/ Wait(1) \/ Split \/ SwitchTab \/ Exited
       /\ UNCHANGED setup

SetupSpec == SetupInit /\ [][SetupNext]_<<vars, setup>>

\* Every pane of the active tab that the detector has been over has the
\* configured byte budget and clipboard policy: "Apply byte budget + clipboard
\* policy on every newly-spawned pane".
EveryPaneConfigured ==
    phase = "restart" => \A i \in Present(cur) : <<cur, i>> \in configured

=============================================================================
