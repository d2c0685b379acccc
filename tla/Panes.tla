------------------------------- MODULE Panes -------------------------------
(***************************************************************************)
(* The life of the panes of all tabs as the server loop sees it, round     *)
(* after round (src/src/server/mod.rs, src/src/bootstrap.rs): the loop     *)
(* notices exits, restarts dead panes with a backoff and a retry budget,   *)
(* closes the active tab when all its panes are dead for good, and applies *)
(* the operations of clients and of IPC peers.                             *)
(*                                                                         *)
(* Pane ids are counted per tab.  Time passes, in units of 2 seconds,      *)
(* while the loop waits.  What the loop does with new panes is the subject *)
(* of module PaneSetup.                                                    *)
(***************************************************************************)
EXTENDS Naturals, FiniteSets

CONSTANTS
    Tabs,                 \* tabs; unused ones are open to NewTab
    Ids,                  \* pane ids within a tab, from 0
    Snapshot,             \* the tabs of the workspace that is restored or loaded
    Policies,             \* [Tabs -> [Ids -> restart policy]] of that workspace
    MAX_RESTART_RETRIES,  \* 10 in the code
    STABLE,               \* age of a restart that clears the budget (30 s)
    None                  \* no pane, no entry

Policy == {"never", "on_failure", "always"}

ASSUME PanesAssumption ==
    /\ Ids \subseteq Nat /\ 0 \in Ids
    /\ Snapshot \subseteq Tabs /\ Snapshot # {}
    /\ Policies \in [Tabs -> [Ids -> Policy]]
    /\ MAX_RESTART_RETRIES \in Nat \ {0} /\ STABLE \in Nat \ {0}

\* A pane is alive, or was found to have exited.
Pane == [alive : BOOLEAN, exit : {"-", "ok", "fail"}]
Entry == [age : 0 .. STABLE, retries : 0 .. MAX_RESTART_RETRIES]

ASSUME NoneAssumption == None \notin Pane \cup Entry

VARIABLES
    open,              \* the tabs there are
    cur,               \* the active one
    panes,             \* the panes of every tab (None: no such pane)
    next_id,           \* Layout.next_id of every tab: ids are not reused
    restart_policies,
    restart_state,
    phase,             \* where the loop is in its round
    streak             \* history: restarts since the pane last ran for 30 s

vars == <<open, cur, panes, next_id, restart_policies, restart_state, phase, streak>>
tabs == <<open, cur, next_id, restart_policies>>

\* A pane that has just been spawned.
Spawned == [alive |-> TRUE, exit |-> "-"]

Nobody == [i \in Ids |-> None]
Never == [i \in Ids |-> "never"]
Zero == [i \in Ids |-> 0]
Fresh == [Nobody EXCEPT ![0] = Spawned]

Present(t) == {i \in Ids : panes[t][i] # None}
Dead(t, i) == panes[t][i] # None /\ ~panes[t][i].alive

\* Boot: one pane in each restored tab.
Init ==
    /\ open = Snapshot /\ cur \in Snapshot
    /\ panes = [t \in Tabs |-> IF t \in Snapshot THEN Fresh ELSE Nobody]
    /\ next_id = [t \in Tabs |-> 1]
    /\ restart_policies = Policies
    /\ restart_state = [t \in Tabs |-> Nobody]
    /\ phase = "watch"
    /\ streak = [t \in Tabs |-> Zero]

-----------------------------------------------------------------------------
(* The round.                                                              *)

\* Read the output of all panes, whereby some are found dead.
Watch ==
    /\ phase = "watch"
    /\ \E died \in SUBSET {p \in open \X Ids : panes[p[1]][p[2]] = Spawned} :
       \E code \in [died -> {"ok", "fail"}] :
          panes' = [t \in Tabs |-> [i \in Ids |->
              IF <<t, i>> \in died THEN [alive |-> FALSE, exit |-> code[<<t, i>>]]
              ELSE panes[t][i]]]
    /\ phase' = "restart"
    /\ UNCHANGED <<tabs, restart_state, streak>>

restart_allowed(policy, exit) ==
    policy = "always" \/ (policy = "on_failure" /\ exit # "ok")

\* 2 * max(retries - 2, 1) seconds.
Delay(retries) == IF retries <= 3 THEN 1 ELSE retries - 2

\* Mutant of Retained: only the age decides.
RetainedByAge(t, i) ==
    IF /\ restart_state[t][i] # None /\ panes[t][i] # None
       /\ restart_state[t][i].age < STABLE
    THEN restart_state[t][i] ELSE None

\* restart_panes forgets the entry of a pane that is gone, or that is alive 30 s
\* after its restart.
Retained(t, i) ==
    IF /\ restart_state[t][i] # None /\ panes[t][i] # None
       /\ Dead(t, i) \/ restart_state[t][i].age < STABLE
    THEN restart_state[t][i] ELSE None

Candidate(t, i) ==
    Dead(t, i) /\ restart_allowed(restart_policies[t][i], panes[t][i].exit)

\* The entry restart_panes looks at: a new one is due at once.
Current(t, i) ==
    IF Retained(t, i) = None THEN [age |-> 1, retries |-> 0] ELSE Retained(t, i)

Due(t, i) ==
    /\ Candidate(t, i)
    /\ Current(t, i).retries < MAX_RESTART_RETRIES
    /\ Current(t, i).age >= Delay(Current(t, i).retries)

\* The new entry is written before the spawn: a failed one counts too.
EntryAfter(t, i) ==
    IF Due(t, i) THEN [age |-> 0, retries |-> Current(t, i).retries + 1]
    ELSE IF Candidate(t, i) THEN Current(t, i) ELSE Retained(t, i)

\* The history: alive for 30 s since the last restart.
StreakAfter(t, i) ==
    IF Due(t, i) THEN streak[t][i] + 1
    ELSE IF panes[t][i] # None /\ panes[t][i].alive /\ Retained(t, i) = None
    THEN 0 ELSE streak[t][i]

\* restart_panes for the active tab and for each inactive one.  The spawns in
\* failed fail.
Restart ==
    /\ phase = "restart"
    /\ \E failed \in SUBSET {p \in open \X Ids : Due(p[1], p[2])} :
          LET restarted(t, i) == Due(t, i) /\ <<t, i>> \notin failed IN
          panes' = [t \in Tabs |-> [i \in Ids |->
              IF restarted(t, i) THEN Spawned ELSE panes[t][i]]]
    /\ restart_state' = [t \in Tabs |-> [i \in Ids |-> EntryAfter(t, i)]]
    /\ streak' = [t \in Tabs |-> [i \in Ids |-> StreakAfter(t, i)]]
    /\ phase' = "dead"
    /\ UNCHANGED tabs

\* Mutant of active_tab_dead: the budget is not looked at.
active_tab_dead_policy_only ==
    \A i \in Present(cur) :
        Dead(cur, i) /\ ~restart_allowed(restart_policies[cur][i], panes[cur][i].exit)

active_tab_dead ==
    \A i \in Present(cur) :
        /\ Dead(cur, i)
        /\ \/ ~restart_allowed(restart_policies[cur][i], panes[cur][i].exit)
           \/ /\ restart_state[cur][i] # None
              /\ restart_state[cur][i].retries >= MAX_RESTART_RETRIES

\* kill_all_panes and TabManager::close_active: another tab becomes active.
CloseActive ==
    /\ Cardinality(open) > 1
    /\ open' = open \ {cur}
    /\ cur' \in open'
    /\ panes' = [panes EXCEPT ![cur] = Nobody]
    /\ restart_state' = [restart_state EXCEPT ![cur] = Nobody]
    /\ restart_policies' = [restart_policies EXCEPT ![cur] = Never]
    /\ next_id' = [next_id EXCEPT ![cur] = 1]
    /\ streak' = [streak EXCEPT ![cur] = Zero]

\* A dead active tab is closed, ...
CloseDeadTab ==
    /\ phase = "dead" /\ active_tab_dead
    /\ CloseActive
    /\ phase' = "input"

\* ... or, when it is the last one, the server exits.
LastTabDies ==
    /\ phase = "dead" /\ active_tab_dead /\ Cardinality(open) <= 1
    /\ phase' = "exited"
    /\ UNCHANGED <<tabs, panes, restart_state, streak>>

TabLives ==
    /\ phase = "dead" /\ ~active_tab_dead
    /\ phase' = "input"
    /\ UNCHANGED <<tabs, panes, restart_state, streak>>

\* The loop waits, and goes on to the next round.
Wait(d) ==
    /\ phase = "input"
    /\ restart_state' = [t \in Tabs |-> [i \in Ids |->
           IF restart_state[t][i] = None THEN None
           ELSE [restart_state[t][i] EXCEPT !.age = IF @ + d > STABLE THEN STABLE ELSE @ + d]]]
    /\ phase' = "watch"
    /\ UNCHANGED <<tabs, panes, streak>>

Round ==
    \/ Watch \/ Restart \/ CloseDeadTab \/ LastTabDies \/ TabLives \/ Wait(0) \/ Wait(1)

-----------------------------------------------------------------------------
(* Operations of clients and of IPC peers.                                 *)

\* do_split
Split ==
    /\ phase = "input" /\ next_id[cur] \in Ids /\ Present(cur) # {}
    /\ panes' = [panes EXCEPT ![cur][next_id[cur]] = Spawned]
    /\ next_id' = [next_id EXCEPT ![cur] = @ + 1]
    /\ UNCHANGED <<open, cur, restart_policies, restart_state, phase, streak>>

\* close_pane, of the last pane too.
ClosePane(i) ==
    /\ phase = "input" /\ i \in Present(cur)
    /\ panes' = [panes EXCEPT ![cur][i] = None]
    /\ UNCHANGED <<tabs, restart_state, phase, streak>>

\* replace_pane, for IPC Exec or for Enter in a dead pane.  The user's start
\* of a pane is not one of its restarts.
Replace(i) ==
    /\ phase = "input" /\ i \in Present(cur)
    /\ panes' = [panes EXCEPT ![cur][i] = Spawned]
    /\ streak' = [streak EXCEPT ![cur][i] = 0]
    /\ UNCHANGED <<tabs, restart_state, phase>>

SwitchTab ==
    /\ phase = "input"
    /\ cur' \in open \ {cur}
    /\ UNCHANGED <<open, next_id, restart_policies, panes, restart_state, phase, streak>>

\* A tab with one shell.
NewTab ==
    /\ phase = "input"
    /\ \E t \in Tabs \ open :
          /\ open' = open \cup {t} /\ cur' = t
          /\ panes' = [panes EXCEPT ![t] = Fresh]
          /\ restart_policies' = [restart_policies EXCEPT ![t] = Never]
    /\ UNCHANGED <<next_id, restart_state, phase, streak>>

CloseTab ==
    /\ phase = "input"
    /\ CloseActive
    /\ UNCHANGED phase

\* IPC Load: every tab and its panes are replaced, with their processes.
Load ==
    /\ phase = "input"
    /\ open' = Snapshot /\ cur' \in Snapshot
    /\ panes' = [t \in Tabs |-> IF t \in Snapshot THEN Fresh ELSE Nobody]
    /\ next_id' = [t \in Tabs |-> 1]
    /\ restart_policies' = Policies
    /\ restart_state' = [t \in Tabs |-> Nobody]
    /\ streak' = [t \in Tabs |-> Zero]
    /\ UNCHANGED phase

Exited == phase = "exited" /\ UNCHANGED vars

Next ==
    \/ Round \/ Split \/ (\E i \in Ids : ClosePane(i)) \/ (\E i \in Ids : Replace(i))
    \/ SwitchTab \/ NewTab \/ CloseTab \/ Load \/ Exited

Spec == Init /\ [][Next]_vars

\* The loop goes round, and time passes.
FairSpec == Spec /\ WF_vars(Round) /\ SF_vars(Wait(1))

-----------------------------------------------------------------------------
\* Every variable keeps its type: retries stay within the budget.
TypeOK ==
    /\ open \subseteq Tabs /\ cur \in open
    /\ panes \in [Tabs -> [Ids -> Pane \cup {None}]]
    /\ next_id \in [Tabs -> Nat]
    /\ restart_policies \in [Tabs -> [Ids -> Policy]]
    /\ restart_state \in [Tabs -> [Ids -> Entry \cup {None}]]
    /\ phase \in {"watch", "restart", "dead", "input", "exited"}
    /\ streak \in [Tabs -> [Ids -> Nat]]

\* A pane that never runs for 30 s is restarted at most MAX_RESTART_RETRIES
\* times: neither tab switches, failed spawns nor the passing of time while
\* it is dead renew its budget.
RestartBudget ==
    \A t \in Tabs, i \in Ids : streak[t][i] <= MAX_RESTART_RETRIES

\* An active tab whose panes are all dead does not linger: a pane comes back,
\* by a restart or by an operation, or the tab is left or the server exits.
DeadTabEnds ==
    (phase = "watch" /\ \A i \in Present(cur) : Dead(cur, i))
        ~> (phase = "exited" \/ \E i \in Present(cur) : ~Dead(cur, i))
=============================================================================
