---------------------------- MODULE PanesProofs ----------------------------
(* Proofs about Panes, for any tabs, panes, policies and retry budget.     *)
EXTENDS Panes, TLAPS

\* The restarts an entry accounts for.
Counted(e) == IF e = None THEN 0 ELSE e.retries

\* The entry of a pane accounts for all its restarts ...
Accounted ==
    \A t \in Tabs, i \in Ids :
        panes[t][i] # None => streak[t][i] <= Counted(restart_state[t][i])

\* ... ids that were not given out yet have no history ...
UnusedIds ==
    \A t \in Tabs, i \in Ids :
        i >= next_id[t] => panes[t][i] = None /\ streak[t][i] = 0

\* ... and neither have closed tabs.
ClosedTabs ==
    \A t \in Tabs \ open :
        next_id[t] = 1 /\ \A i \in Ids : panes[t][i] = None /\ streak[t][i] = 0

Inv == TypeOK /\ RestartBudget /\ Accounted /\ UnusedIds /\ ClosedTabs

-----------------------------------------------------------------------------
\* The types of the tables' constant values.
LEMMA Values ==
  /\ Spawned \in Pane /\ Spawned # None
  /\ Fresh \in [Ids -> Pane \cup {None}] /\ Nobody \in [Ids -> Pane \cup {None}]
  /\ Nobody \in [Ids -> Entry \cup {None}]
  /\ Never \in [Ids -> Policy] /\ Zero \in [Ids -> Nat]
  /\ \A i \in Ids : Nobody[i] = None /\ Zero[i] = 0 /\ (i >= 1 => Fresh[i] = None)
<1>1. Spawned \in Pane
  BY DEF Spawned, Pane
<1>2. Spawned # None
  BY <1>1, NoneAssumption
<1>3. Nobody \in [Ids -> Pane \cup {None}] /\ Nobody \in [Ids -> Entry \cup {None}]
  BY DEF Nobody
<1>4. Fresh \in [Ids -> Pane \cup {None}]
  BY <1>1, <1>3, PanesAssumption DEF Fresh
<1>5. Never \in [Ids -> Policy] /\ Zero \in [Ids -> Nat]
  BY DEF Never, Policy, Zero
<1>6. \A i \in Ids : Nobody[i] = None /\ Zero[i] = 0
  BY DEF Nobody, Zero
<1>7. \A i \in Ids : i >= 1 => Fresh[i] = None
  BY <1>6, PanesAssumption DEF Fresh, Nobody
<1> QED
  BY <1>1, <1>2, <1>3, <1>4, <1>5, <1>6, <1>7

\* The initial state satisfies the invariant.
LEMMA InitInv == Init => Inv
<1> SUFFICES ASSUME Init PROVE Inv
  OBVIOUS
<1>1. TypeOK
  BY Values, PanesAssumption DEF Init, TypeOK
<1>2. /\ next_id = [t \in Tabs |-> 1] /\ streak = [t \in Tabs |-> Zero] /\ open = Snapshot
      /\ panes = [t \in Tabs |-> IF t \in Snapshot THEN Fresh ELSE Nobody]
  BY DEF Init
<1>3. \A t \in Tabs, i \in Ids : streak[t][i] = 0 /\ (i >= 1 => panes[t][i] = None)
  BY <1>2, Values
<1>4. \A t \in Tabs \ open, i \in Ids : panes[t][i] = None
  BY <1>2, Values
<1>5. RestartBudget
  BY <1>3, PanesAssumption DEF RestartBudget
<1>6. Accounted
  <2>1. restart_state = [t \in Tabs |-> Nobody]
    BY DEF Init
  <2> QED
    BY <1>3, <2>1, Values DEF Accounted, Counted
<1>7. UnusedIds /\ ClosedTabs
  BY <1>2, <1>3, <1>4 DEF UnusedIds, ClosedTabs
<1> QED
  BY <1>1, <1>5, <1>6, <1>7 DEF Inv

-----------------------------------------------------------------------------
(* What restart_panes does to one pane.                                    *)

\* What restart_dead_panes does to one pane keeps its policy's count in range.
LEMMA RestartOne ==
  ASSUME Inv, NEW t \in Tabs, NEW i \in Ids
  PROVE  /\ EntryAfter(t, i) \in Entry \cup {None}
         /\ StreakAfter(t, i) \in Nat /\ StreakAfter(t, i) <= MAX_RESTART_RETRIES
         /\ panes[t][i] # None => StreakAfter(t, i) <= Counted(EntryAfter(t, i))
         /\ panes[t][i] = None => ~Due(t, i) /\ StreakAfter(t, i) = streak[t][i]
<1> DEFINE e == restart_state[t][i]
           k == streak[t][i]
           p == panes[t][i]
<1>1. /\ e \in Entry \cup {None} /\ k \in Nat /\ k <= MAX_RESTART_RETRIES
      /\ p \in Pane \cup {None} /\ (p # None => k <= Counted(e))
  BY DEF Inv, TypeOK, RestartBudget, Accounted
<1>2. MAX_RESTART_RETRIES \in Nat \ {0} /\ STABLE \in Nat \ {0}
  BY PanesAssumption
<1>3. /\ Retained(t, i) \in {e, None}
      /\ Dead(t, i) => Retained(t, i) = e
      /\ p = None => ~Dead(t, i)
  BY DEF Retained, Dead
<1>4. Current(t, i) \in Entry /\ (Dead(t, i) => Current(t, i).retries >= Counted(e))
  <2>1. CASE Retained(t, i) = None
    <3>1. Current(t, i) = [age |-> 1, retries |-> 0]
      BY <2>1 DEF Current
    <3> QED
      BY <1>2, <1>3, <2>1, <3>1 DEF Entry, Counted
  <2>2. CASE Retained(t, i) # None
    <3>1. Current(t, i) = e /\ e \in Entry /\ e # None
      BY <1>1, <1>3, <2>2 DEF Current
    <3> QED
      BY <3>1 DEF Entry, Counted
  <2> QED
    BY <2>1, <2>2
<1> DEFINE c == Current(t, i)
<1>5. CASE Due(t, i)
  <2>1. Dead(t, i) /\ c.retries < MAX_RESTART_RETRIES
    BY <1>5 DEF Due, Candidate
  <2>2. /\ EntryAfter(t, i) = [age |-> 0, retries |-> c.retries + 1]
        /\ StreakAfter(t, i) = k + 1
    BY <1>5 DEF EntryAfter, StreakAfter
  <2>3. c.retries \in Nat /\ k <= c.retries
    <3>1. c.retries \in Nat
      BY <1>4 DEF Entry
    <3>2. Counted(e) \in Nat
      BY <1>1 DEF Counted, Entry
    <3> QED
      BY <1>1, <1>3, <1>4, <2>1, <3>1, <3>2
  <2>4. EntryAfter(t, i) \in Entry
    BY <1>2, <2>1, <2>2, <2>3 DEF Entry
  <2>5. Counted(EntryAfter(t, i)) = c.retries + 1
    BY <2>2, <2>4, NoneAssumption DEF Counted
  <2> QED
    BY <1>1, <1>2, <1>3, <2>1, <2>2, <2>3, <2>4, <2>5
<1>6. CASE ~Due(t, i)
  <2>1. StreakAfter(t, i) \in {k, 0} /\ (p = None => StreakAfter(t, i) = k)
    BY <1>6 DEF StreakAfter
  <2>2. CASE Candidate(t, i)
    <3>1. EntryAfter(t, i) = c /\ Dead(t, i)
      BY <1>6, <2>2 DEF EntryAfter, Candidate
    <3>2. c # None /\ c.retries \in Nat
      BY <1>4, NoneAssumption DEF Entry
    <3>3. Counted(c) = c.retries
      BY <3>2 DEF Counted
    <3>4. Counted(e) \in Nat
      BY <1>1 DEF Counted, Entry
    <3>5. k <= Counted(c)
      BY <1>1, <1>3, <1>4, <3>1, <3>2, <3>3, <3>4
    <3> QED
      BY <1>1, <1>2, <1>4, <1>6, <2>1, <3>1, <3>2, <3>3, <3>5
  <2>3. CASE ~Candidate(t, i)
    <3>1. EntryAfter(t, i) = Retained(t, i)
      BY <1>6, <2>3 DEF EntryAfter
    <3>2. p # None => StreakAfter(t, i) <= Counted(EntryAfter(t, i))
      <4> HAVE p # None
      <4>1. CASE Retained(t, i) = e
        <5>1. Counted(e) \in Nat
          BY <1>1 DEF Counted, Entry
        <5> QED
          BY <1>1, <2>1, <3>1, <4>1, <5>1
      <4>2. CASE Retained(t, i) # e
        <5>1. Retained(t, i) = None /\ ~Dead(t, i)
          BY <1>3, <4>2
        <5>2. StreakAfter(t, i) = 0
          BY <1>6, <5>1 DEF StreakAfter, Dead
        <5> QED
          BY <3>1, <5>1, <5>2 DEF Counted
      <4> QED
        BY <4>1, <4>2
    <3> QED
      BY <1>1, <1>2, <1>3, <1>6, <2>1, <3>1, <3>2
  <2> QED
    BY <2>2, <2>3
<1> QED
  BY <1>5, <1>6

-----------------------------------------------------------------------------
(* The steps.                                                              *)

\* Looking for dead panes keeps the invariant.
LEMMA WatchInv == Inv /\ Watch => Inv'
<1> SUFFICES ASSUME Inv, Watch PROVE Inv'
  OBVIOUS
<1>1. PICK died \in SUBSET {p \in open \X Ids : panes[p[1]][p[2]] = Spawned} :
      \E code \in [died -> {"ok", "fail"}] :
          panes' = [t \in Tabs |-> [i \in Ids |->
              IF <<t, i>> \in died THEN [alive |-> FALSE, exit |-> code[<<t, i>>]]
              ELSE panes[t][i]]]
  BY DEF Watch
<1>2. PICK code \in [died -> {"ok", "fail"}] :
          panes' = [t \in Tabs |-> [i \in Ids |->
              IF <<t, i>> \in died THEN [alive |-> FALSE, exit |-> code[<<t, i>>]]
              ELSE panes[t][i]]]
  BY <1>1
<1>3. \A t \in Tabs, i \in Ids : <<t, i>> \in died => t \in open /\ panes[t][i] = Spawned
  BY <1>1
<1>4. \A t \in Tabs, i \in Ids :
        /\ panes'[t][i] \in Pane \cup {None}
        /\ panes[t][i] = None => panes'[t][i] = None
  <2> TAKE t \in Tabs, i \in Ids
  <2>1. CASE <<t, i>> \in died
    <3>1. panes'[t][i] = [alive |-> FALSE, exit |-> code[<<t, i>>]]
      BY <1>2, <2>1
    <3>2. code[<<t, i>>] \in {"ok", "fail"}
      BY <1>2, <2>1
    <3> QED
      BY <1>3, <2>1, <3>1, <3>2, Values DEF Pane
  <2>2. CASE <<t, i>> \notin died
    BY <1>2, <2>2 DEF Inv, TypeOK
  <2> QED
    BY <2>1, <2>2
<1>5. panes' \in [Tabs -> [Ids -> Pane \cup {None}]]
  BY <1>2, <1>4
<1>6. /\ UNCHANGED <<open, cur, next_id, restart_policies, restart_state, streak>>
      /\ phase' = "restart"
  BY DEF Watch, tabs
<1>7. TypeOK'
  BY <1>5, <1>6 DEF Inv, TypeOK
<1> QED
  BY <1>4, <1>6, <1>7 DEF Inv, RestartBudget, Accounted, UnusedIds, ClosedTabs

\* So does restarting those that are due.
LEMMA RestartInv == Inv /\ Restart => Inv'
<1> SUFFICES ASSUME Inv, Restart PROVE Inv'
  OBVIOUS
<1>1. PICK failed \in SUBSET {p \in open \X Ids : Due(p[1], p[2])} :
        panes' = [t \in Tabs |-> [i \in Ids |->
            IF Due(t, i) /\ <<t, i>> \notin failed THEN Spawned ELSE panes[t][i]]]
  BY DEF Restart
<1>2. /\ restart_state' = [t \in Tabs |-> [i \in Ids |-> EntryAfter(t, i)]]
      /\ streak' = [t \in Tabs |-> [i \in Ids |-> StreakAfter(t, i)]]
      /\ phase' = "dead" /\ UNCHANGED <<open, cur, next_id, restart_policies>>
  BY DEF Restart, tabs
<1>3. \A t \in Tabs, i \in Ids :
        /\ panes'[t][i] \in Pane \cup {None}
        /\ panes[t][i] = None => panes'[t][i] = None
        /\ panes'[t][i] = None => panes[t][i] = None
  <2> TAKE t \in Tabs, i \in Ids
  <2>1. panes'[t][i] = IF Due(t, i) /\ <<t, i>> \notin failed THEN Spawned ELSE panes[t][i]
    BY <1>1
  <2>2. panes[t][i] = None => ~Due(t, i)
    BY RestartOne
  <2>3. panes[t][i] \in Pane \cup {None}
    BY DEF Inv, TypeOK
  <2> QED
    BY <2>1, <2>2, <2>3, Values
<1>4. \A t \in Tabs, i \in Ids :
        /\ restart_state'[t][i] \in Entry \cup {None}
        /\ streak'[t][i] \in Nat /\ streak'[t][i] <= MAX_RESTART_RETRIES
        /\ panes[t][i] # None => streak'[t][i] <= Counted(restart_state'[t][i])
        /\ panes[t][i] = None => streak'[t][i] = streak[t][i]
  BY <1>2, RestartOne
<1>5. TypeOK'
  <2>1. panes' \in [Tabs -> [Ids -> Pane \cup {None}]]
    BY <1>1, <1>3
  <2>2. restart_state' \in [Tabs -> [Ids -> Entry \cup {None}]]
    BY <1>2, <1>4
  <2>3. streak' \in [Tabs -> [Ids -> Nat]]
    BY <1>2, <1>4
  <2> QED
    BY <1>2, <2>1, <2>2, <2>3 DEF Inv, TypeOK
<1>6. RestartBudget' /\ Accounted'
  BY <1>3, <1>4 DEF RestartBudget, Accounted
<1>7. UnusedIds' /\ ClosedTabs'
  BY <1>2, <1>3, <1>4 DEF Inv, UnusedIds, ClosedTabs
<1> QED
  BY <1>5, <1>6, <1>7 DEF Inv

\* The clock leaves the count of an entry alone.
LEMMA WaitInv == ASSUME NEW d \in Nat PROVE Inv /\ Wait(d) => Inv'
<1> SUFFICES ASSUME Inv, Wait(d) PROVE Inv'
  OBVIOUS
<1> DEFINE older(e) == [e EXCEPT !.age = IF @ + d > STABLE THEN STABLE ELSE @ + d]
<1>1. /\ restart_state' = [t \in Tabs |-> [i \in Ids |->
           IF restart_state[t][i] = None THEN None ELSE older(restart_state[t][i])]]
      /\ phase' = "watch" /\ UNCHANGED <<open, cur, next_id, restart_policies, panes, streak>>
  BY DEF Wait, tabs
<1>2. \A e \in Entry : older(e) \in Entry /\ older(e).retries = e.retries
  BY PanesAssumption DEF Entry
<1> HIDE DEF older
<1>3. \A t \in Tabs, i \in Ids :
        /\ restart_state'[t][i] \in Entry \cup {None}
        /\ Counted(restart_state'[t][i]) = Counted(restart_state[t][i])
  <2> TAKE t \in Tabs, i \in Ids
  <2>1. restart_state[t][i] \in Entry \cup {None}
    BY DEF Inv, TypeOK
  <2>2. restart_state'[t][i] = IF restart_state[t][i] = None THEN None
                               ELSE older(restart_state[t][i])
    BY <1>1
  <2> QED
    BY <1>2, <2>1, <2>2, NoneAssumption DEF Counted
<1>4. restart_state' \in [Tabs -> [Ids -> Entry \cup {None}]]
  BY <1>1, <1>3
<1>5. TypeOK'
  BY <1>1, <1>4 DEF Inv, TypeOK
<1> QED
  BY <1>1, <1>3, <1>5 DEF Inv, RestartBudget, Accounted, UnusedIds, ClosedTabs

\* So does closing the active tab.
LEMMA CloseInv ==
  ASSUME Inv, CloseActive, phase' \in {"input", "dead"}
  PROVE  Inv'
<1>1. /\ open' = open \ {cur} /\ cur' \in open'
      /\ panes' = [panes EXCEPT ![cur] = Nobody]
      /\ restart_state' = [restart_state EXCEPT ![cur] = Nobody]
      /\ restart_policies' = [restart_policies EXCEPT ![cur] = Never]
      /\ next_id' = [next_id EXCEPT ![cur] = 1]
      /\ streak' = [streak EXCEPT ![cur] = Zero]
  BY DEF CloseActive
<1>2. cur \in Tabs /\ open \subseteq Tabs
  BY DEF Inv, TypeOK
<1>3. TypeOK'
  BY <1>1, <1>2, Values DEF Inv, TypeOK
<1>4. \A t \in Tabs, i \in Ids :
        \/ /\ t = cur /\ panes'[t][i] = None /\ streak'[t][i] = 0 /\ next_id'[t] = 1
        \/ /\ t # cur /\ panes'[t][i] = panes[t][i] /\ streak'[t][i] = streak[t][i]
           /\ restart_state'[t][i] = restart_state[t][i] /\ next_id'[t] = next_id[t]
  BY <1>1, <1>2, Values DEF Inv, TypeOK
<1>5. RestartBudget'
  <2>1. 0 <= MAX_RESTART_RETRIES
    BY PanesAssumption
  <2> QED
    BY <1>4, <2>1 DEF Inv, RestartBudget
<1>6. Accounted' /\ UnusedIds'
  BY <1>4 DEF Inv, Accounted, UnusedIds
<1>7. ClosedTabs'
  BY <1>1, <1>4, PanesAssumption DEF Inv, ClosedTabs
<1> QED
  BY <1>3, <1>5, <1>6, <1>7 DEF Inv

\* So does splitting a pane.
LEMMA SplitInv == Inv /\ Split => Inv'
<1> SUFFICES ASSUME Inv, Split PROVE Inv'
  OBVIOUS
<1>1. /\ next_id[cur] \in Ids
      /\ panes' = [panes EXCEPT ![cur][next_id[cur]] = Spawned]
      /\ next_id' = [next_id EXCEPT ![cur] = @ + 1]
      /\ UNCHANGED <<open, cur, restart_policies, restart_state, phase, streak>>
  BY DEF Split
<1>2. cur \in open /\ cur \in Tabs /\ \A t \in Tabs : next_id[t] \in Nat
  BY DEF Inv, TypeOK
<1>3. TypeOK'
  BY <1>1, <1>2, Values DEF Inv, TypeOK
<1>4. \A t \in Tabs, i \in Ids :
        /\ ~(t = cur /\ i = next_id[cur]) => panes'[t][i] = panes[t][i]
        /\ next_id'[t] = IF t = cur THEN next_id[t] + 1 ELSE next_id[t]
        /\ i \in Nat
  BY <1>1, <1>2, PanesAssumption DEF Inv, TypeOK
<1>5. streak[cur][next_id[cur]] = 0
  BY <1>1, <1>2 DEF Inv, UnusedIds
<1>6. \A e \in Entry \cup {None} : 0 <= Counted(e)
  BY DEF Counted, Entry
<1>7. Accounted'
  <2> SUFFICES ASSUME NEW t \in Tabs, NEW i \in Ids, panes'[t][i] # None
               PROVE  streak[t][i] <= Counted(restart_state[t][i])
    BY <1>1 DEF Accounted
  <2>1. restart_state[t][i] \in Entry \cup {None}
    BY DEF Inv, TypeOK
  <2> QED
    BY <1>4, <1>5, <1>6, <2>1 DEF Inv, Accounted
<1>8. UnusedIds'
  BY <1>1, <1>2, <1>4 DEF Inv, UnusedIds
<1>9. ClosedTabs' /\ RestartBudget'
  BY <1>1, <1>2, <1>4 DEF Inv, ClosedTabs, RestartBudget
<1> QED
  BY <1>3, <1>7, <1>8, <1>9 DEF Inv

\* So does closing a pane.
LEMMA ClosePaneInv == ASSUME NEW j \in Ids PROVE Inv /\ ClosePane(j) => Inv'
<1> SUFFICES ASSUME Inv, ClosePane(j) PROVE Inv'
  OBVIOUS
<1>1. /\ panes' = [panes EXCEPT ![cur][j] = None]
      /\ UNCHANGED <<open, cur, next_id, restart_policies, restart_state, phase, streak>>
  BY DEF ClosePane, tabs
<1>2. TypeOK'
  BY <1>1 DEF Inv, TypeOK
<1>3. \A t \in Tabs, i \in Ids : panes'[t][i] \in {panes[t][i], None}
  BY <1>1 DEF Inv, TypeOK
<1> QED
  BY <1>1, <1>2, <1>3 DEF Inv, RestartBudget, Accounted, UnusedIds, ClosedTabs

\* So does replacing a pane.
LEMMA ReplaceInv == ASSUME NEW j \in Ids PROVE Inv /\ Replace(j) => Inv'
<1> SUFFICES ASSUME Inv, Replace(j) PROVE Inv'
  OBVIOUS
<1>1. /\ panes[cur][j] # None
      /\ panes' = [panes EXCEPT ![cur][j] = Spawned]
      /\ streak' = [streak EXCEPT ![cur][j] = 0]
      /\ UNCHANGED <<open, cur, next_id, restart_policies, restart_state, phase>>
  BY DEF Replace, Present, tabs
<1>2. cur \in open /\ cur \in Tabs
  BY DEF Inv, TypeOK
<1>3. TypeOK'
  BY <1>1, <1>2, Values DEF Inv, TypeOK
<1>4. \A t \in Tabs, i \in Ids :
        \/ t = cur /\ i = j /\ streak'[t][i] = 0
        \/ panes'[t][i] = panes[t][i] /\ streak'[t][i] = streak[t][i]
  BY <1>1, <1>2 DEF Inv, TypeOK
<1>5. \A e \in Entry \cup {None} : 0 <= Counted(e)
  BY DEF Counted, Entry
<1>6. Accounted'
  <2> SUFFICES ASSUME NEW t \in Tabs, NEW i \in Ids, panes'[t][i] # None
               PROVE  streak'[t][i] <= Counted(restart_state[t][i])
    BY <1>1 DEF Accounted
  <2>1. restart_state[t][i] \in Entry \cup {None}
    BY DEF Inv, TypeOK
  <2> QED
    BY <1>4, <1>5, <2>1 DEF Inv, Accounted
<1>7. ~(j >= next_id[cur])
  BY <1>1, <1>2 DEF Inv, UnusedIds
<1>8. UnusedIds'
  BY <1>1, <1>4, <1>7 DEF Inv, UnusedIds
<1>9. ClosedTabs' /\ RestartBudget'
  BY <1>1, <1>2, <1>4, PanesAssumption DEF Inv, ClosedTabs, RestartBudget
<1> QED
  BY <1>3, <1>6, <1>8, <1>9 DEF Inv

\* So does opening a tab.
LEMMA NewTabInv == Inv /\ NewTab => Inv'
<1> SUFFICES ASSUME Inv, NewTab PROVE Inv'
  OBVIOUS
<1>1. PICK n \in Tabs \ open :
        /\ open' = open \cup {n} /\ cur' = n
        /\ panes' = [panes EXCEPT ![n] = Fresh]
        /\ restart_policies' = [restart_policies EXCEPT ![n] = Never]
  BY DEF NewTab
<1>2. UNCHANGED <<next_id, restart_state, phase, streak>>
  BY DEF NewTab
<1>3. TypeOK'
  BY <1>1, <1>2, Values DEF Inv, TypeOK
<1>4. next_id[n] = 1 /\ \A i \in Ids : streak[n][i] = 0 /\ (i >= 1 => panes'[n][i] = None)
  BY <1>1, Values DEF Inv, TypeOK, ClosedTabs
<1>5. \A t \in Tabs : t # n => panes'[t] = panes[t]
  BY <1>1 DEF Inv, TypeOK
<1>6. \A e \in Entry \cup {None} : 0 <= Counted(e)
  BY DEF Counted, Entry
<1>7. Accounted'
  <2> SUFFICES ASSUME NEW t \in Tabs, NEW i \in Ids, panes'[t][i] # None
               PROVE  streak[t][i] <= Counted(restart_state[t][i])
    BY <1>2 DEF Accounted
  <2>1. restart_state[t][i] \in Entry \cup {None}
    BY DEF Inv, TypeOK
  <2> QED
    BY <1>4, <1>5, <1>6, <2>1 DEF Inv, Accounted
<1>8. UnusedIds'
  BY <1>2, <1>4, <1>5 DEF Inv, UnusedIds
<1>9. ClosedTabs' /\ RestartBudget'
  BY <1>1, <1>2, <1>5 DEF Inv, ClosedTabs, RestartBudget
<1> QED
  BY <1>3, <1>7, <1>8, <1>9 DEF Inv

\* A load starts over.
LEMMA LoadInv == Inv /\ Load => Inv'
<1> SUFFICES ASSUME Inv, Load PROVE Inv'
  OBVIOUS
<1>1. /\ next_id' = [t \in Tabs |-> 1] /\ streak' = [t \in Tabs |-> Zero]
      /\ open' = Snapshot /\ cur' \in Snapshot /\ restart_policies' = Policies
      /\ panes' = [t \in Tabs |-> IF t \in Snapshot THEN Fresh ELSE Nobody]
      /\ restart_state' = [t \in Tabs |-> Nobody] /\ UNCHANGED phase
  BY DEF Load
<1>2. TypeOK'
  BY <1>1, Values, PanesAssumption DEF Inv, TypeOK
<1>3. \A t \in Tabs, i \in Ids : streak'[t][i] = 0 /\ (i >= 1 => panes'[t][i] = None)
  BY <1>1, Values
<1>4. \A t \in Tabs \ open', i \in Ids : panes'[t][i] = None
  BY <1>1, Values
<1>5. RestartBudget' /\ Accounted'
  BY <1>1, <1>3, Values, PanesAssumption DEF RestartBudget, Accounted, Counted
<1>6. UnusedIds' /\ ClosedTabs'
  BY <1>1, <1>3, <1>4 DEF UnusedIds, ClosedTabs
<1> QED
  BY <1>2, <1>5, <1>6 DEF Inv

\* Steps that move only the loop, or the view.
LEMMA MoveInv ==
  ASSUME Inv, UNCHANGED <<open, next_id, restart_policies, panes, restart_state, streak>>,
         cur' \in open, phase' \in {"watch", "restart", "dead", "input", "exited"}
  PROVE  Inv'
<1>1. TypeOK'
  BY DEF Inv, TypeOK
<1> QED
  BY <1>1 DEF Inv, RestartBudget, Accounted, UnusedIds, ClosedTabs

\* Every step keeps the invariant.
LEMMA NextInv == Inv /\ [Next]_vars => Inv'
<1> SUFFICES ASSUME Inv, [Next]_vars PROVE Inv'
  OBVIOUS
<1>0. cur \in open /\ phase \in {"watch", "restart", "dead", "input", "exited"}
  BY DEF Inv, TypeOK
<1>1. CASE Watch
  BY <1>1, WatchInv
<1>2. CASE Restart
  BY <1>2, RestartInv
<1>3. CASE CloseDeadTab
  BY <1>3, CloseInv DEF CloseDeadTab
<1>4. CASE LastTabDies \/ TabLives
  BY <1>0, <1>4, MoveInv DEF LastTabDies, TabLives, tabs
<1>5. CASE Wait(0) \/ Wait(1)
  BY <1>5, WaitInv
<1>6. CASE Split
  BY <1>6, SplitInv
<1>7. CASE \E i \in Ids : ClosePane(i)
  BY <1>7, ClosePaneInv
<1>8. CASE \E i \in Ids : Replace(i)
  BY <1>8, ReplaceInv
<1>9. CASE SwitchTab
  BY <1>0, <1>9, MoveInv DEF SwitchTab
<1>10. CASE NewTab
  BY <1>10, NewTabInv
<1>11. CASE CloseTab
  BY <1>11, CloseInv DEF CloseTab
<1>12. CASE Load
  BY <1>12, LoadInv
<1>13. CASE Exited \/ UNCHANGED vars
  BY <1>0, <1>13, MoveInv DEF Exited, vars
<1> QED
  BY <1>1, <1>2, <1>3, <1>4, <1>5, <1>6, <1>7, <1>8, <1>9, <1>10, <1>11, <1>12, <1>13
     DEF Next, Round

\* Every reachable state has its types: in particular the retries that
\* restart_panes counts stay within the budget.
THEOREM TypeCorrect == Spec => []TypeOK
<1>1. Inv => TypeOK
  BY DEF Inv
<1> QED
  BY <1>1, InitInv, NextInv, PTL DEF Spec

\* For any set of tabs and panes, and whatever clients do in between, a pane
\* that never runs for 30 s is restarted at most MAX_RESTART_RETRIES times.
THEOREM BudgetHolds == Spec => []RestartBudget
<1>1. Inv => RestartBudget
  BY DEF Inv
<1> QED
  BY <1>1, InitInv, NextInv, PTL DEF Spec

=============================================================================
