----------------------------- MODULE TabManager -----------------------------
(***************************************************************************)
(* TabManager of src/src/tab.rs, together with the tab actions of the      *)
(* daemon's main loop in src/src/server/mod.rs that drive it.              *)
(*                                                                         *)
(* The active tab is unpacked into the main loop's local variables         *)
(* (`current' here); the manager stores the other tabs in order, with a    *)
(* gap at active_idx.  Indices of a Vec start at 0, those of a sequence    *)
(* at 1.  A tab is its identity and its name: layout and panes travel with *)
(* it unchanged.                                                           *)
(***************************************************************************)
EXTENDS Naturals, Sequences

CONSTANTS
    Titles,      \* names a user gives to tabs
    MaxTabs,     \* bound: tabs open at once
    MaxOpened    \* bound: tabs opened in a behaviour

ASSUME BoundsAssumption ==
    /\ Titles \subseteq Nat
    /\ MaxTabs \in Nat \ {0}
    /\ MaxOpened \in Nat \ {0}

Tab == [id : Nat, name : Nat]
Manager == [tabs : Seq(Tab), active_idx : Nat, count : Nat, next_id : Nat]

VARIABLES
    mgr,              \* the TabManager
    current,          \* the active tab, in the main loop's locals
    tab_count,        \* settings.tab_count, which sizes the tab bar row
    tab_names_cache,  \* what the renderer draws in the tab bar
    tab_names_dirty,  \* the cache must be rebuilt before the next frame
    serving,          \* the main loop has not returned
    opened,           \* history: identity of the latest tab
    auto_closed       \* history: the last change of tabs was an automatic close

tabVars == <<mgr, current, tab_count, tab_names_cache, tab_names_dirty, serving, opened, auto_closed>>

MinOf(a, b) == IF a <= b THEN a ELSE b

\* Vec::insert and Vec::remove.
VecInsert(s, i, x) ==
    [j \in 1 .. Len(s) + 1 |-> IF j <= i THEN s[j] ELSE IF j = i + 1 THEN x ELSE s[j - 1]]
VecRemove(s, i) == [j \in 1 .. Len(s) - 1 |-> IF j <= i THEN s[j] ELSE s[j + 1]]

-----------------------------------------------------------------------------
(* The methods of TabManager, as functions of the manager m.               *)

NewManager == [tabs |-> <<>>, active_idx |-> 0, count |-> 1, next_id |-> 2]

\* from_tabs: the manager, and the tab for the caller to unpack.
FromTabs(list, idx) ==
    LET i == MinOf(idx, Len(list) - 1)
    IN  [mgr |-> [tabs |-> VecRemove(list, i), active_idx |-> i,
                  count |-> Len(list), next_id |-> Len(list) + 1],
         tab |-> list[i + 1]]

\* Fill the gap with the active tab: all tabs in logical order.
Filled(m, cur) == VecInsert(m.tabs, MinOf(m.active_idx, Len(m.tabs)), cur)

SwitchRefused(m, target) == target = m.active_idx \/ target >= m.count

SwitchTo(m, target, cur) ==
    [mgr |-> [m EXCEPT !.tabs = VecRemove(Filled(m, cur), target), !.active_idx = target],
     tab |-> Filled(m, cur)[target + 1]]

CreateTab(m, cur) ==
    [tabs |-> Filled(m, cur), active_idx |-> m.count,
     count |-> m.count + 1, next_id |-> m.next_id + 1]

\* Mutant of NewActive: always the left neighbour.
NewActiveLeft(m) == IF m.active_idx = 0 THEN 0 ELSE m.active_idx - 1

\* close_active, when another tab is left.
NewActive(m) == IF m.active_idx >= m.count - 1 THEN m.count - 2 ELSE m.active_idx

CloseActive(m) ==
    [mgr |-> [m EXCEPT !.tabs = VecRemove(@, NewActive(m)), !.count = @ - 1,
                       !.active_idx = NewActive(m)],
     tab |-> m.tabs[NewActive(m) + 1]]

NextIdx(m) == IF m.count <= 1 THEN m.active_idx ELSE (m.active_idx + 1) % m.count

PrevIdx(m) ==
    IF m.count <= 1 THEN m.active_idx
    ELSE IF m.active_idx = 0 THEN m.count - 1 ELSE m.active_idx - 1

StorageIdx(m, i) == IF i < m.active_idx THEN i ELSE i - 1
GetInactive(m, i) == m.tabs[StorageIdx(m, i) + 1]

\* tab_names: the active tab's entry, and the stored ones in order around it.
TabNames(m, cur) ==
    [k \in 1 .. m.count |->
        IF k - 1 = m.active_idx
        THEN [name |-> cur.name, active |-> TRUE]
        ELSE [name |-> m.tabs[IF k - 1 < m.active_idx THEN k ELSE k - 1].name,
              active |-> FALSE]]

-----------------------------------------------------------------------------
Fresh(n) == [j \in 1 .. n |-> [id |-> opened + j, name |-> j]]

\* Boot: a single tab, or all the tabs of a saved session.
TabInit ==
    /\ \/ mgr = NewManager /\ current = [id |-> 1, name |-> 1] /\ opened = 1
       \/ \E n \in 2 .. MaxTabs, idx \in 0 .. MaxTabs :
            LET saved == FromTabs([j \in 1 .. n |-> [id |-> j, name |-> j]], idx)
            IN  mgr = saved.mgr /\ current = saved.tab /\ opened = n
    /\ tab_count = mgr.count
    /\ tab_names_cache = <<>>
    /\ tab_names_dirty = TRUE
    /\ serving = TRUE
    /\ auto_closed = FALSE

\* The main loop unpacks a tab the manager returned.
Unpack(r) ==
    /\ mgr' = r.mgr
    /\ current' = r.tab
    /\ tab_count' = r.mgr.count
    /\ UNCHANGED <<tab_names_cache, serving>>

\* TabAction::NewTab: the pane spawns ...
NewTab ==
    /\ serving /\ mgr.count < MaxTabs /\ opened < MaxOpened
    /\ opened' = opened + 1
    /\ \E name \in {mgr.next_id} \cup Titles :
        Unpack([mgr |-> CreateTab(mgr, current), tab |-> [id |-> opened + 1, name |-> name]])
    /\ tab_names_dirty' = TRUE
    /\ auto_closed' = FALSE

\* ... or it does not, and the empty tab is closed again: its neighbour, the
\* last of the other tabs, comes on screen.
NewTabFails ==
    /\ serving /\ mgr.count < MaxTabs /\ mgr.next_id <= MaxOpened
    /\ Unpack(CloseActive(CreateTab(mgr, current)))
    /\ tab_names_dirty' = TRUE
    /\ auto_closed' = FALSE
    /\ UNCHANGED opened

\* Mutant of SwitchTab: the cached tab bar is not marked.
SwitchTabUnmarked ==
    /\ serving
    /\ \E target \in {NextIdx(mgr), PrevIdx(mgr)} \cup 0 .. MaxTabs :
        /\ ~SwitchRefused(mgr, target)
        /\ Unpack(SwitchTo(mgr, target, current))
    /\ auto_closed' = FALSE
    /\ UNCHANGED <<opened, tab_names_dirty>>

\* TabAction::NextTab, PrevTab and GoToTab; a refused switch changes nothing.
SwitchTab ==
    /\ serving
    /\ \E target \in {NextIdx(mgr), PrevIdx(mgr)} \cup 0 .. MaxTabs :
        /\ ~SwitchRefused(mgr, target)
        /\ Unpack(SwitchTo(mgr, target, current))
    /\ tab_names_dirty' = TRUE
    /\ auto_closed' = FALSE
    /\ UNCHANGED opened

\* TabAction::CloseTab.
CloseTab ==
    /\ serving
    /\ IF mgr.count = 1
       THEN serving' = FALSE
            /\ UNCHANGED <<mgr, current, tab_count, tab_names_cache, tab_names_dirty, auto_closed>>
       ELSE Unpack(CloseActive(mgr)) /\ tab_names_dirty' = TRUE /\ auto_closed' = FALSE
    /\ UNCHANGED opened

\* The main loop found every pane of the active tab dead.
ActiveTabDead ==
    /\ serving
    /\ IF mgr.count > 1
       THEN Unpack(CloseActive(mgr)) /\ auto_closed' = TRUE /\ UNCHANGED tab_names_dirty
       ELSE serving' = FALSE
            /\ UNCHANGED <<mgr, current, tab_count, tab_names_cache, tab_names_dirty, auto_closed>>
    /\ UNCHANGED opened

\* TabAction::Rename.
Rename ==
    /\ serving
    /\ \E name \in Titles : current' = [current EXCEPT !.name = name]
    /\ tab_names_dirty' = TRUE
    /\ auto_closed' = FALSE
    /\ UNCHANGED <<mgr, tab_count, tab_names_cache, serving, opened>>

\* IPC Load of a snapshot that could be spawned completely.
Load ==
    /\ serving
    /\ \E n \in 1 .. MaxTabs, idx \in 0 .. MaxTabs :
        /\ opened + n <= MaxOpened
        /\ opened' = opened + n
        /\ Unpack(FromTabs(Fresh(n), idx))
    /\ tab_names_dirty' = TRUE
    /\ auto_closed' = FALSE

\* TabAction::KillSession, a kill request or SIGTERM.
KillSession ==
    /\ serving
    /\ serving' = FALSE
    /\ UNCHANGED <<mgr, current, tab_count, tab_names_cache, tab_names_dirty, opened, auto_closed>>

\* A frame is rendered.
RenderTabs ==
    /\ serving
    /\ tab_names_cache' = IF tab_names_dirty THEN TabNames(mgr, current) ELSE tab_names_cache
    /\ tab_names_dirty' = FALSE
    /\ UNCHANGED <<mgr, current, tab_count, serving, opened, auto_closed>>

TabsStopped == ~serving /\ UNCHANGED tabVars

TabNext ==
    \/ NewTab \/ NewTabFails \/ SwitchTab \/ CloseTab \/ ActiveTabDead
    \/ Rename \/ Load \/ KillSession \/ RenderTabs \/ TabsStopped

TabSpec == TabInit /\ [][TabNext]_tabVars

-----------------------------------------------------------------------------
\* The tabs in the order the user sees them.
Logical == VecInsert(mgr.tabs, mgr.active_idx, current)

\* Every variable keeps its type.
TypeOK ==
    /\ mgr \in Manager /\ current \in Tab
    /\ tab_count \in Nat /\ opened \in Nat
    /\ {tab_names_dirty, serving, auto_closed} \subseteq BOOLEAN

\* The stored tabs and the gap always add up, so no Vec index of tab.rs can
\* panic, and the tab bar row is sized for the real number of tabs.
GapConsistent ==
    /\ mgr.count = Len(mgr.tabs) + 1
    /\ mgr.active_idx < mgr.count
    /\ tab_count = mgr.count

\* The two other ways of reading the manager, get_inactive (snapshots and
\* ls_tree) and tab_names (tab bar, mouse), see the same list: every tab at
\* its own index, the active one marked.
IndexViewsAgree ==
    /\ \A i \in 0 .. mgr.count - 1 :
        i # mgr.active_idx => GetInactive(mgr, i) = Logical[i + 1]
    /\ \A i \in 0 .. mgr.count - 1 :
        TabNames(mgr, current)[i + 1] = [name |-> Logical[i + 1].name, active |-> i = mgr.active_idx]

\* No tab is ever in two places: saving the active tab and unpacking another
\* never duplicates one.
NoDuplicateTab ==
    \A i, j \in 1 .. Len(Logical) : i # j => Logical[i].id # Logical[j].id

\* The renderer's cached names are current whenever they are not marked dirty,
\* except after the main loop closed a dead tab by itself.
BarFreshUnlessAutoClosed ==
    tab_names_dirty \/ auto_closed \/ tab_names_cache = TabNames(mgr, current)

TL == INSTANCE TabList WITH list <- Logical, sel <- mgr.active_idx + 1

\* The gap representation implements the user's list of tabs.
RefinesTabList == TL!Spec

\* "Spawn failed -- revert: close this empty tab and restore previous": the tab
\* that was on screen when a new one could not be started is on screen again.
RevertRestores == [][NewTabFails => current' = current]_tabVars
=============================================================================
