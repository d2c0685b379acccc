----------------------------- MODULE Workbench -----------------------------
(***************************************************************************)
(* One round of the daemon's main loop, seen from the user's hands: the    *)
(* input modes, what keys, clicks, palette commands and control requests   *)
(* do to the tabs and their panes, and the repairs the loop makes between  *)
(* them.  A round is                                                       *)
(*    top     panes die, an empty tab is closed, zoom is repaired          *)
(*    events  a batch of key and mouse events of all clients               *)
(*    leave   clients that left are removed; the last one causes a save    *)
(*    act     the one tab action the batch has left behind                 *)
(*    ipc     control requests                                             *)
(*    draw    zoom follows the active pane; the frame                      *)
(* The tabs stand in their order, the one on screen at position cur        *)
(* (TabManager is the module for how the code stores them).                *)
(***************************************************************************)
EXTENDS LayoutTree

CONSTANTS Terms,     \* effective terminal sizes <<tw, th>>
          Looks,     \* [style, status, tabbar]: settings a user may choose
          Specs,     \* layouts a command may select
          Ratios,    \* bound on the ratios reached by resizing
          MaxTabs, MaxPanes, MaxId, MaxClients, MaxName,
          MaxActs    \* bound on keys, clicks, requests and other outside events

\* A spec has rows, a row has panes, a pane has a weight; the first terminal
\* is the widest, and the settings a session starts with are among the looks.
ASSUME BenchAssumption ==
  /\ Terms \subseteq Nat \X Nat /\ \E t \in Terms : \A u \in Terms : t[1] >= u[1]
  /\ Looks \subseteq [style : STRING, status : BOOLEAN, tabbar : BOOLEAN]
  /\ \E l \in Looks : l.style # "none" /\ l.status
  /\ Specs \subseteq Seq(Seq(Nat \ {0}) \ {<<>>}) \ {<<>>}

VARIABLES phase, tabs, cur, mode, panel, look, term, pend, cache, clients, leaving, saved,
          acts

benchVars == <<phase, tabs, cur, mode, panel, look, term, pend, cache, clients, leaving, saved, acts>>

NUL == "nul"
Arrows == {"left", "right", "up", "down"}
Delta == Scale \div 20

-----------------------------------------------------------------------------
(* Geometry and the panes of a tab *)

\* content_area and terminal_render_height: what borders and bars leave.
Content(l, trm, n) ==
  LET bar == IF l.style = "none" /\ l.tabbar /\ n > 1 THEN 1 ELSE 0
      rows == Most(Most(trm[2] - bar, 0) - (IF l.status THEN 1 ELSE 0), 0)
      side == IF l.style = "none" THEN 0 ELSE 1
  IN  Rect(Least(side, trm[1]), Least(1, rows), Most(trm[1] - 2 * side, 0), Most(rows - 1 - side, 0))

DimsOf(r) == <<Most(r.w, 1), Most(r.h, 1)>>

\* resize_all: every pane of the layout gets its rectangle's size.
ResizeAll(t, area) ==
  LET r == PaneRects(t.tree, area)
  IN  [t EXCEPT !.size = [i \in DOMAIN @ |-> IF i \in DOMAIN r THEN DimsOf(r[i]) ELSE @[i]],
                !.unfit = FALSE]

ResizeZoomed(t, i, area) ==
  IF i \in DOMAIN t.size THEN [t EXCEPT !.size[i] = DimsOf(area)] ELSE t

\* do_split; a refusal or a failed spawn leaves everything as it was.
DoSplit(t, i, d, area, spawns) ==
  IF ~(/\ i \in DOMAIN t.size /\ i \in Ids(t.tree)
       /\ Cardinality(DOMAIN t.size) < MaxPanes
       /\ RoomToSplit(PaneRects(t.tree, area)[i], d)
       /\ spawns)
  THEN t
  ELSE ResizeAll([t EXCEPT !.tree = Split(t.tree, i, t.next, d), !.next = t.next + 1,
                           !.size = [j \in DOMAIN @ \cup {t.next} |->
                                       IF j = t.next THEN <<1, 1>> ELSE @[j]]], area)

\* As ClosePane, but the focus is left on the pane that is gone.
ClosePaneKeepsFocus(t, i, area) ==
  LET tree == IF CountLeaves(t.tree) > 1 /\ i \in Ids(t.tree) THEN Remove(t.tree, i) ELSE t.tree
  IN  ResizeAll([t EXCEPT !.tree = tree, !.dead = @ \ {i},
                          !.size = [j \in DOMAIN @ \ {i} |-> @[j]]], area)

\* close_pane and the resize_all after it: the last pane goes, its leaf stays.
ClosePane(t, i, area) ==
  LET tree == IF CountLeaves(t.tree) > 1 /\ i \in Ids(t.tree) THEN Remove(t.tree, i) ELSE t.tree
  IN  ResizeAll([t EXCEPT !.tree = tree, !.dead = @ \ {i},
                          !.size = [j \in DOMAIN @ \ {i} |-> @[j]],
                          !.active = IF @ = i THEN Head(PaneIds(tree)) ELSE @], area)

\* replace_pane: a new process at the size of the layout's rectangle.
ReplacePane(t, i, area) ==
  [t EXCEPT !.size[i] = DimsOf(PaneRects(t.tree, area)[i]), !.dead = @ \ {i}]

SwapWith(t, other) ==
  IF other = t.active THEN t
  ELSE [t EXCEPT !.tree = SwapPanes(t.tree, t.active, other), !.unfit = TRUE]

Focus(t, i) == [t EXCEPT !.active = i]

Navigated(t, nav, area) ==
  LET n == Navigate(t.tree, t.active, nav, area) IN IF n # None THEN Focus(t, n) ELSE t

Resized(t, nav, area) ==
  IF Crumbs(t.tree, t.active, nav) = {} THEN t
  ELSE ResizeAll([t EXCEPT !.tree = ResizePane(t.tree, t.active, nav, Delta)], area)

Equalized(t, area) == ResizeAll([t EXCEPT !.tree = Equalize(t.tree)], area)

\* As ToggleZoom, but leaving zoom does not resize.
ToggleZoomOnly(t, i, area) ==
  IF t.zoom # None THEN [t EXCEPT !.zoom = None]
  ELSE ResizeZoomed([t EXCEPT !.zoom = i], i, area)

ToggleZoom(t, i, area) ==
  IF t.zoom # None THEN ResizeAll([t EXCEPT !.zoom = None], area)
  ELSE ResizeZoomed([t EXCEPT !.zoom = i], i, area)

\* A tab of n panes side by side.
NewTab(n, area) ==
  LET tree == FromGrid(1, n)
      r == PaneRects(tree, area)
  IN  [tree |-> tree, next |-> n, size |-> [i \in 0 .. n - 1 |-> DimsOf(r[i])], dead |-> {},
       active |-> 0, zoom |-> None, unfit |-> FALSE, stray |-> FALSE]

-----------------------------------------------------------------------------
BenchInit ==
  /\ phase = "events" /\ cur = 1 /\ mode = [kind |-> "normal"] /\ panel = FALSE
  /\ look = (CHOOSE l \in Looks : l.style # "none" /\ l.status)
  /\ term = (CHOOSE t \in Terms : \A u \in Terms : t[1] >= u[1])
  /\ tabs = <<NewTab(2, Content(look, term, 1))>>
  /\ pend = [kind |-> "none"] /\ cache = {0, 1}
  /\ clients = 1 /\ leaving = 0 /\ saved = TRUE /\ acts = 0

Tab == tabs[cur]
Area == Content(look, term, Len(tabs))
More == acts < MaxActs
Become(t) == tabs' = [tabs EXCEPT ![cur] = t]
To(m) == mode' = [kind |-> m]

Naming == [kind |-> "rename", buf |-> <<NUL>>]
\* The question "close this pane?" as the user has seen it: of which pane of
\* which tab.  It is unsettled once the focus has moved under it.
Asking(i) == [kind |-> "close", of |-> i, tab |-> cur]
Unsettled(m) == IF m.kind = "close" THEN Asking(None) ELSE m

\* What an event handler leaves alone.
Loop == UNCHANGED <<phase, cur, term, cache, clients, saved>>
Quiet == Loop /\ UNCHANGED <<panel, look, pend, leaving>>
Listening(m) == phase = "events" /\ clients > leaving /\ mode.kind = m

-----------------------------------------------------------------------------
(* Keys *)

\* execute_command: what a command does to the tab's panes.
Commands(t) ==
  {DoSplit(t, t.active, d, Area, ok) : d \in {"h", "v"}, ok \in BOOLEAN}
    \cup {Navigated(t, nav, Area) : nav \in Arrows}
    \cup {Resized(t, nav, Area) : nav \in Arrows}
    \cup {SwapWith(t, PrevPane(t.tree, t.active)), SwapWith(t, NextPane(t.tree, t.active))}
    \cup {ResizeAll([t EXCEPT !.tree = Reconfigure(t.tree, s)], Area) : s \in Specs}

\* The keys of prefix mode that work on the panes.  The last active pane, for
\* ';', may be any that still exists.
PrefixEdits(t) ==
  {DoSplit(t, t.active, d, Area, ok) : d \in {"h", "v"}, ok \in BOOLEAN}
    \cup {Focus(t, NextPane(t.tree, t.active)), Equalized(t, Area), ToggleZoom(t, t.active, Area)}
    \cup {Navigated(t, nav, Area) : nav \in Arrows}
    \cup {SwapWith(t, PrevPane(t.tree, t.active)), SwapWith(t, NextPane(t.tree, t.active))}
    \cup {Focus(t, i) : i \in DOMAIN t.size}

\* execute_action: a bound key runs a command, or equalizes; broadcast, named
\* buffers and the other actions leave the panes as they are.
BoundEdits(t) == Commands(t) \cup {t, Equalized(t, Area)}

Bounded(t) == t.next <= MaxId /\ (~IsLeaf(t.tree) => t.tree[<<>>].ratio \in Ratios)

TabActions ==
  [kind : {"new", "next", "prev"}] \cup [kind : {"goto"}, to : 1 .. MaxTabs + 1]

PressPrefix == Listening("normal") /\ To("prefix") /\ UNCHANGED tabs /\ Quiet

PrefixEdit ==
  /\ Listening("prefix") /\ To("normal")
  /\ \E t \in PrefixEdits(Tab) : Bounded(t) /\ Become(t)
  /\ Quiet

\* Keys that open another mode; copy mode needs a pane to look at.
PrefixMode(m) ==
  /\ Listening("prefix")
  /\ IF m = "copy" /\ Tab.active \notin DOMAIN Tab.size THEN To("normal")
     ELSE mode' = CASE m = "rename" -> Naming
                    [] m = "close"  -> Asking(Tab.active)
                    [] OTHER        -> [kind |-> m]
  /\ UNCHANGED tabs /\ Quiet

\* The prefix key again, and any key without a meaning.
PrefixOther == Listening("prefix") /\ To("normal") /\ UNCHANGED tabs /\ Quiet

\* A later tab action of the same batch replaces an earlier one.
PrefixTab(a) ==
  /\ Listening("prefix") /\ To("normal") /\ pend' = a
  /\ UNCHANGED <<tabs, panel, look, leaving>> /\ Loop

PrefixDetach ==
  /\ Listening("prefix") /\ To("normal") /\ leaving' = leaving + 1
  /\ UNCHANGED <<tabs, panel, look, pend>> /\ Loop

PrefixStatusBar ==
  /\ Listening("prefix") /\ To("normal")
  /\ look' = [look EXCEPT !.status = ~@] /\ look' \in Looks
  /\ Become(ResizeAll(Tab, Content(look', term, Len(tabs))))
  /\ UNCHANGED <<panel, pend, leaving>> /\ Loop

\* A key bound by the user's keymap, in normal mode or after the prefix.  The
\* modes, tab actions and options it can stand for are those of the prefix keys
\* and of the palette.
BoundKey ==
  /\ Listening(mode.kind) /\ mode.kind \in {"normal", "prefix"} /\ To("normal")
  /\ mode.kind = "normal" => ~panel
  /\ \/ /\ \E t \in BoundEdits(Tab) : Bounded(t) /\ Become(t)
        /\ UNCHANGED panel
     \/ panel' = ~panel /\ UNCHANGED tabs
  /\ UNCHANGED <<look, pend, leaving>> /\ Loop

\* A yes-or-no question; every other key is a no.
ConfirmClose(yes) ==
  /\ Listening("close") /\ To("normal")
  /\ Become(IF yes THEN ClosePane(Tab, Tab.active, Area) ELSE Tab)
  /\ Quiet

ConfirmTab(yes) ==
  /\ Listening("closetab") /\ To("normal")
  /\ pend' = IF yes THEN [kind |-> "close"] ELSE pend
  /\ UNCHANGED <<tabs, panel, look, leaving>> /\ Loop

ConfirmQuit(yes) ==
  /\ Listening("quit")
  /\ IF yes THEN pend' = [kind |-> "kill"] /\ UNCHANGED mode
     ELSE To("normal") /\ UNCHANGED pend
  /\ UNCHANGED <<tabs, panel, look, leaving>> /\ Loop

HelpKey == Listening("help") /\ To("normal") /\ UNCHANGED tabs /\ Quiet

SelectKey(n) ==
  LET ids == PaneIds(Tab.tree)
  IN  /\ Listening("select") /\ To("normal")
      /\ Become(IF n <= Len(ids) /\ ids[n] \in DOMAIN Tab.size THEN Focus(Tab, ids[n]) ELSE Tab)
      /\ Quiet

ResizeKey ==
  /\ Listening("resize")
  /\ \/ /\ \E nav \in Arrows : LET t == Resized(Tab, nav, Area) IN Bounded(t) /\ Become(t)
        /\ UNCHANGED mode
     \/ To("normal") /\ UNCHANGED tabs
  /\ Quiet

\* Typing a tab name.  The buffer starts with a sentinel that the main loop
\* replaces at the end of the batch.
RenameKey ==
  /\ Listening("rename")
  /\ \/ /\ Len(mode.buf) < MaxName
        /\ mode' = [mode EXCEPT !.buf = Append(@, "c")] /\ UNCHANGED pend
     \/ /\ mode' = [mode EXCEPT !.buf = IF @ = <<>> THEN @ ELSE SubSeq(@, 1, Len(@) - 1)]
        /\ UNCHANGED pend
     \/ /\ pend' = IF mode.buf = <<>> THEN pend ELSE [kind |-> "rename", buf |-> mode.buf]
        /\ To("normal")
     \/ To("normal") /\ UNCHANGED pend
  /\ UNCHANGED <<tabs, panel, look, leaving>> /\ Loop

\* Enter in the palette runs a command, kill-pane without a question; Esc
\* leaves; an error is only shown.
PaletteKey ==
  /\ Listening("palette") /\ To("normal")
  /\ \/ (\E t \in Commands(Tab) \cup {ClosePane(Tab, Tab.active, Area)} : Bounded(t) /\ Become(t)) /\ UNCHANGED <<pend, look>>
     \/ /\ pend' \in [kind : {"new", "close"}] \cup [kind : {"rename"}, buf : {<<"c">>}]
        /\ UNCHANGED <<tabs, look>>
     \/ /\ \E on \in BOOLEAN, bar \in {"status", "tabbar"} : look' = [look EXCEPT ![bar] = on] /\ look' \in Looks
        /\ Become(ResizeAll(Tab, Content(look', term, Len(tabs)))) /\ UNCHANGED pend
     \/ UNCHANGED <<tabs, pend, look>>
  /\ UNCHANGED <<panel, leaving>> /\ Loop

\* Esc, q or a yank; without a pane the key is swallowed.
CopyKey ==
  /\ Listening("copy")
  /\ IF Tab.active \in DOMAIN Tab.size THEN To("normal") ELSE UNCHANGED mode
  /\ UNCHANGED tabs /\ Quiet

\* adjust and activate: one item of the settings panel is changed.
PanelChoices(l) ==
  {[l EXCEPT !.status = ~@], [l EXCEPT !.tabbar = ~@]} \cup {[l EXCEPT !.style = m.style] : m \in Looks}

\* handle_key and handle_click: an item, or the panel is closed.
PanelOutcomes(l) ==
  {[look |-> m, open |-> TRUE] : m \in PanelChoices(l) \cap Looks} \cup {[look |-> l, open |-> FALSE]}

\* The settings panel takes the keys of normal mode and every click.  Bars
\* resize the panes; a border style only asks for a redraw.
PanelKey ==
  /\ Listening(mode.kind) /\ panel
  /\ \E o \in PanelOutcomes(look) :
       /\ panel' = o.open /\ look' = o.look
       /\ Become(IF <<o.look.status, o.look.tabbar>> # <<look.status, look.tabbar>>
                 THEN ResizeAll(Tab, Content(o.look, term, Len(tabs)))
                 ELSE [Tab EXCEPT !.unfit = @ \/ o.look # look])
  /\ UNCHANGED <<mode, pend, leaving>> /\ Loop

\* Enter on a dead pane starts its program again.
Respawn ==
  /\ Listening("normal") /\ ~panel /\ Tab.active \in Tab.dead
  /\ Tab.active \in Ids(Tab.tree) /\ Become(ReplacePane(Tab, Tab.active, Area))
  /\ UNCHANGED mode /\ Quiet

-----------------------------------------------------------------------------
(* The mouse: heard in normal mode only *)

\* As ClickPane, but a click is heard whatever is being asked.
ClickPaneAlways(i, double) ==
  /\ Listening(mode.kind) /\ ~panel
  /\ i \in IF Tab.zoom # None THEN {Tab.zoom} ELSE cache
  /\ i \in DOMAIN Tab.size
  /\ Become(Focus(IF double THEN ToggleZoom(Tab, i, Area) ELSE Tab, i))
  /\ UNCHANGED mode /\ Quiet

\* A click in a pane: rectangles are those of the last frame, or the whole
\* content for a zoomed pane.  A double click zooms.
ClickPane(i, double) ==
  /\ Listening("normal") /\ ~panel
  /\ i \in IF Tab.zoom # None THEN {Tab.zoom} ELSE cache
  /\ i \in DOMAIN Tab.size
  /\ Become(Focus(IF double THEN ToggleZoom(Tab, i, Area) ELSE Tab, i))
  /\ UNCHANGED mode /\ Quiet

\* The buttons above a pane.  Under zoom there is only the zoomed pane, which
\* an earlier event of the batch may have closed: then active goes astray.
ClickTitle(i, split) ==
  /\ Listening("normal") /\ ~panel
  /\ i \in IF Tab.zoom # None THEN {Tab.zoom} ELSE Ids(Tab.tree)
  /\ Tab.zoom = None => PaneRects(Tab.tree, Area)[i].w >= 4
  /\ IF split = "no"
     THEN /\ Become([Focus(Tab, i) EXCEPT !.stray = @ \/ i \notin Ids(Tab.tree)])
          /\ mode' = Asking(i)
     ELSE /\ LET t == DoSplit(Tab, i, split, Area, TRUE) IN Bounded(t) /\ Become(t)
          /\ UNCHANGED mode
  /\ Quiet

ClickTabBar(i, double) ==
  /\ Listening("normal") /\ ~panel /\ look.tabbar /\ Len(tabs) > 1 /\ i \in DOMAIN tabs
  /\ pend' = IF double /\ i = cur THEN pend ELSE [kind |-> "goto", to |-> i]
  /\ mode' = IF double THEN Naming ELSE mode
  /\ UNCHANGED <<tabs, panel, look, leaving>> /\ Loop

\* A client's connection ends, or it sends C_DETACH.
ClientGone ==
  /\ phase = "events" /\ clients > leaving /\ leaving' = leaving + 1
  /\ UNCHANGED <<tabs, mode, panel, look, pend>> /\ Loop

\* The prefix key and the keys that only open a mode are not counted.
Opening ==
  \/ PressPrefix
  \/ \E m \in {"close", "closetab", "quit", "help", "select", "rename", "palette", "resize", "copy"} :
       PrefixMode(m)

Event ==
  \/ PrefixEdit \/ PrefixOther \/ PrefixDetach \/ PrefixStatusBar
  \/ \E a \in TabActions : PrefixTab(a)
  \/ \E yes \in BOOLEAN : ConfirmClose(yes) \/ ConfirmTab(yes) \/ ConfirmQuit(yes)
  \/ HelpKey \/ ResizeKey \/ RenameKey \/ PaletteKey \/ CopyKey \/ PanelKey \/ BoundKey \/ Respawn
  \/ \E n \in 1 .. MaxPanes + 1 : SelectKey(n)
  \/ \E i \in 0 .. MaxId, d \in BOOLEAN : ClickPane(i, d) \/ ClickTabBar(i, d)
  \/ \E i \in 0 .. MaxId, split \in {"no", "h", "v"} : ClickTitle(i, split)
  \/ ClientGone

-----------------------------------------------------------------------------
(* The rest of the round *)

\* The effective size changed.
Rescaled(t, trm) ==
  LET a == Content(look, trm, Len(tabs))
  IN  IF trm = term THEN t ELSE ResizeZoomed(ResizeAll(t, a), t.zoom, a)

\* After the batch: resizes take effect, a fresh rename prompt gets the name.
EndBatch ==
  /\ phase = "events" /\ phase' = "leave"
  /\ term' \in IF clients > 0 /\ More THEN Terms ELSE {term}
  /\ Become(Rescaled(Tab, term'))
  /\ mode' = IF mode.kind = "rename" /\ mode.buf = <<NUL>> THEN [mode EXCEPT !.buf = <<"c">>] ELSE mode
  /\ UNCHANGED <<cur, panel, look, pend, cache, clients, leaving, saved>>

\* validate refuses a snapshot with a tab whose panes do not fit together.
Saves == \A k \in DOMAIN tabs : LET t == tabs[k] IN
           t.active \in Ids(t.tree) /\ t.zoom \in Ids(t.tree) \cup {None}

Leave ==
  /\ phase = "leave" /\ phase' = "act"
  /\ clients' = clients - leaving /\ leaving' = 0
  /\ term' \in IF leaving > 0 /\ clients' > 0 /\ More THEN Terms ELSE {term}
  /\ Become(Rescaled(Tab, term'))
  /\ IF leaving > 0 /\ clients' = 0
     THEN saved' = Saves /\ To("normal")
     ELSE UNCHANGED <<saved, mode>>
  /\ UNCHANGED <<cur, panel, look, pend, cache>>

\* The tab at position k comes on screen.
Show(all, k) ==
  /\ cur' = k
  /\ tabs' = [all EXCEPT ![k] = ResizeAll(@, Content(look, term, Len(all)))]

WithoutTab(k) == SeqX!RemoveAt(tabs, k)

Gone == phase' = "gone" /\ UNCHANGED <<tabs, cur, mode, cache>>

CloseTab ==
  IF Len(tabs) = 1 THEN Gone
  ELSE /\ Show(WithoutTab(cur), Least(cur, Len(tabs) - 1)) /\ To("normal")
       /\ phase' = "ipc" /\ UNCHANGED cache

SwitchTab(k) ==
  /\ IF k = cur \/ k \notin DOMAIN tabs THEN UNCHANGED <<tabs, cur, mode>>
     ELSE Show(tabs, k) /\ To("normal")
  /\ phase' = "ipc" /\ UNCHANGED cache

\* A shell that cannot be started brings back the tab that is now last, under
\* whatever question is being asked.
OpenTab ==
  /\ Len(tabs) < MaxTabs /\ phase' = "ipc" /\ UNCHANGED cache
  /\ \/ /\ Show(Append(tabs, NewTab(1, Content(look, term, Len(tabs) + 1))), Len(tabs) + 1)
        /\ To("normal")
     \/ Show(tabs, Len(tabs)) /\ mode' = IF cur = Len(tabs) THEN mode ELSE Unsettled(mode)

Act ==
  /\ phase = "act" /\ pend' = [kind |-> "none"]
  /\ CASE pend.kind = "new"   -> OpenTab
       [] pend.kind = "next"  -> SwitchTab((cur % Len(tabs)) + 1)
       [] pend.kind = "prev"  -> SwitchTab(IF cur = 1 THEN Len(tabs) ELSE cur - 1)
       [] pend.kind = "goto"  -> SwitchTab(pend.to)
       [] pend.kind = "close" -> CloseTab
       [] pend.kind = "kill"  -> Gone
       [] OTHER -> phase' = "ipc" /\ UNCHANGED <<tabs, cur, mode, cache>>
  /\ UNCHANGED <<panel, look, term, clients, leaving, saved>>

IpcEdits(t) ==
  {DoSplit(t, i, d, Area, ok) : i \in DOMAIN t.size, d \in {"h", "v"}, ok \in BOOLEAN}
    \cup {ClosePane(t, i, Area) : i \in DOMAIN t.size \cup Ids(t.tree)}
    \cup {Focus(t, i) : i \in DOMAIN t.size}
    \cup {Equalized(t, Area)}
    \cup {ResizeAll([t EXCEPT !.tree = Reconfigure(t.tree, s)], Area) : s \in Specs}
    \cup {ReplacePane(t, i, Area) : i \in DOMAIN t.size \cap Ids(t.tree)}

\* A control request; one that moves the focus unsettles an open question.
Ipc ==
  /\ phase = "ipc"
  /\ \/ /\ \E t \in IpcEdits(Tab) : Bounded(t) /\ Become(t)
        /\ mode' = IF tabs'[cur].active # Tab.active THEN Unsettled(mode) ELSE mode
        /\ UNCHANGED saved
     \/ saved' = Saves /\ UNCHANGED <<tabs, mode>>
  /\ UNCHANGED <<phase, cur, panel, look, term, pend, cache, clients, leaving>>

\* The end of the round: the frame is drawn from the state after this step.
Draw ==
  /\ phase = "ipc" /\ phase' = "top"
  /\ Become(IF Tab.zoom = None THEN Tab
            ELSE ResizeZoomed([Tab EXCEPT !.zoom = Tab.active], Tab.active, Area))
  /\ cache' = Ids(Tab.tree)
  /\ UNCHANGED <<cur, mode, panel, look, term, pend, clients, leaving, saved>>

\* reload_config: a file that cannot be read or is wrong anywhere changes
\* nothing; "dirty" if what is seen changes, the theme included.
ReloadConfig(l) == {[look |-> l, dirty |-> FALSE]} \cup [look : Looks, dirty : {TRUE}]

\* SIGHUP or prefix r, at the top of a round.
Reload ==
  /\ phase = "top"
  /\ \E o \in ReloadConfig(look) :
       LET a == Content(o.look, term, Len(tabs))
       IN  /\ look' = o.look
           /\ Become(IF o.dirty THEN ResizeZoomed(ResizeAll(Tab, a), Tab.zoom, a) ELSE Tab)
  /\ UNCHANGED <<phase, cur, mode, panel, term, pend, cache, clients, leaving, saved>>

HealZoom(t, area) ==
  IF t.zoom \in DOMAIN t.size \cup {None} THEN t ELSE ResizeAll([t EXCEPT !.zoom = None], area)

\* Programs end; a tab without a living pane is closed, the last one ends the
\* session; zoom on a pane that is gone is given up.
Top ==
  /\ phase = "top"
  /\ \E die \in {{}} \cup {{i} : i \in IF More THEN DOMAIN Tab.size \ Tab.dead ELSE {}} :
       LET t == [Tab EXCEPT !.dead = @ \cup die]
       IN  IF DOMAIN t.size # t.dead
           THEN /\ phase' = "door" /\ Become(HealZoom(t, Area))
                /\ UNCHANGED <<cur, mode, cache>>
           ELSE IF Len(tabs) = 1 THEN Gone
           ELSE LET k == Least(cur, Len(tabs) - 1)
                    n == WithoutTab(cur)[k]
                    a == Content(look, term, Len(tabs) - 1)
                IN  /\ phase' = "door" /\ cur' = k
                    /\ tabs' = [WithoutTab(cur) EXCEPT ![k] = HealZoom(ResizeAll(n, a), a)]
                    /\ To("normal") /\ cache' = Ids(n.tree)
  /\ saved' = TRUE /\ UNCHANGED <<panel, look, term, pend, clients, leaving>>

\* Three seconds after the prefix key its mode ends; one client may attach.
Door ==
  /\ phase = "door" /\ phase' = "events"
  /\ mode' \in IF mode.kind = "prefix" THEN {mode, [kind |-> "normal"]} ELSE {mode}
  /\ clients' \in {clients, Least(clients + 1, MaxClients)}
  /\ term' \in IF clients' > clients /\ More THEN Terms ELSE {term}
  /\ Become(Rescaled(Tab, term'))
  /\ UNCHANGED <<cur, panel, look, pend, cache, leaving, saved>>

BenchNext ==
  \/ (Event \/ Ipc \/ Reload) /\ More /\ acts' = acts + 1
  \/ /\ Opening \/ EndBatch \/ Leave \/ Act \/ Draw \/ Top \/ Door
     /\ acts' = IF term' = term THEN acts ELSE acts + 1

-----------------------------------------------------------------------------
(* Properties *)

\* Pane map, layout and focus are changed by many handlers and must agree:
\* when a frame is drawn, and in every tab put away, the panes are those of
\* the layout (or the last one was closed and its tab will be), keys have a
\* pane to go to, and the zoomed pane is the focused one.
ViewsAgree ==
  phase = "top" =>
    /\ \A k \in DOMAIN tabs : LET t == tabs[k] IN
         \/ t.stray
         \/ /\ DOMAIN t.size = Ids(t.tree) \/ (DOMAIN t.size = {} /\ IsLeaf(t.tree))
            /\ t.active \in Ids(t.tree) /\ \A i \in Ids(t.tree) : i < t.next
    /\ Tab.zoom \in {None, Tab.active}

\* What a program believes its size to be is what the frame gives it,
\* whatever was split, zoomed, switched, reloaded or restarted on the way;
\* only swapping panes and choosing a border leave the sizes as they were.
PanesFit ==
  phase = "top" =>
    IF Tab.zoom # None THEN Tab.active \in DOMAIN Tab.size => Tab.size[Tab.active] = DimsOf(Area)
    ELSE Tab.unfit \/ \A i \in DOMAIN Tab.size \cap Ids(Tab.tree) :
                        Tab.size[i] = DimsOf(PaneRects(Tab.tree, Area)[i])

\* "Close this pane?" is answered for the pane that was asked about: no key,
\* click or tab action of another client and no pane that dies moves the focus
\* meanwhile; only a control request does, and a new tab that cannot be started.
AnswerIsForAsked ==
  mode.kind = "close" /\ mode.of # None => mode.of = Tab.active /\ mode.tab = cur

\* Leaving a session saves it: the snapshot the last client causes, and the
\* one a control request asks for, is one that validate accepts.
SavesSucceed == saved # FALSE
=============================================================================
