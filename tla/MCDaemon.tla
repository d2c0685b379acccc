------------------------------ MODULE MCDaemon ------------------------------
(* The instance of Daemon that TLC checks. *)
EXTENDS Daemon

MCFilters == {[session |-> {}, types |-> {}],
              [session |-> {"work"}, types |-> {"pane.exited", "config.reloaded"}]}

Always == [op |-> "none"]
OnFailure == [op |-> "!=", lhs |-> "pane.exit_code", quoted |-> FALSE, rhs |-> 0]

\* A command with a placeholder, one with a predicate, one too long, and one
\* for the end of the session.
MCRawHooks ==
    {[event |-> "after_pane_exit", exec |-> <<<<[lit |-> 2]>>, <<[var |-> "pane.cwd"]>>>>,
      when |-> Always],
     [event |-> "after_pane_exit", exec |-> <<<<[lit |-> 1]>>>>, when |-> OnFailure],
     [event |-> "after_pane_exit", exec |-> <<<<[lit |-> 9]>>>>, when |-> Always],
     [event |-> "before_session_destroy", exec |-> <<<<[lit |-> 1]>>>>, when |-> Always]}

Text(t, n, l) == [text |-> t, number |-> n, len |-> l]
MCPayloads ==
    {("pane.exit_code" :> Text("0", 0, 1)),
     ("pane.exit_code" :> Text("1", 1, 1) @@ "pane.cwd" :> Text("/long", -1, 5))}

Ask(cmds, p) == {[cmd |-> c, pane |-> p] : c \in cmds}
MCRequests ==
    [c \in Conns |-> IF c = CHOOSE x \in Conns : TRUE
                     THEN Ask({"close", "split", "save"}, 0) \cup Ask({"exec"}, 1)
                     ELSE Ask({"list", "ls_tree", "dump", "focus", "load"}, 0) \cup Ask({"layout"}, 2)]

-----------------------------------------------------------------------------
Pane(launch, sensitive, keep, rows) ==
    [launch |-> launch, sensitive |-> sensitive, keep |-> keep, rows |-> rows]
Tab(ids, next, at, zoom, ps) ==
    [ids |-> ids, next |-> next, active |-> at, zoom |-> zoom, panes |-> ps]

\* A tab with a command, one with a sensitive pane and a zoom, one with a leaf
\* that has no process, one whose zoomed pane is gone, one with a long history.
One == Tab(<<0>>, 1, 0, {}, (0 :> Pane("cmd", FALSE, "yes", 1)))
Two == Tab(<<2, 0>>, 3, 2, {0}, (0 :> Pane("key", TRUE, "yes", 2)) @@ (2 :> Pane("cmd", FALSE, "default", 2)))
Gone == Tab(<<0, 1>>, 2, 1, {}, (0 :> Pane("shell", FALSE, "no", 1)))
StaleZoom == Tab(<<1>>, 2, 1, {0}, (1 :> Pane("shell", FALSE, "default", 0)))
Long == Tab(<<0>>, 1, 0, {}, (0 :> Pane("cmd", FALSE, "yes", 3)))

Session(at, cur, stored) == [at |-> at, cur |-> cur, stored |-> stored]
MCSessions == {Session(1, Two, <<>>), Session(2, Gone, <<Two, One>>), Session(1, One, <<Two, Gone>>),
               Session(1, StaleZoom, <<One>>), Session(1, Long, <<>>)}

\* Files of every version, one with a history that is not what it claims, one
\* from the future, one that is cut off, and none.
V1 == [ver |-> 1, ids |-> <<0, 1>>, next |-> 2, active |-> 1,
       panes |-> <<[id |-> 0, launch |-> "cmd", blob |-> NoRows], PlainShell(1)>>]
V2 == [Capture(Session(1, Gone, <<>>)) EXCEPT !.ver = 2]
V4 == [V2 EXCEPT !.ver = 4]
Odd == [Capture(Session(1, One, <<>>)) EXCEPT !.tabs[1].panes[1].blob.claim = 2]
MCFound == {Nothing, Torn, V1, V2, V4, Odd}

\* Two daemons that were asked for the same name, or for two.
MCAsked == {[d \in Daemons |-> "a"], [d \in Daemons |-> IF d = "d1" THEN "a" ELSE "b"]}
=============================================================================
