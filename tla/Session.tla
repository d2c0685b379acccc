------------------------------ MODULE Session ------------------------------
(***************************************************************************)
(* The attached clients of a session: the client half of the daemon's main *)
(* loop (src/src/server/mod.rs, with accept_client and effective_size of   *)
(* src/src/server/connection.rs).                                          *)
(*                                                                         *)
(* The main loop runs rounds of four phases: "top" (signals, PTY output,   *)
(* one incoming connection), "events" (a bounded batch of messages of      *)
(* every client, then resizes, departures and the auto-save), "tabs" (the  *)
(* tab action of the round) and "render" (one frame for everybody).        *)
(*                                                                         *)
(* ClientInput has the input half of a connection: here any message may    *)
(* come next, a disconnect included.  OutputQueue has the output half:     *)
(* here a write may fail at any time.  A client is its id.                 *)
(***************************************************************************)
EXTENDS SeqOps

CONSTANTS
    MAX_CLIENTS,           \* clients attached at once, unless one steals
    BATCH,                 \* messages taken from one client in a round
    MAX_COLS, MAX_ROWS,    \* limits of normalize_size
    RawSizes,              \* sizes the peers' terminals report
    MaxConns               \* bound of the model: clients in a behaviour

ASSUME SessionAssumption ==
    /\ MAX_CLIENTS \in Nat \ {0} /\ BATCH \in Nat \ {0}
    /\ MAX_COLS \in Nat \ {0} /\ MAX_ROWS \in Nat \ {0}
    /\ RawSizes \subseteq Nat \X Nat
    /\ MaxConns \in Nat

Conns == 1 .. MaxConns
Modes == {"steal", "shared", "readonly"}
NoSize == <<0, 0>>

Clamp(n, hi) == IF n < 1 THEN 1 ELSE IF n > hi THEN hi ELSE n
NormalizeSize(s) == <<Clamp(s[1], MAX_COLS), Clamp(s[2], MAX_ROWS)>>
Sizes == {NormalizeSize(s) : s \in RawSizes}

VARIABLES
    clients,    \* the attached clients, in order of arrival
    readonly,   \* ConnectedClient.mode is Readonly: all that is asked of it
    size,       \* ConnectedClient.tw and .th
    next_id,    \* NEXT_CLIENT_ID
    tsize,      \* tw and th, the size the session is rendered at
    \* one round of the main loop
    lpc, idx, budget, detach_ids, disconnect_ids, size_changed, tab_action,
    output_disconnects,   \* clients a frame could not be queued for
    \* rendering
    full, dirty,          \* RenderUpdate: full_redraw, dirty panes
    in_sync,              \* the pane is inside a ?2026 window
    screen,               \* history: what a client's terminal shows
    \* the session
    running,
    unsaved,    \* history: kinds of change that are not in the last auto-save
    save_error  \* history: the last auto-save failed

viewVars  == <<clients, readonly, size, next_id, tsize>>
roundVars == <<lpc, idx, budget, detach_ids, disconnect_ids, size_changed, tab_action>>
drawVars  == <<full, dirty, in_sync, screen>>
sessVars  == <<running, unsaved, save_error>>
vars == <<viewVars, roundVars, output_disconnects, drawVars, sessVars>>

Elems(s) == {s[i] : i \in 1 .. Len(s)}

\* A terminal that has not been drawn on yet.
Blank == [base |-> NoSize, current |-> FALSE]

Init ==
    /\ clients = <<>> /\ readonly = [c \in Conns |-> FALSE]
    /\ size = [c \in Conns |-> NoSize] /\ next_id = 1
    /\ tsize = NormalizeSize(<<80, 24>>)
    /\ lpc = "top" /\ idx = 1 /\ budget = BATCH /\ detach_ids = {} /\ disconnect_ids = {}
    /\ size_changed = FALSE /\ tab_action = "none" /\ output_disconnects = {}
    /\ full = FALSE /\ dirty = FALSE /\ in_sync = FALSE /\ screen = [c \in Conns |-> Blank]
    /\ running = TRUE /\ unsaved = {} /\ save_error = FALSE

-----------------------------------------------------------------------------
(* Geometry.                                                               *)

SetMin(S) == CHOOSE n \in S : \A m \in S : n <= m

\* effective_size: the smallest terminal, of those that may write if any may.
Voters(cs, ro) ==
    LET writers == {c \in Elems(cs) : ~ro[c]}
    IN  IF writers = {} THEN Elems(cs) ELSE writers

EffectiveSize(cs, ro, sz) ==
    LET v == Voters(cs, ro)
    IN  <<SetMin({sz[c][1] : c \in v}), SetMin({sz[c][2] : c \in v})>>

\* The geometry a frame is drawn for: a smaller observer gets a clipped one.
Smaller(s, t) == s[1] < t[1] \/ s[2] < t[2]
View(c) == IF readonly[c] /\ Smaller(size[c], tsize) THEN size[c] ELSE tsize

\* The fields of a ConnectedClient go with it.
Keep(kept, f, default) == [c \in Conns |-> IF c \in kept THEN f[c] ELSE default]

-----------------------------------------------------------------------------
(* Phase "top".                                                            *)

\* The pane's output is read; a ?2026 window hides it until it is closed.
PtyOutput ==
    /\ running /\ lpc = "top"
    /\ in_sync' \in BOOLEAN
    /\ screen' = [c \in Conns |-> [screen[c] EXCEPT !.current = FALSE]]
    /\ dirty' = (dirty \/ ~in_sync')
    /\ UNCHANGED <<viewVars, roundVars, output_disconnects, full, sessVars>>

\* force_close_sync, 33 ms after the window was opened.
SyncTimeout ==
    /\ running /\ lpc = "top" /\ in_sync
    /\ in_sync' = FALSE /\ dirty' = TRUE
    /\ UNCHANGED <<viewVars, roundVars, output_disconnects, full, screen, sessVars>>

\* The daemon ends and tells every client.
Shutdown ==
    /\ running' = FALSE
    /\ UNCHANGED <<viewVars, roundVars, output_disconnects, drawVars>>

\* SIGTERM: auto-save and leave.
Sigterm ==
    /\ running /\ lpc = "top"
    /\ Shutdown
    /\ \/ unsaved' = {} /\ save_error' = FALSE
       \/ unsaved' = unsaved /\ save_error' = TRUE

\* The last tab died, or a kill came in through a handshake.
SessionEnds ==
    /\ running /\ lpc = "top"
    /\ Shutdown
    /\ UNCHANGED <<unsaved, save_error>>

StartEvents ==
    /\ lpc' = "events" /\ idx' = 1 /\ budget' = BATCH
    /\ detach_ids' = {} /\ disconnect_ids' = output_disconnects /\ output_disconnects' = {}
    /\ size_changed' = FALSE /\ tab_action' = "none"

\* No connection is ready, or accept_client returns early.
NoIncoming ==
    /\ running /\ lpc = "top"
    /\ StartEvents
    /\ UNCHANGED <<viewVars, drawVars, sessVars>>

AcceptRefused(mode) == mode # "steal" /\ Len(clients) >= MAX_CLIENTS

\* accept_client: a stealing client sends all the others away first.
Accept(mode, raw) ==
    /\ running /\ lpc = "top" /\ next_id <= MaxConns
    /\ ~AcceptRefused(mode)
    /\ LET kept == IF mode = "steal" THEN <<>> ELSE clients
       IN  /\ clients' = Append(kept, next_id)
           /\ readonly' = [Keep(Elems(kept), readonly, FALSE)
                              EXCEPT ![next_id] = mode = "readonly"]
           /\ size' = [Keep(Elems(kept), size, NoSize) EXCEPT ![next_id] = NormalizeSize(raw)]
           /\ screen' = Keep(Elems(kept), screen, Blank)
    /\ tsize' = EffectiveSize(clients', readonly', size')
    /\ next_id' = next_id + 1
    /\ full' = TRUE /\ dirty' = TRUE
    /\ StartEvents
    /\ UNCHANGED <<in_sync, sessVars>>

-----------------------------------------------------------------------------
(* Phase "events": the batches of all clients, one message at a time.      *)

\* try_recv is called for the client whose turn it is.
Receiving(c) ==
    /\ running /\ lpc = "events" /\ idx <= Len(clients) /\ budget > 0
    /\ c = clients[idx] /\ c \notin disconnect_ids

GoOn == budget' = budget - 1 /\ UNCHANGED idx
NextClient == idx' = idx + 1 /\ budget' = BATCH

\* ClientMsg::Event of a client that may write: process_event changes the
\* session, asks for a tab action, or for the client to be detached.
InputEvent(c) ==
    /\ Receiving(c) /\ ~readonly[c]
    /\ \/ /\ unsaved' = unsaved \cup {"input"}
          /\ GoOn
          /\ UNCHANGED <<tab_action, detach_ids>>
       \/ /\ tab_action' \in {"tab", "kill_session"}
          /\ GoOn
          /\ UNCHANGED <<unsaved, detach_ids>>
       \/ /\ detach_ids' = detach_ids \cup {c}
          /\ NextClient
          /\ UNCHANGED <<unsaved, tab_action>>
    /\ UNCHANGED <<viewVars, lpc, disconnect_ids, size_changed, output_disconnects,
                   drawVars, running, save_error>>

\* ClientMsg::Event and ClientMsg::Kill of a readonly client are skipped.
ReadonlyIgnored(c) ==
    /\ Receiving(c) /\ readonly[c]
    /\ GoOn
    /\ UNCHANGED <<viewVars, lpc, detach_ids, disconnect_ids, size_changed, tab_action,
                   output_disconnects, drawVars, sessVars>>

\* ClientMsg::Resize, of any client.
Resize(c) ==
    /\ Receiving(c)
    /\ \E s \in Sizes : size' = [size EXCEPT ![c] = s]
    /\ size_changed' = TRUE /\ full' = TRUE /\ dirty' = TRUE
    /\ GoOn
    /\ UNCHANGED <<clients, readonly, next_id, tsize, lpc, detach_ids, disconnect_ids,
                   tab_action, output_disconnects, in_sync, screen, sessVars>>

\* ClientMsg::Detach, ClientMsg::Disconnected or a closed channel.
Leave(c) ==
    /\ Receiving(c)
    /\ \/ detach_ids' = detach_ids \cup {c} /\ UNCHANGED disconnect_ids
       \/ disconnect_ids' = disconnect_ids \cup {c} /\ UNCHANGED detach_ids
    /\ NextClient
    /\ UNCHANGED <<viewVars, lpc, size_changed, tab_action, output_disconnects,
                   drawVars, sessVars>>

\* The batch is over: no message, no budget, or a client known to be gone.
BatchEnds ==
    /\ running /\ lpc = "events" /\ idx <= Len(clients)
    /\ NextClient
    /\ UNCHANGED <<viewVars, lpc, detach_ids, disconnect_ids, size_changed, tab_action,
                   output_disconnects, drawVars, sessVars>>

\* ClientMsg::Kill: no other event is looked at.
KillRequested(c) ==
    /\ Receiving(c) /\ ~readonly[c]
    /\ Shutdown
    /\ UNCHANGED <<unsaved, save_error>>

-----------------------------------------------------------------------------
(* After the events: geometry, departures, auto-save and the tab action.   *)

Leaving == detach_ids \cup disconnect_ids
Remaining == Without(clients, Leaving)

\* Mutant of SizeAfter: departures do not count.
SizeAfterResize == IF size_changed THEN EffectiveSize(clients, readonly, size) ELSE tsize

\* The resize of the round, then the one after its departures.
SizeAfter ==
    LET resized == IF size_changed THEN EffectiveSize(clients, readonly, size) ELSE tsize
    IN  IF Remaining # <<>> /\ Leaving # {}
        THEN EffectiveSize(Remaining, readonly, size) ELSE resized

\* Mutant of AllGone: only for clients that asked to be detached.
AllDetached == clients # <<>> /\ Remaining = <<>> /\ detach_ids # {}

\* The last client has left in this round.
AllGone == clients # <<>> /\ Remaining = <<>> /\ Leaving # {}

\* workspace::auto_save may fail, which is only logged.
AutoSave ==
    \/ ~AllGone /\ UNCHANGED <<unsaved, save_error>>
    \/ AllGone /\ unsaved' = {} /\ save_error' = FALSE
    \/ AllGone /\ save_error' = TRUE /\ UNCHANGED unsaved

Settle ==
    /\ running /\ lpc = "events" /\ idx > Len(clients)
    /\ clients' = Remaining
    /\ readonly' = Keep(Elems(Remaining), readonly, FALSE)
    /\ size' = Keep(Elems(Remaining), size, NoSize)
    /\ screen' = Keep(Elems(Remaining), screen, Blank)
    /\ tsize' = SizeAfter
    /\ full' = (full \/ SizeAfter # tsize) /\ dirty' = (dirty \/ SizeAfter # tsize)
    /\ AutoSave
    /\ lpc' = "tabs" /\ idx' = 1 /\ budget' = BATCH
    /\ detach_ids' = {} /\ disconnect_ids' = {} /\ size_changed' = FALSE
    /\ UNCHANGED <<next_id, tab_action, output_disconnects, in_sync, running>>

\* The round's tab action, after the auto-save; TabManager has its details.
TabActionDone ==
    /\ running /\ lpc = "tabs" /\ tab_action # "kill_session"
    /\ lpc' = "render" /\ tab_action' = "none"
    /\ \/ /\ tab_action = "tab"
          /\ unsaved' = unsaved \cup {"tab"}
          /\ full' = TRUE /\ dirty' = TRUE
       \/ UNCHANGED <<unsaved, full, dirty>>      \* none, or refused
    /\ UNCHANGED <<viewVars, idx, budget, detach_ids, disconnect_ids, size_changed,
                   output_disconnects, in_sync, screen, running, save_error>>

\* The last tab is closed, or the session is killed from a key binding.
TabActionExits ==
    /\ running /\ lpc = "tabs" /\ tab_action # "none"
    /\ Shutdown
    /\ UNCHANGED <<unsaved, save_error>>

-----------------------------------------------------------------------------
(* Phase "render".                                                         *)

\* The pane is part of a frame: an output-driven redraw waits for the end of a
\* ?2026 window (defer_dirty_panes), a full one does not.
PaneDue == full \/ (dirty /\ ~in_sync)

\* What a delivered frame leaves on a client's terminal: an incremental one
\* only completes a terminal that shows the same geometry already.
Drawn(c) ==
    IF full \/ (PaneDue /\ screen[c].base = View(c))
    THEN [base |-> View(c), current |-> TRUE] ELSE screen[c]

\* One frame for all, which the status bar may demand at any time; a client it
\* cannot be queued for leaves in the next round.
Render ==
    /\ running /\ lpc = "render" /\ clients # <<>>
    /\ \E failed \in SUBSET Elems(clients) :
        /\ output_disconnects' = failed
        /\ screen' = [c \in Conns |->
               IF c \in Elems(clients) \ failed THEN Drawn(c) ELSE screen[c]]
    /\ full' = FALSE /\ dirty' = (dirty /\ ~PaneDue)
    /\ lpc' = "top"
    /\ UNCHANGED <<viewVars, idx, budget, detach_ids, disconnect_ids, size_changed,
                   tab_action, in_sync, sessVars>>

\* Mutant of NoRender: the pending update is dropped when no frame is due.
NoRenderClears ==
    /\ running /\ lpc = "render"
    /\ full' = FALSE /\ dirty' = FALSE
    /\ lpc' = "top"
    /\ UNCHANGED <<viewVars, idx, budget, detach_ids, disconnect_ids, size_changed,
                   tab_action, output_disconnects, in_sync, screen, sessVars>>

\* No frame: nothing to draw, none due yet, or nobody to draw it for.
NoRender ==
    /\ running /\ lpc = "render"
    /\ full' = (full /\ clients # <<>>) /\ dirty' = (dirty /\ clients # <<>>)
    /\ lpc' = "top"
    /\ UNCHANGED <<viewVars, idx, budget, detach_ids, disconnect_ids, size_changed,
                   tab_action, output_disconnects, in_sync, screen, sessVars>>

-----------------------------------------------------------------------------
Stopped == ~running /\ UNCHANGED vars

Next ==
    \/ PtyOutput \/ SyncTimeout \/ Sigterm \/ SessionEnds \/ NoIncoming
    \/ \E mode \in Modes, raw \in RawSizes : Accept(mode, raw)
    \/ \E c \in Conns : InputEvent(c) \/ ReadonlyIgnored(c) \/ Resize(c) \/ Leave(c)
                        \/ KillRequested(c)
    \/ BatchEnds \/ Settle \/ TabActionDone \/ TabActionExits \/ Render \/ NoRender
    \/ Stopped

Spec == Init /\ [][Next]_vars

-----------------------------------------------------------------------------
\* Outside of an event batch the session has the size its attached clients
\* agree on, whatever attached, resized, detached, got lost or was stolen; a
\* readonly viewer never resizes the workspace of those who can write.
SharedSize ==
    lpc # "events" /\ clients # <<>> => tsize = EffectiveSize(clients, readonly, size)

\* "Attach, resize and lost-output handling must establish a valid redraw
\* baseline": between two rounds every client the daemon has not given up
\* shows the current screen at its geometry, or a pending update brings it up.
RedrawBaseline ==
    lpc = "top" => \A c \in Elems(clients) \ output_disconnects :
        full \/ (screen[c].base = View(c) /\ (screen[c].current \/ dirty \/ in_sync))

\* When nobody is attached any more, what the clients did is in the auto-save,
\* unless that failed, and but for a tab action of the very last round, which
\* the main loop applies after the save.
AutoSaveCoversInput ==
    clients = <<>> /\ "input" \in unsaved => save_error
=============================================================================
