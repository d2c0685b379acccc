------------------------------- MODULE Daemon -------------------------------
(***************************************************************************)
(* The daemon around its main loop.  Its services: the event bus           *)
(* (EventBus), the hook pool (HookPool) and the control socket             *)
(* (ControlIpc).  And the life of a session: it gets a name                *)
(* (SessionSocket), clients knock (Handshake) and stay (AttachClient), and *)
(* it is saved and brought back (Snapshots).                               *)
(*                                                                         *)
(* Each has its own lock, threads and queue and shares no state with the   *)
(* others, so a behaviour of all of them, seen by one, is a behaviour of   *)
(* that one; "part" says which of them moves.                              *)
(***************************************************************************)
EXTENDS EventBus, HookPool, ControlIpc, Snapshots, SessionSocket, Handshake, AttachClient

VARIABLE part

vars == <<part, busVars, hookVars, ipcVars, snapVars, sockVars, shakeVars, clientVars>>

\* A part that does not move is in one of its initial states.
Init ==
    /\ part \in {"bus", "hooks", "ipc", "snapshots", "socket", "door", "client"}
    /\ BusInit /\ IpcInit /\ HookInit
    /\ SnapInit /\ SockInit /\ ShakeInit /\ ClientInit
    /\ part # "hooks" => by_event = <<>> /\ worker = [w \in Workers |-> "none"]
    /\ part # "snapshots" => live = CHOOSE s \in Sessions : TRUE
    /\ part # "snapshots" => files[Path] = Nothing
    /\ part # "socket" => name = (CHOOSE n \in Asked : TRUE)
    /\ part # "socket" => dir = [n \in Names |-> NoSocket]

Services ==
    \/ part = "bus" /\ BusNext /\ UNCHANGED <<hookVars, ipcVars>>
    \/ part = "hooks" /\ HookNext /\ UNCHANGED <<busVars, ipcVars>>
    \/ part = "ipc" /\ IpcNext /\ UNCHANGED <<busVars, hookVars>>

Protocols ==
    \/ part = "snapshots" /\ SnapNext /\ UNCHANGED <<sockVars, shakeVars, clientVars>>
    \/ part = "socket" /\ SockNext /\ UNCHANGED <<snapVars, shakeVars, clientVars>>
    \/ part = "door" /\ ShakeNext /\ UNCHANGED <<snapVars, sockVars, clientVars>>
    \/ part = "client" /\ ClientNext /\ UNCHANGED <<snapVars, sockVars, shakeVars>>

Next ==
    \/ Services /\ UNCHANGED <<part, snapVars, sockVars, shakeVars, clientVars>>
    \/ Protocols /\ UNCHANGED <<part, busVars, hookVars, ipcVars>>

\* Threads and the daemon's main loop run, and time passes; what peers and
\* users do is up to them.
DoorFairness ==
    /\ \A p \in Peers : /\ WF_shakeVars(part = "door" /\ AcceptPeer(p))
                        /\ WF_shakeVars(part = "door" /\ Deadline(p))
    /\ WF_shakeVars(part = "door" /\ (Tick \/ TryRecv \/ Closing))
ClientFairness ==
    /\ WF_clientVars(part = "client" /\ MainThread)
    /\ WF_clientVars(part = "client" /\ ReadSocket)
    /\ WF_clientVars(part = "client" /\ PassOn)

Spec == Init /\ [][Next]_vars /\ HookFairness /\ DoorFairness /\ ClientFairness
=============================================================================
