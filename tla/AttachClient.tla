---------------------------- MODULE AttachClient ----------------------------
(***************************************************************************)
(* The client in the user's terminal (src/src/client.rs): it shakes hands, *)
(* takes the terminal over, copies what the daemon sends to it and what    *)
(* the user types to the daemon, and gives the terminal back.  A thread    *)
(* reads the socket and passes messages on through a channel for one.      *)
(***************************************************************************)
EXTENDS Naturals, Sequences

CONSTANT MaxMessages    \* bound: messages of the daemon

LastWords == {"detached", "exit", "incompat"}    \* messages after which the client leaves

VARIABLES
    main,          \* the main thread
    terminal,    \* "plain" or "raw": what TerminalGuard will undo
    reader,      \* the reading thread: "off", "reading", "sending" or "done"
    held,        \* the message the reading thread holds
    inbox,        \* the channel (mpsc::sync_channel(1))
    rxOpen,      \* the main thread has the receiving end
    socket,      \* "open", "closed" by the daemon, "shut" by the client
    wire,        \* messages on their way
    sent,        \* bound: messages sent
    reason       \* why the client leaves

clientVars == <<main, terminal, reader, held, inbox, rxOpen, socket, wire, sent, reason>>

ClientInit ==
    /\ main = "hello" /\ terminal = "plain" /\ reader = "off" /\ held = "none" /\ inbox = <<>>
    /\ rxOpen = TRUE /\ socket = "open" /\ wire = <<>> /\ sent = 0 /\ reason = "none"

-----------------------------------------------------------------------------
(* The daemon and the reading thread.                                      *)

DaemonSends ==
    /\ socket = "open" /\ sent < MaxMessages
    /\ \E m \in {"output"} \cup LastWords : wire' = Append(wire, m)
    /\ sent' = sent + 1
    /\ UNCHANGED <<main, terminal, reader, held, inbox, rxOpen, socket, reason>>
DaemonCloses ==
    /\ socket = "open" /\ socket' = "closed"
    /\ UNCHANGED <<main, terminal, reader, held, inbox, rxOpen, wire, sent, reason>>

\* read_socket_msg: a message, or the end of the connection.
ReadSocket ==
    /\ reader = "reading"
    /\ \/ /\ wire # <<>> /\ socket # "shut"
          /\ held' = Head(wire) /\ wire' = Tail(wire) /\ reader' = "sending"
       \/ /\ socket = "shut" \/ (socket = "closed" /\ wire = <<>>)
          /\ reader' = "done" /\ UNCHANGED <<held, wire>>
    /\ UNCHANGED <<main, terminal, inbox, rxOpen, socket, sent, reason>>

\* send waits while the channel is full, and fails when nobody receives.
PassOn ==
    /\ reader = "sending"
    /\ \/ /\ rxOpen /\ inbox = <<>>
          /\ inbox' = <<held>> /\ reader' = "reading"
       \/ ~rxOpen /\ reader' = "done" /\ UNCHANGED inbox
    /\ held' = "none"
    /\ UNCHANGED <<main, terminal, rxOpen, socket, wire, sent, reason>>

-----------------------------------------------------------------------------
(* The main thread.                                                        *)

\* perform_handshake, before the terminal is touched: it fails, or the reading
\* thread starts.
Greet ==
    /\ main = "hello"
    /\ \/ main' = "raw" /\ reader' = "reading" /\ UNCHANGED <<socket, rxOpen>>
       \/ /\ main' = "end" /\ socket' = "shut" /\ rxOpen' = FALSE /\ UNCHANGED reader
    /\ UNCHANGED <<terminal, held, inbox, wire, sent, reason>>

\* An error before the loop drops everything, the guard of the terminal included.
Abandon ==
    /\ main' = "end" /\ terminal' = "plain" /\ rxOpen' = FALSE /\ socket' = "shut"

\* enable_raw_mode, then the alternate screen and the rest.
TakeTerminal ==
    /\ main = "raw"
    /\ \/ main' = "attach" /\ terminal' = "raw" /\ UNCHANGED <<rxOpen, socket>>
       \/ Abandon
    /\ UNCHANGED <<reader, held, inbox, wire, sent, reason>>

Leaves(why) == main' = "restore" /\ reason' = why

\* The attach request (C_RESIZE to steal, C_ATTACH otherwise).
Attach ==
    /\ main = "attach"
    /\ \/ main' = "loop" /\ UNCHANGED reason
       \/ Leaves("error")
    /\ UNCHANGED <<terminal, reader, held, inbox, rxOpen, socket, wire, sent>>

\* Messages: output is shown, the last word of the daemon ends the loop.
TakeMessage ==
    /\ main = "loop" /\ inbox # <<>>
    /\ inbox' = <<>>
    /\ \/ Head(inbox) = "output" /\ UNCHANGED <<main, reason>>
       \/ Head(inbox) \in LastWords /\ Leaves(Head(inbox))
    /\ UNCHANGED <<terminal, reader, held, rxOpen, socket, wire, sent>>

\* The reading thread is gone and its channel empty.
Disconnected ==
    /\ main = "loop" /\ inbox = <<>> /\ reader = "done"
    /\ Leaves("lost")
    /\ UNCHANGED <<terminal, reader, held, inbox, rxOpen, socket, wire, sent>>

\* A signal; the prefix and d of a read-only client; a key or a resize that
\* cannot be sent.
LeaveLoop ==
    /\ main = "loop"
    /\ \E why \in {"signal", "detached", "lost"} : Leaves(why)
    /\ UNCHANGED <<terminal, reader, held, inbox, rxOpen, socket, wire, sent>>

\* The terminal first, ...
RestoreTerminal ==
    /\ main = "restore"
    /\ terminal' = "plain" /\ main' = "hangup"
    /\ UNCHANGED <<reader, held, inbox, rxOpen, socket, wire, sent, reason>>

\* Mutant of HangUp: the receiving end is kept until the thread is joined.
HangUpKeepsChannel ==
    /\ main = "hangup"
    /\ socket' = "shut" /\ main' = "join"
    /\ UNCHANGED <<terminal, reader, held, inbox, rxOpen, wire, sent, reason>>

\* ... then the channel and the connection, which frees the reading thread, ...
HangUp ==
    /\ main = "hangup"
    /\ rxOpen' = FALSE /\ inbox' = <<>> /\ socket' = "shut" /\ main' = "join"
    /\ UNCHANGED <<terminal, reader, held, wire, sent, reason>>

\* ... which is joined before the last message is printed.
Join ==
    /\ main = "join" /\ reader = "done"
    /\ main' = "end"
    /\ UNCHANGED <<terminal, reader, held, inbox, rxOpen, socket, wire, sent, reason>>

MainThread == Greet \/ TakeTerminal \/ Attach \/ TakeMessage \/ Disconnected \/ RestoreTerminal \/ HangUp \/ Join

ClientNext == DaemonSends \/ DaemonCloses \/ ReadSocket \/ PassOn \/ MainThread \/ LeaveLoop

-----------------------------------------------------------------------------
(* Properties.                                                             *)

\* Once the daemon has said its last word or is gone, or the user wants to
\* leave, the client ends, both of its threads, and the terminal is as it was:
\* whatever the reading thread was waiting for at that time (client.rs,
\* run_with_mode).
ClientGone == main = "end" /\ terminal = "plain" /\ reader \in {"off", "done"}
ClientEnds == (socket # "open" \/ main = "restore") ~> ClientGone
=============================================================================
