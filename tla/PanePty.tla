------------------------------ MODULE PanePty ------------------------------
(***************************************************************************)
(* One pane (src/src/pane.rs): the CHILD process on the slave side of the  *)
(* PTY, the "ezpn-pty-reader" THREAD that copies the output of the master  *)
(* into a bounded channel, and the MAIN LOOP, which drains the channel in  *)
(* Pane::read_output, notices the exit, keeps the watchdog of synchronized *)
(* output (DECSET 2026) and finally kills and drops the pane.              *)
(*                                                                         *)
(* Output is counted in chunks (one read of at most 4 KB).  Of a chunk's   *)
(* contents only its effect on the synchronization window matters here.    *)
(***************************************************************************)
EXTENDS Naturals

CONSTANTS
    CHANNEL,     \* capacity of the sync_channel (32 in the code)
    MAX_DRAIN,   \* chunks one read_output takes at most (8 in the code)
    TTY_BUFFER   \* chunks the kernel buffers before a writer blocks

ASSUME PtyAssumption ==
    CHANNEL \in Nat \ {0} /\ MAX_DRAIN \in Nat \ {0} /\ TTY_BUFFER \in Nat \ {0}

VARIABLES
    child,      \* "running", or "exited" (a zombie until it is reaped)
    slave,      \* some process, the child or a job of it, has the slave open
    tty,        \* chunks in the kernel's buffer
    rpc,        \* where the reader thread is; in "send" it holds a chunk
    queued,     \* chunks in the channel
    stop,       \* reader_stop
    mpc,        \* where the main loop is in read_output, or in Pane::drop
    count,      \* chunks taken by this read_output
    got_data,
    was_alive,
    alive, reader_eof,
    exit_code,  \* the child has been reaped and its exit code stored
    sync,       \* sync_opened_at: "closed", "fresh", or "due" after 33 ms
    active,     \* the pane's tab is the active one
    held,       \* output is on the screen for which no redraw was requested
    lost        \* history: the reader has discarded a chunk

vars == <<child, slave, tty, rpc, queued, stop, mpc, count, got_data, was_alive, alive,
          reader_eof, exit_code, sync, active, held, lost>>
os == <<child, slave, tty>>
ends == <<rpc, stop>>
call == <<count, got_data, was_alive>>
pane == <<alive, reader_eof, exit_code, sync>>

Init ==
    /\ child = "running" /\ slave = TRUE /\ tty = 0
    /\ rpc = "check" /\ queued = 0 /\ stop = FALSE
    /\ mpc = "idle" /\ count = 0 /\ got_data = FALSE /\ was_alive = TRUE
    /\ alive = TRUE /\ reader_eof = FALSE /\ exit_code = FALSE /\ sync = "closed"
    /\ active \in BOOLEAN /\ held = FALSE /\ lost = FALSE

\* Pane::drop has replaced the receiver.
Hungup == mpc \in {"join", "gone"}

in_sync == sync # "closed"

-----------------------------------------------------------------------------
(* The child and its jobs.                                                 *)

ChildWrites ==
    /\ slave /\ tty < TTY_BUFFER
    /\ tty' = tty + 1
    /\ UNCHANGED <<child, slave, ends, queued, mpc, call, pane, active, held, lost>>

\* A background job may keep the slave open after the child's exit.
ChildExits ==
    /\ child = "running"
    /\ child' = "exited"
    /\ slave' \in {FALSE, slave}
    /\ UNCHANGED <<tty, ends, queued, mpc, call, pane, active, held, lost>>

\* The last holder closes it; the child itself may have let go of it earlier.
SlaveCloses ==
    /\ slave
    /\ slave' = FALSE
    /\ UNCHANGED <<child, tty, ends, queued, mpc, call, pane, active, held, lost>>

-----------------------------------------------------------------------------
(* The reader thread.                                                      *)

ReaderChecksStop ==
    /\ rpc = "check"
    /\ rpc' = IF stop THEN "ended" ELSE "poll"
    /\ UNCHANGED <<os, queued, stop, mpc, call, pane, active, held, lost>>

\* poll() times out after 100 ms.
ReaderPollTimeout ==
    /\ rpc = "poll" /\ tty = 0 /\ slave
    /\ rpc' = "check"
    /\ UNCHANGED <<os, queued, stop, mpc, call, pane, active, held, lost>>

ReaderReads ==
    /\ rpc = "poll" /\ tty > 0
    /\ tty' = tty - 1
    /\ rpc' = "send"
    /\ UNCHANGED <<child, slave, queued, stop, mpc, call, pane, active, held, lost>>

\* End of file: the slave is closed and its buffer has been read.
ReaderEof ==
    /\ rpc = "poll" /\ tty = 0 /\ ~slave
    /\ rpc' = "ended"
    /\ UNCHANGED <<os, queued, stop, mpc, call, pane, active, held, lost>>

ReaderSends ==
    /\ rpc = "send" /\ ~Hungup /\ queued < CHANNEL
    /\ queued' = queued + 1
    /\ rpc' = "check"
    /\ UNCHANGED <<os, stop, mpc, call, pane, active, held, lost>>

\* Disconnected, or Full with the stop flag raised: the chunk is discarded.
\* (Full without it: the thread sleeps 2 ms and tries again.)
ReaderGivesUp ==
    /\ rpc = "send" /\ (Hungup \/ (queued >= CHANNEL /\ stop))
    /\ rpc' = "ended" /\ lost' = TRUE
    /\ UNCHANGED <<os, queued, stop, mpc, call, pane, active, held>>

Reader ==
    \/ ReaderChecksStop \/ ReaderPollTimeout \/ ReaderReads \/ ReaderEof
    \/ ReaderSends \/ ReaderGivesUp

-----------------------------------------------------------------------------
(* Pane::read_output and what the main loop does with its result.          *)

ReadOutput ==
    /\ mpc = "idle"
    /\ mpc' = "drain" /\ count' = 0 /\ got_data' = FALSE /\ was_alive' = alive
    /\ UNCHANGED <<os, ends, queued, pane, active, held, lost>>

\* A chunk may leave the window as it is, close it, or open it; opening an
\* open window keeps its time, closing and opening it takes a new one.
DrainChunk ==
    /\ mpc = "drain" /\ count < MAX_DRAIN /\ queued > 0
    /\ queued' = queued - 1
    /\ sync' \in {sync, "closed", "fresh"}
    /\ held' = TRUE
    /\ got_data' = TRUE /\ count' = count + 1
    /\ UNCHANGED <<os, ends, mpc, was_alive, alive, reader_eof, exit_code, active, lost>>

\* Mutant of DrainEnd: reaching the limit also counts as the end of the output.
DrainEndAtLimit ==
    /\ mpc = "drain" /\ (count >= MAX_DRAIN \/ queued = 0)
    /\ reader_eof' = (reader_eof \/ rpc = "ended")
    /\ mpc' = "reap"
    /\ UNCHANGED <<os, ends, queued, call, alive, exit_code, sync, active, held, lost>>

\* The limit, TryRecvError::Empty, or TryRecvError::Disconnected.
DrainEnd ==
    /\ mpc = "drain" /\ (count >= MAX_DRAIN \/ queued = 0)
    /\ reader_eof' = (reader_eof \/ (count < MAX_DRAIN /\ rpc = "ended"))
    /\ mpc' = "reap"
    /\ UNCHANGED <<os, ends, queued, call, alive, exit_code, sync, active, held, lost>>

\* Mutant of Reap: the end of the output bypasses reaping.
ReapBeforeEof ==
    /\ mpc = "reap"
    /\ exit_code' = (exit_code \/ (~reader_eof /\ child = "exited"))
    /\ alive' = (alive /\ ~(reader_eof /\ exit_code'))
    /\ sync' = IF reader_eof THEN "closed" ELSE sync
    /\ mpc' = "after"
    /\ UNCHANGED <<os, ends, queued, call, reader_eof, active, held, lost>>

\* try_wait, and the decision that the pane is dead.
Reap ==
    /\ mpc = "reap"
    /\ exit_code' = (exit_code \/ child = "exited")
    /\ alive' = (alive /\ ~(reader_eof /\ exit_code'))
    /\ sync' = IF reader_eof THEN "closed" ELSE sync
    /\ mpc' = "after"
    /\ UNCHANGED <<os, ends, queued, call, reader_eof, active, held, lost>>

\* The server loop: a window open for 33 ms is closed by force, and a change
\* outside a window marks the pane dirty.  Neither is done for inactive tabs.
AfterRead ==
    /\ mpc = "after"
    /\ LET due     == active /\ sync = "due"
           changed == got_data \/ was_alive # alive \/ due
       IN  /\ sync' = IF due THEN "closed" ELSE sync
           /\ held' = (held /\ ~(active /\ changed /\ sync' = "closed"))
    /\ mpc' = "idle"
    /\ UNCHANGED <<os, ends, queued, call, alive, reader_eof, exit_code, active, lost>>

\* 33 ms have passed since the window was opened.
SyncAges ==
    /\ sync = "fresh"
    /\ sync' = "due"
    /\ UNCHANGED <<os, ends, queued, mpc, call, alive, reader_eof, exit_code, active, held,
                   lost>>

\* Another tab is selected, or this one, which redraws everything (mark_all).
SwitchTab ==
    /\ mpc = "idle"
    /\ active' = ~active
    /\ held' = (held /\ active)
    /\ UNCHANGED <<os, ends, queued, mpc, call, pane, lost>>

MainLoop == ReadOutput \/ DrainChunk \/ DrainEnd \/ Reap \/ AfterRead

-----------------------------------------------------------------------------
(* The end of a pane: Pane::kill and Pane::drop.                           *)

\* SIGKILL goes to the child's process group and to its foreground job and
\* the child is waited for; a job in another group may survive.
KillEffect ==
    /\ child' = "exited" /\ exit_code' = TRUE
    /\ slave' \in IF exit_code THEN {slave} ELSE {FALSE, slave}
    /\ alive' = FALSE /\ sync' = "closed"

\* close_pane, replace_pane, kill_all_panes: kill, then drop at once.
KillPane ==
    /\ mpc = "idle"
    /\ KillEffect
    /\ mpc' = "killed"
    /\ UNCHANGED <<tty, ends, queued, call, reader_eof, active, held, lost>>

\* Mutant of DropStops: the reader is not told.
DropStopsNobody ==
    /\ mpc \in {"idle", "killed"}
    /\ mpc' = "drop_kill"
    /\ UNCHANGED <<os, rpc, stop, queued, call, pane, active, held, lost>>

\* Pane::drop: raise the flag, ...
DropStops ==
    /\ mpc \in {"idle", "killed"}
    /\ stop' = TRUE
    /\ mpc' = "drop_kill"
    /\ UNCHANGED <<os, rpc, queued, call, pane, active, held, lost>>

\* ... kill, ...
DropKills ==
    /\ mpc = "drop_kill"
    /\ KillEffect
    /\ mpc' = "hangup"
    /\ UNCHANGED <<tty, ends, queued, call, reader_eof, active, held, lost>>

\* ... disconnect the channel, ...
DropHangsUp ==
    /\ mpc = "hangup"
    /\ queued' = 0
    /\ mpc' = "join"
    /\ UNCHANGED <<os, ends, call, pane, active, held, lost>>

\* ... and join the thread.
DropJoins ==
    /\ mpc = "join" /\ rpc = "ended"
    /\ mpc' = "gone"
    /\ UNCHANGED <<os, ends, queued, call, pane, active, held, lost>>

Drop == (mpc = "killed" /\ DropStops) \/ DropKills \/ DropHangsUp \/ DropJoins

Gone == mpc = "gone" /\ UNCHANGED vars

Next ==
    \/ ChildWrites \/ ChildExits \/ SlaveCloses \/ Reader \/ MainLoop
    \/ SyncAges \/ SwitchTab \/ KillPane \/ DropStops \/ Drop \/ Gone

Spec == Init /\ [][Next]_vars

\* Both threads are scheduled, the main loop reads every pane in each of its
\* rounds, and 33 ms pass.  Nothing is assumed of the child.
FairSpec ==
    /\ Spec
    /\ WF_vars(Reader) /\ WF_vars(MainLoop) /\ WF_vars(Drop) /\ WF_vars(SyncAges)

-----------------------------------------------------------------------------
Flags ==
    /\ slave \in BOOLEAN /\ stop \in BOOLEAN /\ lost \in BOOLEAN
    /\ got_data \in BOOLEAN /\ was_alive \in BOOLEAN /\ alive \in BOOLEAN
    /\ reader_eof \in BOOLEAN /\ exit_code \in BOOLEAN
    /\ active \in BOOLEAN /\ held \in BOOLEAN

Ranges ==
    /\ child \in {"running", "exited"}
    /\ rpc \in {"check", "poll", "send", "ended"}
    /\ mpc \in {"idle", "drain", "reap", "after", "killed", "drop_kill", "hangup", "join",
                "gone"}
    /\ sync \in {"closed", "fresh", "due"}
    /\ tty \in 0 .. TTY_BUFFER /\ queued \in 0 .. CHANNEL /\ count \in 0 .. MAX_DRAIN

\* Every variable keeps its type: the channel holds at most CHANNEL chunks and
\* one read_output takes at most MAX_DRAIN of them.
TypeOK == Flags /\ Ranges

\* The pane is still in the hands of the main loop.
Kept == mpc \in {"idle", "drain", "reap", "after"}

\* A pane is declared dead only when everything its processes ever wrote has
\* been given to its screen: the last words of a program that crashed are
\* seen before the exit is announced, the pane restarted or the tab closed.
ExitAfterOutput ==
    Kept /\ ~alive => ~slave /\ tty = 0 /\ rpc = "ended" /\ queued = 0 /\ ~lost

\* A child that is gone together with its jobs is noticed to be gone, with
\* the channel full or empty at the time and the pane visible or not.
ExitNoticed == (child = "exited" /\ ~slave) ~> ~alive

\* Dropping a pane always comes to an end: the join never waits for a reader
\* that waits for room, or for output of a job that survived.
DropEnds == (mpc = "drop_kill") ~> (mpc = "gone")

\* While the terminal is open, output of a visible pane leads to a redraw: a
\* synchronization window delays it "until close, EOF, or a roughly 33 ms
\* watchdog" (docs/terminal-protocol.md).
OutputShown == (active /\ held) ~> (~held \/ ~active \/ ~Kept \/ reader_eof)
=============================================================================
