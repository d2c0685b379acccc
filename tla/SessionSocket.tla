--------------------------- MODULE SessionSocket ---------------------------
(***************************************************************************)
(* How a session gets its name: the socket in the runtime directory        *)
(* (src/src/session.rs, src/src/socket_security.rs, bind_path_socket in    *)
(* src/src/server/connection.rs, src/src/attach.rs).  Every step of a      *)
(* daemon on the directory is a step here, for other daemons, renames and  *)
(* kills come in between.                                                  *)
(***************************************************************************)
EXTENDS Naturals, FiniteSets

CONSTANTS Daemons, Names, Asked    \* Asked: the ways daemons may be named

NoSocket == "none"        \* no entry, or nothing remembered
Old == "old"              \* the socket of a daemon that is long dead

ASSUME SocketAssumption ==
    /\ IsFiniteSet(Daemons) /\ {NoSocket, Old, "rename"} \cap Daemons = {}
    /\ Asked \subseteq [Daemons -> Names]

VARIABLES
    name,      \* daemon -> the name it was asked for (--server <name>)
    dir,       \* name -> the socket (an inode) it leads to
    does,        \* daemon -> what it does next
    seen,      \* daemon -> the socket its stale check looked at
    guard,     \* daemon -> the socket its SocketCleanupGuard will remove
    todo,      \* daemon -> names its guard has found to be its own
    waiter,    \* daemon -> the process that started it (spawn_server)
    rename,    \* the rename command: [pc, from, to, socket]
    raced      \* history: names on which two processes worked at a time

sockVars == <<name, dir, does, seen, guard, todo, waiter, rename, raced>>

\* A daemon's socket is named by the daemon.  The acceptor's thread closes it
\* a moment after the daemon began to clean up.
Listening(s) == s \in Daemons /\ does[s] \in {"perm", "guard", "build", "ready", "scan", "clean"}
Refusing(s) == s \in {Old} \cup {d \in Daemons : does[d] \notin {"perm", "guard", "build", "ready"}}
Alive(d) == does[d] \notin {"off", "dead"}
Starting(d) == does[d] \in {"stat", "connect", "restat", "unlink", "bind", "listen", "perm", "guard"}

SockInit ==
    /\ name \in Asked
    /\ dir \in [Names -> {NoSocket, Old}]
    /\ does = [d \in Daemons |-> "off"]
    /\ seen = [d \in Daemons |-> NoSocket] /\ guard = [d \in Daemons |-> NoSocket]
    /\ todo = [d \in Daemons |-> {}]
    /\ waiter = [d \in Daemons |-> "none"]
    /\ rename = [pc |-> "idle"]
    /\ raced = {}

\* The processes that work on a name: daemons that start or clean up, and rename.
Claimants(n) ==
    {d \in Daemons : Starting(d) /\ name[d] = n}
    \cup {d \in Daemons : does[d] \in {"scan", "clean"} /\ n \in {name[d]} \cup todo[d]}
    \cup (IF rename.pc \in {"link", "remove", "undo"} /\ n \in {rename.from, rename.to}
          THEN {"rename"} ELSE {})
Contended == {n \in Names : Cardinality(Claimants(n)) > 1}

Go(d, next) == does' = [does EXCEPT ![d] = next]
Die(d) == Go(d, "dead")
Forget(what, d) == [what EXCEPT ![d] = NoSocket]

-----------------------------------------------------------------------------
(* The daemon.                                                             *)

\* spawn_server starts the daemon; whoever started it waits.
Spawn(d) ==
    /\ does[d] = "off"
    /\ Go(d, "stat")
    /\ waiter' = [waiter EXCEPT ![d] = "waiting"]
    /\ UNCHANGED <<dir, seen, guard, todo, rename>>

\* remove_stale_socket: nothing there, or an entry to look at.
Stat(d) ==
    /\ does[d] = "stat"
    /\ seen' = [seen EXCEPT ![d] = dir[name[d]]]
    /\ Go(d, IF dir[name[d]] = NoSocket THEN "bind" ELSE "connect")
    /\ UNCHANGED <<dir, guard, todo, waiter, rename>>

\* Only a refused connection is evidence that nobody listens.
Connect(d) ==
    /\ does[d] = "connect"
    /\ \/ Refusing(dir[name[d]]) /\ Go(d, "restat")
       \/ (dir[name[d]] = NoSocket \/ Listening(dir[name[d]])) /\ Die(d)
    /\ UNCHANGED <<dir, seen, guard, todo, waiter, rename>>

\* The second look: it has to be the same socket.
Restat(d) ==
    /\ does[d] = "restat"
    /\ Go(d, IF dir[name[d]] = seen[d] THEN "unlink" ELSE "dead")
    /\ seen' = Forget(seen, d)
    /\ UNCHANGED <<dir, guard, todo, waiter, rename>>

Unlink(d) ==
    /\ does[d] = "unlink"
    /\ dir' = [dir EXCEPT ![name[d]] = NoSocket]
    /\ Go(d, IF dir[name[d]] = NoSocket THEN "dead" ELSE "bind")
    /\ UNCHANGED <<seen, guard, todo, waiter, rename>>

\* UnixListener::bind is bind, which fails when the name is taken, ...
Bind(d) ==
    /\ does[d] = "bind"
    /\ \/ /\ dir[name[d]] = NoSocket
          /\ dir' = [dir EXCEPT ![name[d]] = d]
          /\ Go(d, "listen")
       \/ dir[name[d]] # NoSocket /\ Die(d) /\ UNCHANGED dir
    /\ UNCHANGED <<seen, guard, todo, waiter, rename>>

\* ... and then listen: in between a connection is refused.
Listen(d) ==
    /\ does[d] = "listen" /\ Go(d, "perm")
    /\ UNCHANGED <<dir, seen, guard, todo, waiter, rename>>

\* fix_socket_permissions fails when there is no socket under the name.
Permissions(d) ==
    /\ does[d] = "perm"
    /\ Go(d, IF dir[name[d]] = NoSocket THEN "dead" ELSE "guard")
    /\ UNCHANGED <<dir, seen, guard, todo, waiter, rename>>

\* SocketCleanupGuard::new: it remembers the socket the name leads to.
Guard(d) ==
    /\ does[d] = "guard"
    /\ \/ /\ dir[name[d]] # NoSocket
          /\ guard' = [guard EXCEPT ![d] = dir[name[d]]]
          /\ Go(d, "build")
       \/ dir[name[d]] = NoSocket /\ Die(d) /\ UNCHANGED guard
    /\ UNCHANGED <<dir, seen, todo, waiter, rename>>

\* Panes, hooks and the control socket are set up, then clients are served.
Build(d) ==
    /\ does[d] = "build"
    /\ Go(d, "ready") \/ Go(d, "scan")
    /\ UNCHANGED <<dir, seen, guard, todo, waiter, rename>>

\* The session ends: a kill command, the last pane, a signal.
End(d) ==
    /\ does[d] = "ready" /\ Go(d, "scan")
    /\ UNCHANGED <<dir, seen, guard, todo, waiter, rename>>

\* Mutant of Scan: every name with the prefix is taken for the daemon's own.
ScanAll(d) ==
    /\ does[d] = "scan" /\ todo' = [todo EXCEPT ![d] = {n \in Names : dir[n] # NoSocket}]
    /\ Go(d, "clean") /\ guard' = Forget(guard, d)
    /\ UNCHANGED <<dir, seen, waiter, rename>>

\* SocketCleanupGuard::drop: its socket under any name, for it may have been
\* renamed; looked up first, ...
Scan(d) ==
    /\ does[d] = "scan"
    /\ todo' = [todo EXCEPT ![d] = {n \in Names : dir[n] = guard[d]}]
    /\ Go(d, "clean") /\ guard' = Forget(guard, d)
    /\ UNCHANGED <<dir, seen, waiter, rename>>

\* ... then removed.
Clean(d) ==
    /\ does[d] = "clean"
    /\ \/ \E n \in todo[d] :
             /\ dir' = [dir EXCEPT ![n] = NoSocket]
             /\ todo' = [todo EXCEPT ![d] = @ \ {n}]
             /\ UNCHANGED does
       \/ todo[d] = {} /\ Die(d) /\ UNCHANGED <<dir, todo>>
    /\ UNCHANGED <<seen, guard, waiter, rename>>

\* It is killed, and its socket stays behind.
CrashDaemon(d) ==
    /\ Alive(d) /\ Die(d)
    /\ seen' = Forget(seen, d) /\ guard' = Forget(guard, d)
    /\ todo' = [todo EXCEPT ![d] = {}]
    /\ UNCHANGED <<dir, waiter, rename>>

-----------------------------------------------------------------------------
(* Whoever started the daemon (wait_for_server).                           *)

\* probe_for_pid: a pong from the process that was started, and no other.
Probe(d) ==
    /\ waiter[d] = "waiting"
    /\ dir[name[d]] = d /\ does[d] = "ready"
    /\ waiter' = [waiter EXCEPT ![d] = "attached"]
    /\ UNCHANGED <<dir, does, seen, guard, todo, rename>>

ChildExited(d) ==
    /\ waiter[d] = "waiting" /\ does[d] = "dead"
    /\ waiter' = [waiter EXCEPT ![d] = "failed"]
    /\ UNCHANGED <<dir, does, seen, guard, todo, rename>>

\* Three seconds are over: SIGTERM, which a daemon that serves obeys, ...
GiveUp(d) ==
    /\ waiter[d] = "waiting" /\ Alive(d)
    /\ waiter' = [waiter EXCEPT ![d] = "stopping"]
    /\ does' = IF does[d] = "ready" THEN [does EXCEPT ![d] = "scan"] ELSE does
    /\ UNCHANGED <<dir, seen, guard, todo, rename>>

\* ... and after half a second the end of it.  Its socket is never unlinked.
Stop(d) ==
    /\ waiter[d] = "stopping"
    /\ Die(d)
    /\ waiter' = [waiter EXCEPT ![d] = "failed"]
    /\ seen' = Forget(seen, d) /\ guard' = Forget(guard, d)
    /\ todo' = [todo EXCEPT ![d] = {}]
    /\ UNCHANGED <<dir, rename>>

-----------------------------------------------------------------------------
(* ezpn rename.                                                            *)

\* find: a session that answers, and a new name that is free.
RenameStart ==
    /\ rename.pc = "idle"
    /\ \E from, to \in Names :
          /\ from # to
          /\ dir[from] \in Daemons /\ does[dir[from]] = "ready" /\ dir[to] = NoSocket
          /\ rename' = [pc |-> "link", from |-> from, to |-> to]
    /\ UNCHANGED <<dir, does, seen, guard, todo, waiter>>

\* hard_link: unlike a rename it does not replace what has come there since.
Link ==
    /\ rename.pc = "link"
    /\ \/ /\ dir[rename.from] # NoSocket /\ dir[rename.to] = NoSocket
          /\ dir' = [dir EXCEPT ![rename.to] = dir[rename.from]]
          /\ rename' = [rename EXCEPT !.pc = "remove"]
       \/ /\ dir[rename.from] = NoSocket \/ dir[rename.to] # NoSocket
          /\ rename' = [pc |-> "done"] /\ UNCHANGED dir
    /\ UNCHANGED <<does, seen, guard, todo, waiter>>

\* The old name goes; if it is gone already, the new one goes instead.
RemoveOld ==
    /\ rename.pc = "remove"
    /\ dir' = [dir EXCEPT ![rename.from] = NoSocket]
    /\ rename' = IF dir[rename.from] = NoSocket THEN [rename EXCEPT !.pc = "undo"]
                                                ELSE [pc |-> "done"]
    /\ UNCHANGED <<does, seen, guard, todo, waiter>>
Undo ==
    /\ rename.pc = "undo"
    /\ dir' = [dir EXCEPT ![rename.to] = NoSocket]
    /\ rename' = [pc |-> "done"]
    /\ UNCHANGED <<does, seen, guard, todo, waiter>>

DaemonStep(d) ==
    \/ Stat(d) \/ Connect(d) \/ Restat(d) \/ Unlink(d) \/ Bind(d) \/ Listen(d)
    \/ Permissions(d) \/ Guard(d) \/ Build(d) \/ Scan(d) \/ Clean(d)
WaiterStep(d) == Probe(d) \/ ChildExited(d) \/ GiveUp(d) \/ Stop(d)

\* Names are given once; the history notes who met whom.
Note == UNCHANGED name /\ raced' = raced \cup Contended'

SockNext ==
    /\ \/ \E d \in Daemons : Spawn(d) \/ DaemonStep(d) \/ End(d) \/ CrashDaemon(d) \/ WaiterStep(d)
       \/ RenameStart \/ Link \/ RemoveOld \/ Undo
    /\ Note

-----------------------------------------------------------------------------
(* Properties.                                                             *)

Reachable(d) == \E n \in Names : dir[n] = d

\* Whoever works alone on a name keeps what others have: a daemon that serves
\* can be reached under some name through starts on top of dead sockets,
\* renames, crashes and ends of others, unless two processes worked on a name
\* at the same time (socket_security.rs, remove_stale_socket and
\* SocketCleanupGuard; attach.rs, cmd_rename).
ReachableUnlessRaced ==
    \A d \in Daemons : does[d] = "ready" /\ raced = {} => Reachable(d)
=============================================================================
