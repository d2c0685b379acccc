----------------------------- MODULE ControlIpc -----------------------------
(***************************************************************************)
(* The control socket (src/src/ipc.rs): a thread per connection reads a    *)
(* request, passes it to the main loop with a channel for the answer,      *)
(* waits for a limited time and writes the answer.  The main loop executes *)
(* the requests in order (src/src/server/mod.rs, src/src/bootstrap.rs,     *)
(* src/src/server/ext_handlers.rs).                                        *)
(***************************************************************************)
EXTENDS Naturals, Sequences, SequencesExt, FiniteSetsExt

CONSTANTS
    Conns,         \* connections of ezpn-ctl and of scripts
    MaxWorkers,    \* bound of ipc.rs: handler threads at a time (16)
    ChanCap,       \* bound of ipc.rs: requests on their way (16)
    MaxPerConn,    \* bound: requests of a connection
    Requests       \* what each asks for: sets of records [cmd, pane]

Commands == {"split", "close", "focus", "list", "ls_tree", "dump", "layout", "exec", "save",
             "load", "send_keys"}

ASSUME IpcAssumption ==
    /\ MaxPerConn \in Nat
    /\ Requests \in [Conns -> SUBSET [cmd : Commands, pane : Nat]]

VARIABLES
    conn,        \* connection -> state of its handler
    asked,       \* connection -> requests read so far
    workers,     \* the counter of handler threads
    chan,        \* requests the main loop has not taken: <<connection, number, request>>
    reply,       \* answers sent and not received: <<connection, number, answer>>
    answers,     \* history: connection -> what was written, request by request
    executed,    \* history: how often the main loop executed each request
    leaves,      \* the panes of the active tab's layout, in order
    panes,       \* those that have a process (the panes map)
    focus,       \* active
    nextId       \* layout.next_id

ipcVars == <<conn, asked, workers, chan, reply, answers, executed, leaves, panes, focus, nextId>>
Says(what) == [is |-> what]

paneVars == <<leaves, panes, focus, nextId>>

IpcInit ==
    /\ conn = [c \in Conns |-> "none"]
    /\ asked = [c \in Conns |-> 0]
    /\ workers = 0 /\ chan = <<>> /\ reply = {}
    /\ answers = [c \in Conns |-> <<>>]
    /\ executed = [c \in Conns |-> [n \in 1 .. MaxPerConn |-> 0]]
    /\ leaves = <<0, 1>> /\ panes = {0, 1} /\ focus = 0 /\ nextId = 2

-----------------------------------------------------------------------------
(* A connection's thread.                                                  *)

\* The listener: a peer of another user, or one too many, is dropped.
Accept(c) ==
    /\ conn[c] = "none"
    /\ \/ /\ workers < MaxWorkers
          /\ workers' = workers + 1
          /\ conn' = [conn EXCEPT ![c] = "reading"]
       \/ /\ conn' = [conn EXCEPT ![c] = "refused"] /\ UNCHANGED workers
    /\ UNCHANGED <<asked, chan, reply, answers, executed, paneVars>>


\* The handler returns, and its guard gives its place back.
Ends(c) == workers' = workers - 1 /\ conn' = [conn EXCEPT ![c] = "closed"]

\* read_request_line: the peer closed, was too slow or sent too much.
Hangup(c) ==
    /\ conn[c] = "reading"
    /\ Ends(c)
    /\ UNCHANGED <<asked, chan, reply, answers, executed, paneVars>>

\* A line that is not a request is answered at once.
BadRequest(c) ==
    /\ conn[c] = "reading" /\ asked[c] < MaxPerConn
    /\ asked' = [asked EXCEPT ![c] = @ + 1]
    /\ answers' = [answers EXCEPT ![c] = Append(@, Says("invalid"))]
    /\ UNCHANGED <<conn, workers, chan, reply, executed, paneVars>>

\* A request goes to the main loop, which wakes; when the channel is full the
\* client is told and the connection ends.
Request(c) ==
    /\ conn[c] = "reading" /\ asked[c] < MaxPerConn
    /\ asked' = [asked EXCEPT ![c] = @ + 1]
    /\ \E req \in Requests[c] :
          \/ /\ Len(chan) < ChanCap
             /\ chan' = Append(chan, <<c, asked[c] + 1, req>>)
             /\ conn' = [conn EXCEPT ![c] = "waiting"]
             /\ UNCHANGED <<workers, answers>>
          \/ /\ Len(chan) >= ChanCap
             /\ answers' = [answers EXCEPT ![c] = Append(@, Says("busy"))]
             /\ Ends(c) /\ UNCHANGED chan
    /\ UNCHANGED <<reply, executed, paneVars>>

\* The answer in the channel of the request that waits.
ReplyFor(c) == {r \in reply : r[1] = c /\ r[2] = asked[c]}

\* write_response: written, or the peer does not take it and the handler ends.
Write(c, answer) ==
    /\ answers' = [answers EXCEPT ![c] = Append(@, answer)]
    /\ \/ conn' = [conn EXCEPT ![c] = "reading"] /\ UNCHANGED workers
       \/ Ends(c)

\* recv_timeout: the answer came, ...
Answered(c) ==
    /\ conn[c] = "waiting"
    /\ \E r \in ReplyFor(c) : Write(c, r[3]) /\ reply' = reply \ {r}
    /\ UNCHANGED <<asked, chan, executed, paneVars>>

\* ... or it did not in time: "command may have executed".
TimedOut(c) ==
    /\ conn[c] = "waiting" /\ ReplyFor(c) = {}
    /\ Write(c, Says("timed_out"))
    /\ UNCHANGED <<asked, chan, reply, executed, paneVars>>

-----------------------------------------------------------------------------
(* The main loop.  Answers: "ok", "error", or the panes asked for.          *)

Outcome(answer, ls, ps, f, n) ==
    [answer |-> answer, leaves |-> ls, panes |-> ps, focus |-> f, next |-> n]
Same(answer) == Outcome(answer, leaves, panes, focus, nextId)

\* do_split: too many panes, too small a pane or a failed spawn change nothing.
Split(req, spawns) ==
    IF req.pane \notin panes \/ ~spawns THEN Same(Says("error"))
    ELSE LET i == CHOOSE i \in DOMAIN leaves : leaves[i] = req.pane
         IN  Outcome(Says("ok"), InsertAt(leaves, i + 1, nextId), panes \cup {nextId}, focus, nextId + 1)

\* close_pane: the last pane's leaf stays in the layout, and the focus moves to
\* the first leaf when the focused pane goes.
Close(req) ==
    LET left == SelectSeq(leaves, LAMBDA p : p # req.pane)
        kept == IF left = <<>> THEN leaves ELSE left
    IN  IF req.pane \notin panes \cup Range(leaves) THEN Same(Says("error"))
        ELSE Outcome(Says("ok"), kept, panes \ {req.pane},
                     IF focus = req.pane THEN kept[1] ELSE focus, nextId)

Focus(req) ==
    IF req.pane \in panes THEN Outcome(Says("ok"), leaves, panes, req.pane, nextId) ELSE Same(Says("error"))

\* The panes of the layout, those without a process too.
List == Same([is |-> "panes", panes |-> leaves, focus |-> focus])

\* handle_ls_tree: only panes with a process, and the focus only if it is one.
\* Another session's name gets an empty tree.
LsTree(ours) ==
    Same(IF ~ours THEN [is |-> "tree", panes |-> <<>>, focus |-> {}]
         ELSE [is |-> "tree", panes |-> SelectSeq(leaves, LAMBDA p : p \in panes),
               focus |-> {focus} \cap panes])

\* handle_dump_mut: pane 0 stands for the focused pane when no pane has that id.
Dump(req) ==
    IF req.pane \in panes THEN Same([is |-> "dump", pane |-> req.pane])
    ELSE IF req.pane = 0 /\ focus \in panes THEN Same([is |-> "dump", pane |-> focus])
    ELSE Same(Says("error"))

\* reconfigure_layout and equalize move panes about; a layout for another
\* number of panes is refused.
Layout(req) == IF req.pane = Len(leaves) THEN Same(Says("ok")) ELSE Same(Says("error"))

\* replace_pane: the new process starts before the old one goes.
Exec(req, spawns) ==
    IF req.pane \in panes /\ spawns THEN Same(Says("ok")) ELSE Same(Says("error"))

\* Full-session restore: every process of the snapshot starts before any of the
\* present ones goes.
Load(req, spawns) == IF spawns THEN Outcome(Says("ok"), <<0>>, {0}, 0, 1) ELSE Same(Says("error"))

\* The whole session is captured and written; either may fail.
Save(req, written) == IF written THEN Same(Says("ok")) ELSE Same(Says("error"))

Outcomes(req) ==
    {CASE req.cmd = "split" -> Split(req, spawns)
       [] req.cmd = "close" -> Close(req)
       [] req.cmd = "focus" -> Focus(req)
       [] req.cmd = "list" -> List
       [] req.cmd = "ls_tree" -> LsTree(spawns)
       [] req.cmd = "dump" -> Dump(req)
       [] req.cmd = "layout" -> Layout(req)
       [] req.cmd = "exec" -> Exec(req, spawns)
       [] req.cmd = "save" -> Save(req, spawns)
       [] req.cmd = "load" -> Load(req, spawns)
       [] req.cmd = "send_keys" -> Same(Says("error"))
     : spawns \in BOOLEAN}

\* Mutant of Execute: one answer channel per connection, so an answer that comes
\* late is there for the next request.
ExecuteToConn ==
    /\ chan # <<>>
    /\ LET m == Head(chan)
       IN  /\ \E o \in Outcomes(m[3]) :
                 /\ leaves' = o.leaves /\ panes' = o.panes /\ focus' = o.focus /\ nextId' = o.next
                 /\ reply' = IF conn[m[1]] = "waiting"
                             THEN reply \cup {<<m[1], asked[m[1]], o.answer>>} ELSE reply
           /\ executed' = [executed EXCEPT ![m[1]][m[2]] = @ + 1]
    /\ chan' = Tail(chan)
    /\ UNCHANGED <<conn, asked, workers, answers>>

\* One request: an answer to a handler that gave up goes nowhere.
Execute ==
    /\ chan # <<>>
    /\ LET m == Head(chan)
       IN  /\ \E o \in Outcomes(m[3]) :
                 /\ leaves' = o.leaves /\ panes' = o.panes /\ focus' = o.focus /\ nextId' = o.next
                 /\ reply' = IF conn[m[1]] = "waiting" /\ asked[m[1]] = m[2]
                             THEN reply \cup {<<m[1], m[2], o.answer>>} ELSE reply
           /\ executed' = [executed EXCEPT ![m[1]][m[2]] = @ + 1]
    /\ chan' = Tail(chan)
    /\ UNCHANGED <<conn, asked, workers, answers>>

IpcNext ==
    \/ \E c \in Conns : \/ Accept(c) \/ Hangup(c) \/ BadRequest(c) \/ Request(c)
                        \/ Answered(c) \/ TimedOut(c)
    \/ Execute

-----------------------------------------------------------------------------
(* What a script can rely on.                                              *)

Queued(c, n) == \E i \in DOMAIN chan : chan[i][1] = c /\ chan[i][2] = n

\* The n-th answer of a connection is the n-th request's: a request answered
\* with a result ran exactly once, one answered "busy" or "invalid" never runs,
\* and a late result is never given to the request after the one that timed out.
AnswersAreTrue ==
    \A c \in Conns : \A n \in DOMAIN answers[c] :
        LET a == answers[c][n].is
        IN  CASE a \in {"busy", "invalid"} -> executed[c][n] = 0 /\ ~Queued(c, n)
              [] a = "timed_out" -> executed[c][n] + (IF Queued(c, n) THEN 1 ELSE 0) = 1
              [] OTHER -> executed[c][n] = 1

=============================================================================
