----------------------------- MODULE Handshake -----------------------------
(***************************************************************************)
(* The daemon's door (src/src/server/handshake.rs): every connection is    *)
(* greeted and heard by a thread of its own, for two seconds at most and   *)
(* by at most MaxPending threads; the main loop takes the results, and     *)
(* drops those that have waited for too long.                              *)
(***************************************************************************)
EXTENDS Naturals, Sequences, FiniteSets

CONSTANTS
    Peers,         \* processes that connect
    MaxPending,    \* bound of handshake.rs: threads and results (16)
    Limit          \* HANDSHAKE_TIMEOUT (2 s), in ticks

\* What a peer says: its hello (current, of another major version, none), its
\* first frame after it, or bytes of the protocol before frames.  Another user
\* is not heard at all.
Hellos == {"same", "other", "none"}
Frames == {"ping", "kill", "resize", "attach", "noise"}
Speeches == [user : {"us"}, hello : Hellos, frame : Frames]
            \cup {[user |-> "us", hello |-> "legacy", frame |-> "noise"],
                  [user |-> "them", hello |-> "none", frame |-> "noise"]}

VARIABLES
    peer,       \* peer -> "away", "queued", "heard", "result", "client" or how it ended
    spent,      \* peer -> ticks since it was accepted, or since its result
    pending,    \* the counter of handshake threads
    results,    \* the channel to the main loop: [of, kill]
    stopped     \* the acceptor was dropped

shakeVars == <<peer, spent, pending, results, stopped>>

PeerEnds == {"greeted", "told", "refused", "dropped", "client", "killed"}

ShakeInit ==
    /\ peer = [p \in Peers |-> "away"]
    /\ spent = [p \in Peers |-> 0]
    /\ pending = 0 /\ results = <<>> /\ stopped = FALSE

Becomes(p, what) == peer' = [peer EXCEPT ![p] = what]

\* The kernel queues the connection.
Arrive(p) ==
    /\ peer[p] = "away"
    /\ Becomes(p, "queued")
    /\ UNCHANGED <<spent, pending, results, stopped>>

\* One too many is closed at once; the others get a thread.
AcceptPeer(p) ==
    /\ peer[p] = "queued" /\ ~stopped
    /\ \/ /\ pending < MaxPending
          /\ pending' = pending + 1
          /\ Becomes(p, "heard")
       \/ /\ pending >= MaxPending
          /\ Becomes(p, "refused") /\ UNCHANGED pending
    /\ spent' = [spent EXCEPT ![p] = 0]
    /\ UNCHANGED <<results, stopped>>

\* PendingGuard: however the thread ends, its place is free.
EndThread(p, what) == Becomes(p, what) /\ pending' = pending - 1

\* negotiate: what the daemon makes of a speech.
Negotiate(s) ==
    CASE s.user = "them"    -> "refused"
      [] s.hello = "legacy" -> "told"
      [] s.hello = "other"  -> "told"
      [] s.frame = "ping"   -> "greeted"
      [] s.frame = "noise"  -> "refused"
      [] OTHER              -> "result"

\* The thread hears the peer out.  A result that finds the channel full is lost.
Hear(p) ==
    /\ peer[p] = "heard"
    /\ \E s \in Speeches :
       LET outcome == Negotiate(s) IN
       \/ outcome # "result" /\ EndThread(p, outcome) /\ UNCHANGED <<results, spent>>
       \/ /\ outcome = "result" /\ Len(results) < MaxPending
          /\ EndThread(p, "result")
          /\ results' = Append(results, [of |-> p, kill |-> s.frame = "kill"])
          /\ spent' = [spent EXCEPT ![p] = 0]
       \/ /\ outcome = "result" /\ Len(results) >= MaxPending
          /\ EndThread(p, "dropped") /\ UNCHANGED <<results, spent>>
    /\ UNCHANGED stopped

\* Mutant of Deadline: a silent peer is waited for.
DeadlineNever(p) == FALSE /\ UNCHANGED shakeVars

\* DeadlineStream: the peer was silent, slow or went away.
Deadline(p) ==
    /\ peer[p] = "heard"
    /\ spent[p] >= Limit
    /\ EndThread(p, "dropped")
    /\ UNCHANGED <<spent, results, stopped>>

\* Time passes: nobody is heard for longer than the limit.
Tick ==
    /\ \A p \in Peers : peer[p] = "heard" => spent[p] < Limit
    /\ \E p \in Peers : peer[p] \in {"heard", "result"} /\ spent[p] <= Limit
    /\ spent' = [p \in Peers |-> IF peer[p] \in {"heard", "result"} /\ spent[p] <= Limit
                                 THEN spent[p] + 1 ELSE spent[p]]
    /\ UNCHANGED <<peer, pending, results, stopped>>

FreshResult(p) == spent[p] < Limit

\* try_recv: stale results are closed on the way to the first fresh one.
Stale == {i \in DOMAIN results : \A j \in 1 .. i : ~FreshResult(results[j].of)}
TryRecv ==
    /\ results # <<>> /\ ~stopped
    /\ LET n == Cardinality(Stale)
           taken == {results[i].of : i \in Stale}
       IN  \/ /\ n = Len(results)
              /\ peer' = [p \in Peers |-> IF p \in taken THEN "dropped" ELSE peer[p]]
              /\ results' = <<>> /\ UNCHANGED stopped
           \/ /\ n < Len(results)
              /\ LET first == results[n + 1]
                 IN  /\ peer' = [p \in Peers |->
                                   IF p \in taken THEN "dropped"
                                   ELSE IF p # first.of THEN peer[p]
                                   ELSE IF first.kill THEN "killed" ELSE "client"]
                     /\ stopped' = first.kill
              /\ results' = SubSeq(results, n + 2, Len(results))
    /\ UNCHANGED <<spent, pending>>

\* The session ends for another reason.
SessionOver ==
    /\ ~stopped /\ stopped' = TRUE
    /\ UNCHANGED <<peer, spent, pending, results>>

\* The daemon ends: what waits at its door is closed with it.
Closing ==
    /\ stopped
    /\ peer' = [p \in Peers |-> IF peer[p] \in {"queued", "result"} THEN "dropped" ELSE peer[p]]
    /\ peer' # peer /\ results' = <<>>
    /\ UNCHANGED <<spent, pending, stopped>>

ShakeNext ==
    \/ \E p \in Peers : Arrive(p) \/ AcceptPeer(p) \/ Hear(p) \/ Deadline(p)
    \/ Tick \/ TryRecv \/ SessionOver \/ Closing

-----------------------------------------------------------------------------
(* Properties.                                                             *)

\* Whoever knocks gets an end: a session, an answer or a closed connection,
\* even if it never says a word (handshake.rs, start and try_recv).
DoorAnswers == \A p \in Peers : peer[p] = "queued" ~> peer[p] \in PeerEnds
=============================================================================
