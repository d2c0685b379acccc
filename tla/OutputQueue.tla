---------------------------- MODULE OutputQueue ----------------------------
(***************************************************************************)
(* QueuedWriter of src/src/server/connection.rs: the path of every frame   *)
(* the daemon sends to one attached client.                                *)
(*                                                                         *)
(* Two threads share a byte-bounded queue of blocks.  The PRODUCER is the  *)
(* daemon's main loop: protocol::write_msg writes a header and a payload   *)
(* into `pending' and flushes them as one frame into the queue; dropping   *)
(* the writer closes the queue.  The WORKER is the "ezpn-output" thread:   *)
(* it takes a block, writes it to the socket under a two-second deadline,  *)
(* and after an error or a close discards what is left.                    *)
(*                                                                         *)
(* A block of bytes is the range [from, to) of positions it holds in the   *)
(* stream of bytes the queue has accepted.  Each critical section of the   *)
(* queue mutex is one step: the only accesses of the other thread that can *)
(* fall inside it (the worker's fetch_sub and its store to `failed')       *)
(* commute with the rest of the section.                                   *)
(***************************************************************************)
EXTENDS Naturals, Sequences, SeqOps

CONSTANTS
    HEADER,              \* bytes of a frame header (5 in the code)
    MAX_PAYLOAD,         \* largest payload write_msg accepts
    OUTPUT_BLOCK_BYTES,  \* small frames are coalesced up to this size
    Payloads,            \* payload sizes the producer sends
    MaxAccepted          \* bound of the model: bytes accepted in a behaviour

QUEUE_BYTES == MAX_PAYLOAD + HEADER

ASSUME SizesAssumption ==
    /\ HEADER \in Nat \ {0}
    /\ MAX_PAYLOAD \in Nat
    /\ OUTPUT_BLOCK_BYTES \in Nat
    /\ Payloads \subseteq 0 .. MAX_PAYLOAD
    /\ MaxAccepted \in Nat

Block == [from : Nat, to : Nat]
NoBlock == [from |-> 0, to |-> 0]

VARIABLES
    ppc,           \* where the producer is in write_msg, or in drop
    payload,       \* payload bytes of the frame being written
    pending,       \* bytes written but not yet flushed
    blocks,        \* OutputBlocks.blocks
    closed,        \* OutputBlocks.closed
    failed,        \* the shared `failed' flag
    queued_bytes,  \* the shared byte counter
    shut,          \* the socket has been shut down in both directions
    wpc,           \* where the worker is in its loop
    frame,         \* the block the worker took
    accepted, frame_ends, delivered, broken   \* history, see FrameStream

prodVars   == <<ppc, payload, pending>>
sharedVars == <<blocks, closed, failed, queued_bytes, shut>>
workVars   == <<wpc, frame>>
histVars   == <<accepted, frame_ends, delivered, broken>>
vars == <<prodVars, sharedVars, workVars, histVars>>

ProducerPC == {"idle", "payload", "flush", "lock", "notify", "drop_notify", "dropped"}
WorkerPC   == {"take", "waiting", "write", "sub_ok", "sub_err",
               "stop", "close", "shutdown", "exited"}

Init ==
    /\ ppc = "idle" /\ payload = 0 /\ pending = 0
    /\ blocks = <<>> /\ closed = FALSE /\ failed = FALSE
    /\ queued_bytes = 0 /\ shut = FALSE
    /\ wpc = "take" /\ frame = NoBlock
    /\ accepted = 0 /\ frame_ends = {0} /\ delivered = 0 /\ broken = FALSE

BlockLen(b) == b.to - b.from

\* blocks.iter().map(Vec::len).sum()
Remaining(bs) == Total([i \in 1 .. Len(bs) |-> BlockLen(bs[i])])

-----------------------------------------------------------------------------
(* The producer.                                                           *)

\* QueuedWriter::fail: record the failure and cut the connection.
Fail ==
    /\ failed' = TRUE
    /\ shut' = TRUE
    /\ ppc' = "idle"
    /\ UNCHANGED <<payload, pending, blocks, closed, queued_bytes, workVars, histVars>>

\* <QueuedWriter as Write>::write of n bytes: its early return ...
WriteRefused(n) == failed \/ n > QUEUE_BYTES - pending

\* ... and its effect.
WriteBytes(n, next) ==
    /\ ~WriteRefused(n)
    /\ pending' = pending + n
    /\ ppc' = next
    /\ UNCHANGED <<sharedVars, workVars, histVars>>

\* write_msg starts a frame with a payload of n bytes.
WriteHeader ==
    /\ ppc = "idle"
    /\ accepted + HEADER + MAX_PAYLOAD <= MaxAccepted
    /\ \/ \E n \in Payloads :
            /\ WriteBytes(HEADER, IF n = 0 THEN "flush" ELSE "payload")
            /\ payload' = n
       \/ WriteRefused(HEADER) /\ Fail

WritePayload ==
    /\ ppc = "payload"
    /\ \/ WriteBytes(payload, "flush") /\ UNCHANGED payload
       \/ WriteRefused(payload) /\ Fail

\* flush, before the queue mutex is taken.
FlushCheck ==
    /\ ppc = "flush"
    /\ \/ /\ failed
          /\ Fail
       \/ /\ ~failed
          /\ ppc' = "lock"
          /\ UNCHANGED <<payload, pending, sharedVars, workVars, histVars>>

\* The tail block takes the frame when the two fit in one output block.
Coalesces(len) ==
    /\ blocks # <<>>
    /\ BlockLen(blocks[Len(blocks)]) + len <= OUTPUT_BLOCK_BYTES

Enqueue(len) ==
    IF Coalesces(len)
    THEN [blocks EXCEPT ![Len(blocks)].to = @ + len]
    ELSE Append(blocks, [from |-> accepted, to |-> accepted + len])

\* Mutant of FlushRefused: `closed' and `failed' are not read again under the
\* mutex.
FlushRefusedOnlyCap(len) == queued_bytes + len > QUEUE_BYTES

\* flush, under the queue mutex.
FlushRefused(len) == closed \/ failed \/ queued_bytes + len > QUEUE_BYTES

FlushLocked ==
    /\ ppc = "lock"
    /\ \/ FlushRefused(pending) /\ Fail
       \/ /\ ~FlushRefused(pending)
          /\ queued_bytes' = queued_bytes + pending
          /\ blocks' = Enqueue(pending)
          /\ pending' = 0
          /\ accepted' = accepted + pending
          /\ frame_ends' = frame_ends \cup {accepted + pending}
          /\ ppc' = "notify"
          /\ UNCHANGED <<payload, closed, failed, shut, workVars, delivered, broken>>

\* Condvar::notify_one, after the mutex has been released.
NotifyOne(next) ==
    /\ ppc' = next
    /\ wpc' = IF wpc = "waiting" THEN "take" ELSE wpc
    /\ UNCHANGED <<payload, pending, sharedVars, frame, histVars>>

\* Mutant of FlushNotify: the worker is not woken.
FlushNoNotify == ppc = "notify" /\ ppc' = "idle"
                 /\ UNCHANGED <<payload, pending, sharedVars, workVars, histVars>>

FlushNotify == ppc = "notify" /\ NotifyOne("idle")

\* <QueuedWriter as Drop>::drop, between frames.
Drop ==
    /\ ppc = "idle"
    /\ closed' = TRUE
    /\ ppc' = "drop_notify"
    /\ UNCHANGED <<payload, pending, blocks, failed, queued_bytes, shut, workVars, histVars>>

DropNotify == ppc = "drop_notify" /\ NotifyOne("dropped")

Producer ==
    \/ WriteHeader \/ WritePayload \/ FlushCheck \/ FlushLocked \/ FlushNotify
    \/ Drop \/ DropNotify

-----------------------------------------------------------------------------
(* The worker.                                                             *)

\* Mutants of Take: a closed queue is not drained; the newest block first.
TakeUnlessClosed ==
    /\ wpc = "take"
    /\ \/ /\ blocks # <<>> /\ ~closed
          /\ frame' = Head(blocks) /\ blocks' = Tail(blocks)
          /\ wpc' = "write"
       \/ /\ blocks = <<>> \/ closed
          /\ wpc' = IF closed THEN "stop" ELSE "waiting"
          /\ UNCHANGED <<frame, blocks>>
    /\ UNCHANGED <<prodVars, closed, failed, queued_bytes, shut, histVars>>

TakeNewest ==
    /\ wpc = "take"
    /\ \/ /\ blocks # <<>>
          /\ frame' = blocks[Len(blocks)] /\ blocks' = SubSeq(blocks, 1, Len(blocks) - 1)
          /\ wpc' = "write"
       \/ /\ blocks = <<>>
          /\ wpc' = IF closed THEN "stop" ELSE "waiting"
          /\ UNCHANGED <<frame, blocks>>
    /\ UNCHANGED <<prodVars, closed, failed, queued_bytes, shut, histVars>>

\* Under the queue mutex: take a block, stop, or wait on the condvar.
Take ==
    /\ wpc = "take"
    /\ \/ /\ blocks # <<>>
          /\ frame' = Head(blocks)
          /\ blocks' = Tail(blocks)
          /\ wpc' = "write"
       \/ /\ blocks = <<>>
          /\ wpc' = IF closed THEN "stop" ELSE "waiting"
          /\ UNCHANGED <<frame, blocks>>
    /\ UNCHANGED <<prodVars, closed, failed, queued_bytes, shut, histVars>>

\* DeadlineStream::write_all sends the whole block ...
WriteOk ==
    /\ wpc = "write"
    /\ ~shut
    /\ delivered' = frame.to
    /\ wpc' = "sub_ok"
    /\ UNCHANGED <<prodVars, sharedVars, frame, accepted, frame_ends, broken>>

\* ... or fails (deadline, peer gone, socket shut) after some of it.
WriteErr ==
    /\ wpc = "write"
    /\ delivered' \in frame.from .. (frame.to - 1)
    /\ broken' = TRUE
    /\ wpc' = "sub_err"
    /\ UNCHANGED <<prodVars, sharedVars, frame, accepted, frame_ends>>

\* Mutant of ReleaseBytes: an error leaves the block counted.
ReleaseBytesIfSent ==
    /\ wpc \in {"sub_ok", "sub_err"}
    /\ queued_bytes' = queued_bytes - (IF wpc = "sub_ok" THEN BlockLen(frame) ELSE 0)
    /\ wpc' = IF wpc = "sub_ok" THEN "take" ELSE "stop"
    /\ frame' = NoBlock
    /\ UNCHANGED <<prodVars, blocks, closed, failed, shut, histVars>>

\* bytes.fetch_sub(frame.len()), on either outcome, outside the mutex.
ReleaseBytes ==
    /\ wpc \in {"sub_ok", "sub_err"}
    /\ queued_bytes' = queued_bytes - BlockLen(frame)
    /\ wpc' = IF wpc = "sub_ok" THEN "take" ELSE "stop"
    /\ frame' = NoBlock
    /\ UNCHANGED <<prodVars, blocks, closed, failed, shut, histVars>>

\* worker_failed.store(true), before the mutex is taken again.
StopFailed ==
    /\ wpc = "stop"
    /\ failed' = TRUE
    /\ wpc' = "close"
    /\ UNCHANGED <<prodVars, blocks, closed, queued_bytes, shut, frame, histVars>>

\* Under the mutex: close the queue and give back what it still holds.
StopClose ==
    /\ wpc = "close"
    /\ closed' = TRUE
    /\ queued_bytes' = queued_bytes - Remaining(blocks)
    /\ blocks' = <<>>
    /\ wpc' = "shutdown"
    /\ UNCHANGED <<prodVars, failed, shut, frame, histVars>>

StopShutdown ==
    /\ wpc = "shutdown"
    /\ shut' = TRUE
    /\ wpc' = "exited"
    /\ UNCHANGED <<prodVars, blocks, closed, failed, queued_bytes, frame, histVars>>

Worker ==
    \/ Take \/ WriteOk \/ WriteErr \/ ReleaseBytes
    \/ StopFailed \/ StopClose \/ StopShutdown

-----------------------------------------------------------------------------
\* A condition variable may return from its wait unasked; nothing makes it.
SpuriousWakeup ==
    /\ wpc = "waiting"
    /\ wpc' = "take"
    /\ UNCHANGED <<prodVars, sharedVars, frame, histVars>>

\* Nothing is left to do once both threads have finished.
Finished == ppc = "dropped" /\ wpc = "exited" /\ UNCHANGED vars

Next == Producer \/ Worker \/ SpuriousWakeup \/ Finished

\* The worker thread runs until it exits; the main loop leaves write_msg and
\* drop once it has entered them (a notify cannot block).
Fairness ==
    /\ WF_vars(Worker)
    /\ WF_vars(FlushNotify \/ DropNotify)

Spec == Init /\ [][Next]_vars
FairSpec == Spec /\ Fairness

-----------------------------------------------------------------------------
\* Every variable keeps its type: in particular `pending' never exceeds the
\* queue's capacity and the byte counter, an AtomicUsize, never wraps below 0.
TypeOK ==
    /\ {closed, failed, shut, broken} \subseteq BOOLEAN
    /\ ppc \in ProducerPC /\ payload \in Payloads \cup {0} /\ pending \in 0 .. QUEUE_BYTES
    /\ blocks \in Seq(Block)
    /\ queued_bytes \in Nat
    /\ wpc \in WorkerPC /\ frame \in Block
    /\ accepted \in Nat /\ frame_ends \subseteq Nat /\ delivered \in Nat

\* The byte cap: what the queue and the worker hold for one client never
\* exceeds QUEUE_BYTES, whatever the producer and the peer do.
QueueBounded == queued_bytes <= QUEUE_BYTES

\* The block the worker has taken and not given back yet.
HeldByWorker == IF wpc \in {"write", "sub_ok", "sub_err"} THEN BlockLen(frame) ELSE 0

\* The shared counter is exactly the bytes held by the queue and by the worker
\* that has not released its block yet; hence no fetch_sub can underflow and
\* no flush is refused for bytes that have already left.
ByteAccounting == queued_bytes = Remaining(blocks) + HeldByWorker

\* The worker can only leave with the queue empty and the counter at zero:
\* a frame flushed while the worker is stopping is refused, not stranded, so
\* drain_output never waits for bytes nobody will write.
NothingStranded == wpc = "exited" => blocks = <<>> /\ queued_bytes = 0

\* A writer that was dropped without a transport error has had every
\* accepted byte, the final S_DETACHED or S_EXIT included, sent to its peer.
CleanExitDeliversAll == wpc = "exited" /\ ~broken => delivered = accepted

\* The peer sees whole frames only: a torn frame implies a broken transport.
WholeFrames == broken \/ delivered \in frame_ends

\* After the worker reported its failure no frame is accepted any more.
FailedIsFinal == [][failed => UNCHANGED accepted]_vars

\* A healthy transport never starves: bytes accepted into the queue are
\* eventually written, or the transport fails, and dropping the writer always
\* ends its thread, which gives its slot of OUTPUT_WORKERS back.  No wake-up is
\* lost.
QueueDrains ==
    /\ \A n \in 1 .. MaxAccepted : (accepted >= n) ~> (delivered >= n \/ broken)
    /\ (ppc = "dropped") ~> (wpc = "exited")

FS == INSTANCE FrameStream

\* The peer sees an ordered, gap-free prefix of the accepted frames, whole
\* unless the transport broke: the queue implements FrameStream.
RefinesFrameStream == FS!Spec
=============================================================================
