---------------------------- MODULE ClientInput ----------------------------
(***************************************************************************)
(* The input half of one attached client (src/src/server/connection.rs):   *)
(* the "ezpn-input" READER thread, the bounded channel with its byte       *)
(* budget, and the ClientReceiver through which the MAIN LOOP takes the    *)
(* messages and which it drops with the client.                            *)
(*                                                                         *)
(* The peer's messages are numbered as the reader gets them; of a message  *)
(* only its number and its size are kept.  A frame that decodes to no      *)
(* message leaves no trace.                                                *)
(***************************************************************************)
EXTENDS Naturals, Sequences, SeqOps

CONSTANTS
    CHANNEL,       \* capacity of the sync_channel (64 in the code)
    QUEUE_BYTES,   \* bytes of messages in flight
    Payloads,      \* sizes of the payloads the peer sends
    MIN_SIZE,      \* a message counts at least this much (64 in the code)
    MaxSends       \* bound of the model: messages in a behaviour

ASSUME InputAssumption ==
    /\ CHANNEL \in Nat \ {0} /\ MIN_SIZE \in Nat \ {0} /\ QUEUE_BYTES \in Nat
    /\ MIN_SIZE <= QUEUE_BYTES
    /\ Payloads \subseteq 0 .. QUEUE_BYTES
    /\ MaxSends \in Nat

MsgSize(payload) == IF payload < MIN_SIZE THEN MIN_SIZE ELSE payload

Msg == [n : Nat, size : Nat]
Disconnected == [n |-> 0, size |-> 0]

VARIABLES
    link,      \* the socket can still be read from
    rpc,       \* where the reader is in client_reader
    held,      \* the message it has decoded
    chan,      \* the channel
    bytes,     \* the shared byte counter
    closed,    \* the shared flag of the ClientReceiver
    mpc,       \* "attached", or how far the main loop is in dropping the client
    read,      \* history: messages the reader has decoded
    received,  \* history: messages the main loop has received
    noticed    \* history: the main loop was told that the client is gone

vars == <<link, rpc, held, chan, bytes, closed, mpc, read, received, noticed>>

Init ==
    /\ link = TRUE /\ rpc = "read" /\ held = Disconnected /\ chan = <<>>
    /\ bytes = 0 /\ closed = FALSE /\ mpc = "attached"
    /\ read = 0 /\ received = 0 /\ noticed = FALSE

\* The receiving end of the channel has been dropped.
Hungup == mpc = "gone"

-----------------------------------------------------------------------------
(* The reader thread.                                                      *)

\* read_socket_msg returns a frame (one may be left in a dead socket) ...
ReadFrame ==
    /\ rpc = "read" /\ read < MaxSends
    /\ \E p \in Payloads : held' = [n |-> read + 1, size |-> MsgSize(p)]
    /\ read' = read + 1
    /\ rpc' = "reserve"
    /\ UNCHANGED <<link, chan, bytes, closed, mpc, received, noticed>>

\* ... or an error.
ReadEnd ==
    /\ rpc = "read" /\ ~link
    /\ rpc' = "final"
    /\ UNCHANGED <<link, held, chan, bytes, closed, mpc, read, received, noticed>>

\* One attempt of the reservation loop.
Fits(n) == bytes + n <= QUEUE_BYTES

Reserve ==
    /\ rpc = "reserve" /\ Fits(held.size)
    /\ bytes' = bytes + held.size
    /\ rpc' = "send"
    /\ UNCHANGED <<link, held, chan, closed, mpc, read, received, noticed>>

\* Mutant of ReserveGivesUp: over budget the message is dropped.
ReserveDrops ==
    /\ rpc = "reserve" /\ ~Fits(held.size)
    /\ rpc' = "read"
    /\ UNCHANGED <<link, held, chan, bytes, closed, mpc, read, received, noticed>>

ReserveGivesUp ==
    /\ rpc = "reserve" /\ ~Fits(held.size) /\ closed
    /\ rpc' = "final"
    /\ UNCHANGED <<link, held, chan, bytes, closed, mpc, read, received, noticed>>

\* tx.send: blocks while the channel is full ...
Send ==
    /\ rpc = "send" /\ ~Hungup /\ Len(chan) < CHANNEL
    /\ chan' = Append(chan, held)
    /\ rpc' = "read"
    /\ UNCHANGED <<link, held, bytes, closed, mpc, read, received, noticed>>

\* ... and fails once the receiver is gone.
SendFails ==
    /\ rpc = "send" /\ Hungup
    /\ bytes' = bytes - held.size
    /\ link' = FALSE
    /\ rpc' = "final"
    /\ UNCHANGED <<held, chan, closed, mpc, read, received, noticed>>

\* tx.try_send(Disconnected), which a full channel refuses; then tx is dropped.
LastWord ==
    /\ rpc = "final"
    /\ chan' = IF ~Hungup /\ Len(chan) < CHANNEL THEN Append(chan, Disconnected) ELSE chan
    /\ rpc' = "ended"
    /\ UNCHANGED <<link, held, bytes, closed, mpc, read, received, noticed>>

Reader ==
    ReadFrame \/ ReadEnd \/ Reserve \/ ReserveGivesUp \/ Send \/ SendFails \/ LastWord

-----------------------------------------------------------------------------
(* The main loop.                                                          *)

\* Mutant of TryRecv: the bytes are not given back.
TryRecvLeaks ==
    /\ mpc = "attached" /\ ~noticed /\ chan # <<>>
    /\ chan' = Tail(chan)
    /\ IF Head(chan) = Disconnected
       THEN noticed' = TRUE /\ UNCHANGED received
       ELSE received' = Head(chan).n /\ UNCHANGED noticed
    /\ UNCHANGED <<link, rpc, held, bytes, closed, mpc, read>>

\* ClientReceiver::try_recv takes a message ...
TryRecv ==
    /\ mpc = "attached" /\ ~noticed /\ chan # <<>>
    /\ chan' = Tail(chan)
    /\ bytes' = bytes - Head(chan).size
    /\ IF Head(chan) = Disconnected
       THEN noticed' = TRUE /\ UNCHANGED received
       ELSE received' = Head(chan).n /\ UNCHANGED noticed
    /\ UNCHANGED <<link, rpc, held, closed, mpc, read>>

\* Mutant of TryRecvDisconnected: handled like an empty channel.
TryRecvEmpty ==
    /\ mpc = "attached" /\ ~noticed /\ chan = <<>> /\ rpc = "ended"
    /\ UNCHANGED vars

\* ... or returns TryRecvError::Disconnected: empty, and the sender dropped.
TryRecvDisconnected ==
    /\ mpc = "attached" /\ ~noticed /\ chan = <<>> /\ rpc = "ended"
    /\ noticed' = TRUE
    /\ UNCHANGED <<link, rpc, held, chan, bytes, closed, mpc, read, received>>

\* The client is dropped: because it was noticed to be gone, or for a detach,
\* a steal, a failed write or the end of the session.  Field by field: the
\* writer shuts the read half of the socket, ...
DropWriter ==
    /\ mpc = "attached"
    /\ link' = FALSE
    /\ mpc' = "drop_receiver"
    /\ UNCHANGED <<rpc, held, chan, bytes, closed, read, received, noticed>>

\* Mutant of DropReceiver: the flag is not raised.
DropReceiverSilently ==
    /\ mpc = "drop_receiver"
    /\ mpc' = "drop_channel"
    /\ UNCHANGED <<link, rpc, held, chan, bytes, closed, read, received, noticed>>

\* ... ClientReceiver::drop raises the flag, ...
DropReceiver ==
    /\ mpc = "drop_receiver"
    /\ closed' = TRUE
    /\ mpc' = "drop_channel"
    /\ UNCHANGED <<link, rpc, held, chan, bytes, read, received, noticed>>

\* ... and its Receiver goes, with the messages nobody took.
DropChannel ==
    /\ mpc = "drop_channel"
    /\ chan' = <<>>
    /\ mpc' = "gone"
    /\ UNCHANGED <<link, rpc, held, bytes, closed, read, received, noticed>>

MainLoop == TryRecv \/ TryRecvDisconnected \/ DropReceiver \/ DropChannel

\* The peer closes, or the output worker shuts the socket after an error.
LinkLost ==
    /\ link
    /\ link' = FALSE
    /\ UNCHANGED <<rpc, held, chan, bytes, closed, mpc, read, received, noticed>>

Finished == rpc = "ended" /\ mpc = "gone" /\ UNCHANGED vars

Next == Reader \/ MainLoop \/ DropWriter \/ LinkLost \/ Finished

Spec == Init /\ [][Next]_vars

\* Both threads are scheduled; the main loop drops a client it was told about
\* in the same round, and never stays in a drop.
FairSpec ==
    /\ Spec
    /\ WF_vars(Reader)
    /\ WF_vars(MainLoop)
    /\ WF_vars(noticed /\ DropWriter)

-----------------------------------------------------------------------------
\* The reservation bounds what a client can make the daemon hold: the byte
\* budget of one connection is never exceeded.
InputBounded == bytes <= QUEUE_BYTES

\* The bytes of the messages in a channel.
Waiting(c) == Total([i \in 1 .. Len(c) |-> c[i].size])

\* While the client is attached the counter is exactly the bytes of the
\* messages in the channel and of the one the reader has reserved: the budget
\* neither leaks (which would block the reader for good) nor is overdrawn.
InputAccounting ==
    mpc # "gone" => bytes = Waiting(chan) + (IF rpc = "send" THEN held.size ELSE 0)

\* Messages arrive in the order they were read and none is skipped: the head
\* of the channel is the successor of what was received last.
InOrder ==
    chan # <<>> /\ chan[1] # Disconnected => chan[1].n = received + 1

\* The main loop learns of a disconnect only after it has received every
\* message the reader got: a key typed just before the link broke is applied.
DisconnectIsLast == noticed /\ mpc = "attached" => received = read

\* A lost link always ends in the client being dropped, also when the channel
\* had no room for the last word or the reader was held by backpressure.
LossIsNoticed == ~link ~> (mpc = "gone")

\* Dropping a client always ends its reader thread, whether it waits for a
\* frame, for bytes or for room in the channel; and as long as the client
\* stays, a reader that holds a message gets on: backpressure is never for good.
ReaderEnds ==
    /\ (mpc = "gone") ~> (rpc = "ended")
    /\ (rpc \in {"reserve", "send"}) ~> (rpc \in {"read", "ended"})
=============================================================================
